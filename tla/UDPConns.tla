------------------------------ MODULE UDPConns ------------------------------
(***************************************************************************)
(* The connection table of ytl::UDPPool (network/include/udp.h,            *)
(* network/src/udp.cpp): the slots conns_, the stack free_indices_ of      *)
(* slots to hand out, the heap blocks behind recv_buffer, and the sockets  *)
(* the kernel keeps for the pool.                                          *)
(*                                                                         *)
(* The pool has no lock and its methods are called one after the other, so *)
(* a call is one step, except where it loops or recurses: then pc says     *)
(* which call is running and the kernel may act between its steps.         *)
(*                                                                         *)
(* Inside the class the name close means UDPPool::close, never ::close.    *)
(* free_slot, the destructor and send_oneshot therefore hand a descriptor  *)
(* to a method that takes a slot number: no descriptor is ever given back  *)
(* to the kernel, and free_slot calls itself through close.  The recursion *)
(* is modelled frame by frame (stack, returning).                          *)
(***************************************************************************)
EXTENDS Integers, Sequences, FiniteSets, SequencesExt

CONSTANTS
  MAX_CONNECTIONS,      \* number of slots (1024 in udp.h)
  DEFAULT_PACKET_SIZE,  \* size of a new recv_buffer (1024 in udp.h)
  Fds,                  \* descriptor numbers the process may use
  StdFds,               \* descriptors the rest of the process uses
  Bufs,                 \* heap blocks
  Addrs,                \* network addresses
  Sizes,                \* lengths of datagrams, in units
  MaxInbox,             \* bound: datagrams waiting at one socket
  MaxIds,               \* bound: length of the list given to recv_from_all
  Faults,               \* bound: the ways in which system calls may fail
  NULL

Errors == {"NONE", "SOCKET_CREATION_FAILED", "SEND_FAILED", "BIND_FAILED",
           "CONNECT_FAILED", "ASYNCIFY_FAILED", "RECV_FAILED", "POLL_FAILED",
           "FAILED_TO_READ_IO_LEN", "INVALID_ADDR"}

ASSUME ConnsAssumption ==
  /\ MAX_CONNECTIONS \in Nat \ {0}
  /\ DEFAULT_PACKET_SIZE \in Nat \ {0}
  /\ Fds \subseteq Nat
  /\ StdFds \subseteq Fds
  /\ Sizes \subseteq Nat
  /\ Faults \subseteq Errors \cup {"NO_MEMORY"}
  /\ MaxInbox \in Nat
  /\ MaxIds \in Nat
  /\ NULL \notin Bufs
  /\ NULL \notin Addrs
  /\ "garbled" \notin Addrs

Slots == 0 .. MAX_CONNECTIONS - 1

\* from is NULL while addr_len is 0, and "garbled" after a failed recvfrom.
\* content is what the buffer holds: the sender of the last datagram read.
ConnectionData ==
  [socket          : Fds \cup {-1},
   recv_buffer     : Bufs \cup {NULL},
   max_packet_size : Nat,
   data_len        : Nat,
   content         : Addrs \cup {NULL},
   from            : Addrs \cup {NULL, "garbled"},
   error           : Errors,
   state           : {"FREE", "ACTIVE"}]

FreshConnection ==
  [socket |-> -1, recv_buffer |-> NULL, max_packet_size |-> DEFAULT_PACKET_SIZE,
   data_len |-> 0, content |-> NULL, from |-> NULL, error |-> "NONE", state |-> "FREE"]

Datagrams == [src : Addrs, len : Sizes]

VARIABLES
  conns,         \* conns_
  free_indices,  \* free_indices_, the next slot to hand out at the end
  heap,          \* live heap blocks
  open,          \* descriptors of sockets the pool created
  foreign,       \* descriptors in use by the rest of the process
  peer,          \* kernel: the address a socket is connected to, or NULL
  blocking,      \* kernel: sockets in blocking mode
  inbox,         \* kernel: datagrams waiting at a socket
  pc,            \* the running call, or how the pool ended
  stack,         \* arguments of the nested free_slot calls, innermost last
  returning,     \* the innermost free_slot frame has come back from close
  cursor,        \* loop index of the destructor
  poll           \* recv_from_all: the ids, poll's answers, the loop index

connVars   == <<conns, free_indices, heap, open, foreign, peer, blocking, inbox,
                pc, stack, returning, cursor, poll>>
kernelVars == <<open, foreign, peer, blocking, inbox>>
callVars   == <<stack, returning, cursor, poll>>
tableVars  == <<conns, free_indices, heap>>

\* How a pool can end: the destructor finished, or undefined behaviour.
Ended == {"destroyed", "stack_overflow", "out_of_bounds", "double_free"}

NoPoll == [ids |-> <<>>, ready |-> <<>>, i |-> 0]

Usable(i) == conns[i].error = "NONE" /\ conns[i].state = "ACTIVE"

ConnsInit ==
  /\ conns = [i \in Slots |-> FreshConnection]
  /\ free_indices = [k \in 1 .. MAX_CONNECTIONS |-> MAX_CONNECTIONS - k]
  /\ heap = {}
  /\ open = {}
  /\ foreign = StdFds
  /\ peer = [f \in Fds |-> NULL]
  /\ blocking = {}
  /\ inbox = [f \in Fds |-> <<>>]
  /\ pc = "idle"
  /\ stack = <<>>
  /\ returning = FALSE
  /\ cursor = 0
  /\ poll = NoPoll

-----------------------------------------------------------------------------
(* The rest of the process and the network.                                *)

\* POSIX: socket() returns the lowest descriptor that is not open.
IsLowestFree(f) ==
  /\ f \in Fds \ (open \cup foreign)
  /\ \A g \in Fds \ (open \cup foreign) : f <= g

ForeignOpen ==
  /\ pc \notin Ended
  /\ \E f \in StdFds : IsLowestFree(f) /\ foreign' = foreign \cup {f}
  /\ UNCHANGED <<conns, free_indices, heap, open, peer, blocking, inbox, pc, stack,
                 returning, cursor, poll>>

ForeignClose ==
  /\ pc \notin Ended
  /\ \E f \in foreign : foreign' = foreign \ {f}
  /\ UNCHANGED <<conns, free_indices, heap, open, peer, blocking, inbox, pc, stack,
                 returning, cursor, poll>>

\* A datagram reaches a socket; a connected socket accepts only its peer's.
\* What reaches a socket no slot refers to is never read and is left out.
Arrive ==
  /\ pc \notin Ended
  /\ \E f \in open \cap {conns[i].socket : i \in Slots}, d \in Datagrams :
       /\ Len(inbox[f]) < MaxInbox
       /\ peer[f] \in {NULL, d.src}
       /\ inbox' = [inbox EXCEPT ![f] = Append(@, d)]
  /\ UNCHANGED <<conns, free_indices, heap, open, foreign, peer, blocking, pc, stack,
                 returning, cursor, poll>>

-----------------------------------------------------------------------------
(* create and serve.                                                       *)

\* alloc_slot pops a slot, malloc returns a block or NULL.
TakeSlot(i, b) ==
  /\ pc = "idle"
  /\ free_indices # <<>>
  /\ i = Last(free_indices)
  /\ b \in Bufs \ heap \/ (b = NULL /\ "NO_MEMORY" \in Faults)
  /\ free_indices' = Front(free_indices)
  /\ heap' = heap \cup ({b} \ {NULL})

WithBuffer(i, b) ==
  [conns[i] EXCEPT !.recv_buffer = b, !.max_packet_size = DEFAULT_PACKET_SIZE]

\* The slot stays taken, its state stays FREE.
CreateUnresolved(i, b) ==
  /\ "INVALID_ADDR" \in Faults
  /\ TakeSlot(i, b)
  /\ conns' = [conns EXCEPT ![i] = [WithBuffer(i, b) EXCEPT !.error = "INVALID_ADDR"]]
  /\ UNCHANGED <<kernelVars, callVars, pc>>

CreateNoSocket(i, b) ==
  /\ "SOCKET_CREATION_FAILED" \in Faults
  /\ TakeSlot(i, b)
  /\ conns' = [conns EXCEPT ![i] =
                 [WithBuffer(i, b) EXCEPT !.socket = -1, !.error = "SOCKET_CREATION_FAILED"]]
  /\ UNCHANGED <<kernelVars, callVars, pc>>

\* Mutant: the descriptor is given back to the kernel but left in the slot.
CreateRefusedCloses(i, b, f, e) ==
  /\ e \in Faults
  /\ TakeSlot(i, b)
  /\ IsLowestFree(f)
  /\ conns' = [conns EXCEPT ![i] = [WithBuffer(i, b) EXCEPT !.socket = f, !.error = e]]
  /\ UNCHANGED <<kernelVars, callVars, pc>>

\* connect() or bind() fails after socket(): the descriptor is kept.
CreateRefused(i, b, f, e) ==
  /\ e \in Faults
  /\ TakeSlot(i, b)
  /\ IsLowestFree(f)
  /\ open' = open \cup {f}
  /\ blocking' = blocking \cup {f}
  /\ conns' = [conns EXCEPT ![i] = [WithBuffer(i, b) EXCEPT !.socket = f, !.error = e]]
  /\ UNCHANGED <<foreign, peer, inbox, callVars, pc>>

\* init_socket(sock): when F_GETFL fails it writes conns_[sock], not the slot
\* the socket belongs to.
InitSocketError(c, f) ==
  IF f \in Slots THEN [c EXCEPT ![f].error = "ASYNCIFY_FAILED"] ELSE c

\* Mutant: create does not record the address, as serve.
CreateActiveNoFrom(i, b, f, a, connect, getfl) ==
  /\ getfl
  /\ TakeSlot(i, b)
  /\ IsLowestFree(f)
  /\ open' = open \cup {f}
  /\ peer' = [peer EXCEPT ![f] = IF connect THEN a ELSE NULL]
  /\ conns' = [conns EXCEPT ![i] = [WithBuffer(i, b) EXCEPT !.socket = f, !.state = "ACTIVE"]]
  /\ UNCHANGED <<foreign, blocking, inbox, pc, callVars>>

\* a is the address connected to or bound; serve() has none to record.  getfl:
\* F_GETFL succeeds; that F_SETFL fails then is not noticed.
CreateActive(i, b, f, a, connect, getfl) ==
  LET made == [conns EXCEPT ![i] =
                 [WithBuffer(i, b) EXCEPT !.socket = f, !.state = "ACTIVE",
                                          !.from = IF a = NULL THEN @ ELSE a]]
  IN
  /\ TakeSlot(i, b)
  /\ IsLowestFree(f)
  /\ open' = open \cup {f}
  /\ peer' = [peer EXCEPT ![f] = IF connect THEN a ELSE NULL]
  /\ IF getfl
       THEN /\ conns' = made
            /\ UNCHANGED pc
            /\ \/ UNCHANGED blocking
               \/ "ASYNCIFY_FAILED" \in Faults /\ blocking' = blocking \cup {f}
       ELSE /\ "ASYNCIFY_FAILED" \in Faults
            /\ conns' = InitSocketError(made, f)
            /\ pc' = IF f \in Slots THEN pc ELSE "out_of_bounds"
            /\ blocking' = blocking \cup {f}
  /\ UNCHANGED <<foreign, inbox, callVars>>

Create ==
  \E i \in Slots, b \in Bufs \cup {NULL}, f \in Fds, getfl \in BOOLEAN :
    \/ CreateUnresolved(i, b)
    \/ CreateNoSocket(i, b)
    \/ CreateRefused(i, b, f, "CONNECT_FAILED")
    \/ CreateRefused(i, b, f, "BIND_FAILED")
    \/ \E a \in Addrs, connect \in BOOLEAN : CreateActive(i, b, f, a, connect, getfl)

\* serve() does not resolve a name, and binds to INADDR_ANY.
Serve ==
  \E i \in Slots, b \in Bufs \cup {NULL}, f \in Fds, getfl \in BOOLEAN :
    \/ CreateNoSocket(i, b)
    \/ CreateRefused(i, b, f, "BIND_FAILED")
    \/ CreateActive(i, b, f, NULL, FALSE, getfl)

-----------------------------------------------------------------------------
(* close, free_slot, send_oneshot and the destructor.                      *)

Close(i) ==
  /\ pc = "idle"
  /\ pc' = "close"
  /\ stack' = <<i>>
  /\ UNCHANGED <<tableVars, kernelVars, returning, cursor, poll>>

\* The temporary socket's descriptor is passed to UDPPool::close, whether the
\* host resolves or not and whether sendto succeeds or not.
SendOneshot ==
  /\ pc = "idle"
  /\ \E f \in Fds :
       /\ IsLowestFree(f)
       /\ open' = open \cup {f}
       /\ blocking' = blocking \cup {f}
       /\ stack' = <<f>>
  /\ pc' = "close"
  /\ UNCHANGED <<tableVars, foreign, peer, inbox, returning, cursor, poll>>

InFreeSlot == pc \in {"close", "dtor_close"} /\ stack # <<>>

\* Pop the innermost frame; the outermost one returns to its caller.
PopFrame ==
  /\ stack' = Front(stack)
  /\ returning' = (Len(stack) > 1)
  /\ pc' = IF Len(stack) > 1 THEN pc
           ELSE IF pc = "close" THEN "idle" ELSE "dtor_free"

\* free_slot reads conns_[index]; past the end of the array anything may happen.
FreeSlotOutOfBounds ==
  /\ InFreeSlot /\ ~returning
  /\ Last(stack) \notin Slots
  /\ pc' = "out_of_bounds"
  /\ UNCHANGED <<tableVars, kernelVars, callVars>>

FreeSlotSkip ==
  /\ InFreeSlot /\ ~returning
  /\ Last(stack) \in Slots
  /\ conns[Last(stack)].state = "FREE"
  /\ PopFrame
  /\ UNCHANGED <<tableVars, kernelVars, cursor, poll>>

\* Mutant: free_slot does not look at the state first.
FreeSlotRecurseUnguarded ==
  /\ InFreeSlot /\ ~returning
  /\ Last(stack) \in Slots
  /\ LET s == conns[Last(stack)].socket IN
       IF s \in ToSet(stack)
         THEN pc' = "stack_overflow" /\ UNCHANGED stack
         ELSE stack' = Append(stack, s) /\ UNCHANGED pc
  /\ UNCHANGED <<tableVars, kernelVars, returning, cursor, poll>>

\* close(conn.socket): a call with the descriptor as the slot number.  A frame
\* writes nothing before its call returns, so a number that is already on the
\* stack is met again and again until the stack is exhausted.
FreeSlotRecurse ==
  /\ InFreeSlot /\ ~returning
  /\ Last(stack) \in Slots
  /\ conns[Last(stack)].state # "FREE"
  /\ LET s == conns[Last(stack)].socket IN
       IF s \in ToSet(stack)
         THEN pc' = "stack_overflow" /\ UNCHANGED stack
         ELSE stack' = Append(stack, s) /\ UNCHANGED pc
  /\ UNCHANGED <<tableVars, kernelVars, returning, cursor, poll>>

\* std::free(p): freeing a block twice is undefined.
DoubleFree(p) == p # NULL /\ p \notin heap

FreeSlotDoubleFree ==
  /\ InFreeSlot /\ returning
  /\ DoubleFree(conns[Last(stack)].recv_buffer)
  /\ pc' = "double_free"
  /\ UNCHANGED <<tableVars, kernelVars, callVars>>

\* Mutant: the slot is listed but not reset.
FreeSlotReleaseNoReset ==
  /\ InFreeSlot /\ returning
  /\ ~DoubleFree(conns[Last(stack)].recv_buffer)
  /\ heap' = heap \ {conns[Last(stack)].recv_buffer}
  /\ free_indices' = Append(free_indices, Last(stack))
  /\ PopFrame
  /\ UNCHANGED <<conns, kernelVars, cursor, poll>>

\* Mutant: the error outlives the reset.
FreeSlotReleaseKeepsError ==
  LET i == Last(stack) IN
  /\ InFreeSlot /\ returning
  /\ ~DoubleFree(conns[i].recv_buffer)
  /\ heap' = heap \ {conns[i].recv_buffer}
  /\ conns' = [conns EXCEPT ![i] = [FreshConnection EXCEPT !.error = conns[i].error]]
  /\ free_indices' = Append(free_indices, i)
  /\ PopFrame
  /\ UNCHANGED <<kernelVars, cursor, poll>>

\* Mutant: free_slot looks at the state again before it frees.
FreeSlotReleaseRetries ==
  /\ InFreeSlot /\ returning
  /\ returning' = FALSE
  /\ UNCHANGED <<pc, tableVars, kernelVars, stack, cursor, poll>>

FreeSlotRelease ==
  /\ InFreeSlot /\ returning
  /\ ~DoubleFree(conns[Last(stack)].recv_buffer)
  /\ heap' = heap \ {conns[Last(stack)].recv_buffer}
  /\ conns' = [conns EXCEPT ![Last(stack)] = FreshConnection]
  /\ free_indices' = Append(free_indices, Last(stack))
  /\ PopFrame
  /\ UNCHANGED <<kernelVars, cursor, poll>>

FreeSlot ==
  \/ FreeSlotOutOfBounds
  \/ FreeSlotSkip
  \/ FreeSlotRecurse
  \/ FreeSlotDoubleFree
  \/ FreeSlotRelease

\* Mutant: the destructor clears the table before it walks it.
DestroyClears ==
  /\ pc = "idle"
  /\ pc' = "dtor_next"
  /\ cursor' = 0
  /\ conns' = [i \in Slots |-> FreshConnection]
  /\ UNCHANGED <<free_indices, heap, kernelVars, stack, returning, poll>>

\* The destructor closes each slot's socket number and then frees the slot's
\* block, without resetting the slot.
Destroy ==
  /\ pc = "idle"
  /\ pc' = "dtor_next"
  /\ cursor' = 0
  /\ UNCHANGED <<tableVars, kernelVars, stack, returning, poll>>

\* Mutant: the loop leaves out the last slot.
DestroyNextStopsEarly ==
  /\ pc = "dtor_next"
  /\ IF cursor = MAX_CONNECTIONS - 1
       THEN pc' = "destroyed" /\ UNCHANGED <<cursor, stack>>
     ELSE IF conns[cursor].state = "FREE"
       THEN cursor' = cursor + 1 /\ UNCHANGED <<pc, stack>>
       ELSE pc' = "dtor_close" /\ stack' = <<conns[cursor].socket>> /\ UNCHANGED cursor
  /\ UNCHANGED <<tableVars, kernelVars, returning, poll>>

DestroyNext ==
  /\ pc = "dtor_next"
  /\ IF cursor = MAX_CONNECTIONS
       THEN pc' = "destroyed" /\ UNCHANGED <<cursor, stack>>
     ELSE IF conns[cursor].state = "FREE"
       THEN cursor' = cursor + 1 /\ UNCHANGED <<pc, stack>>
       ELSE pc' = "dtor_close" /\ stack' = <<conns[cursor].socket>> /\ UNCHANGED cursor
  /\ UNCHANGED <<tableVars, kernelVars, returning, poll>>

DestroyFree ==
  /\ pc = "dtor_free"
  /\ IF DoubleFree(conns[cursor].recv_buffer)
       THEN pc' = "double_free" /\ UNCHANGED <<heap, cursor>>
       ELSE /\ heap' = heap \ {conns[cursor].recv_buffer}
            /\ cursor' = cursor + 1
            /\ pc' = "dtor_next"
  /\ UNCHANGED <<conns, free_indices, kernelVars, stack, returning, poll>>

-----------------------------------------------------------------------------
(* recv, recv_from and recv_from_all.                                      *)

\* FIONREAD: Linux reports the length of the next datagram, BSD and macOS all
\* that is queued, addresses included.
Available(f) ==
  IF f \in open /\ inbox[f] # <<>> THEN {n \in Sizes : n >= Head(inbox[f]).len} ELSE {0}

\* Capacity of the buffer once n bytes are asked for.
Grown(c, n) == IF n > c.max_packet_size THEN n ELSE c.max_packet_size

\* std::realloc is asked for a larger block, and for a first one when malloc
\* had failed.  A block that moves keeps its name.
Reallocated(c, n, b) ==
  IF n > c.max_packet_size /\ c.recv_buffer = NULL
    THEN b \in Bufs \ heap
    ELSE b = c.recv_buffer

\* The body recv and recv_from share, on a usable connection.
ReceiveNoLength(i) ==
  /\ "FAILED_TO_READ_IO_LEN" \in Faults
  /\ conns' = [conns EXCEPT ![i].error = "FAILED_TO_READ_IO_LEN"]
  /\ UNCHANGED <<heap, inbox>>

ReceiveNothing(i) ==
  /\ 0 \in Available(conns[i].socket)
  /\ conns' = [conns EXCEPT ![i].data_len = 0]
  /\ UNCHANGED <<heap, inbox>>

\* Mutant: the failed realloc is not recorded.
ReceiveNoMemorySilent(i) ==
  /\ "NO_MEMORY" \in Faults
  /\ \E n \in Available(conns[i].socket) \ {0} :
       /\ n > conns[i].max_packet_size
       /\ conns' = [conns EXCEPT ![i].data_len = n]
  /\ UNCHANGED <<heap, inbox>>

ReceiveNoMemory(i) ==
  /\ "NO_MEMORY" \in Faults
  /\ \E n \in Available(conns[i].socket) \ {0} :
       /\ n > conns[i].max_packet_size
       /\ conns' = [conns EXCEPT ![i].data_len = n, ![i].error = "FAILED_TO_READ_IO_LEN"]
  /\ UNCHANGED <<heap, inbox>>

\* Mutant: what a failed recv returns is taken for the length.
ReceiveFailsStored(i, with_from) ==
  \E n \in Available(conns[i].socket) \ {0}, b \in Bufs \cup {NULL} :
    /\ Reallocated(conns[i], n, b)
    /\ "RECV_FAILED" \in Faults
    /\ heap' = heap \cup ({b} \ {NULL})
    /\ conns' = [conns EXCEPT ![i] =
                   [conns[i] EXCEPT !.recv_buffer = b, !.max_packet_size = Grown(conns[i], n),
                                    !.error = "RECV_FAILED", !.data_len = -1]]
    /\ UNCHANGED inbox

\* The datagram may be lost with the error or stay queued.
ReceiveFails(i, with_from) ==
  \E n \in Available(conns[i].socket) \ {0}, b \in Bufs \cup {NULL} :
    /\ Reallocated(conns[i], n, b)
    /\ b = NULL \/ "RECV_FAILED" \in Faults
    /\ heap' = heap \cup ({b} \ {NULL})
    /\ conns' = [conns EXCEPT ![i] =
                   [conns[i] EXCEPT
                      !.recv_buffer = b, !.max_packet_size = Grown(conns[i], n),
                      !.from = IF with_from THEN "garbled" ELSE @,
                      !.error = "RECV_FAILED", !.data_len = 0]]
    /\ \/ UNCHANGED inbox
       \/ inbox' = [inbox EXCEPT ![conns[i].socket] = Tail(@)]

ReceiveData(i, with_from) ==
  \E n \in Available(conns[i].socket) \ {0}, b \in Bufs \cup {NULL} :
    LET d == Head(inbox[conns[i].socket]) IN
    /\ Reallocated(conns[i], n, b)
    /\ b # NULL \/ d.len = 0
    /\ heap' = heap \cup ({b} \ {NULL})
    /\ conns' = [conns EXCEPT ![i] =
                   [conns[i] EXCEPT
                      !.recv_buffer = b, !.max_packet_size = Grown(conns[i], n),
                      !.from = IF with_from THEN d.src ELSE @,
                      !.content = d.src, !.data_len = d.len]]
    /\ inbox' = [inbox EXCEPT ![conns[i].socket] = Tail(@)]

Receive(i, with_from) ==
  /\ Usable(i)
  /\ \/ ReceiveNoLength(i)
     \/ ReceiveNothing(i)
     \/ ReceiveNoMemory(i)
     \/ ReceiveFails(i, with_from)
     \/ ReceiveData(i, with_from)
  /\ UNCHANGED <<free_indices, open, foreign, peer, blocking>>

Recv(i) ==
  /\ pc = "idle"
  /\ Receive(i, FALSE)
  /\ UNCHANGED <<pc, callVars>>

RecvFrom(i) ==
  /\ pc = "idle"
  /\ Receive(i, TRUE)
  /\ UNCHANGED <<pc, callVars>>

\* The k-th smallest of a set of positions, and the elements of a sequence at
\* those positions, in their order.
Nth(P, k)    == CHOOSE p \in P : Cardinality({q \in P : q <= p}) = k
Picked(s, P) == [k \in 1 .. Cardinality(P) |-> s[Nth(P, k)]]

\* recv_from_all collects the descriptors of the usable ids and polls them;
\* the k-th answer then leads to recv_from(conn_ids[k]).
RecvFromAll(ids) ==
  LET polled == Picked(ids, {p \in 1 .. Len(ids) : Usable(ids[p])}) IN
  /\ pc = "idle"
  /\ pc' = "recv_all"
  /\ poll' = [ids   |-> ids,
              ready |-> [k \in 1 .. Len(polled) |-> inbox[conns[polled[k]].socket] # <<>>],
              i     |-> 1]
  /\ UNCHANGED <<tableVars, kernelVars, stack, returning, cursor>>

\* poll() fails: every id gets the error, usable or not.
RecvFromAllPollFails(ids) ==
  /\ pc = "idle"
  /\ "POLL_FAILED" \in Faults
  /\ conns' = [i \in Slots |-> IF i \in ToSet(ids)
                               THEN [conns[i] EXCEPT !.error = "POLL_FAILED"] ELSE conns[i]]
  /\ UNCHANGED <<free_indices, heap, kernelVars, pc, callVars>>

\* Mutant: the loop reads from the id after the one that answered.
RecvFromAllNextOffByOne ==
  LET k == IF poll.i < Len(poll.ids) THEN poll.i + 1 ELSE poll.i IN
  /\ pc = "recv_all"
  /\ poll.i <= Len(poll.ready)
  /\ poll' = [poll EXCEPT !.i = @ + 1]
  /\ IF poll.ready[poll.i] /\ Usable(poll.ids[k])
       THEN Receive(poll.ids[k], TRUE)
       ELSE UNCHANGED <<tableVars, kernelVars>>
  /\ UNCHANGED <<pc, stack, returning, cursor>>

RecvFromAllNext ==
  /\ pc = "recv_all"
  /\ poll.i <= Len(poll.ready)
  /\ poll' = [poll EXCEPT !.i = @ + 1]
  /\ IF poll.ready[poll.i] /\ Usable(poll.ids[poll.i])
       THEN Receive(poll.ids[poll.i], TRUE)
       ELSE UNCHANGED <<tableVars, kernelVars>>
  /\ UNCHANGED <<pc, stack, returning, cursor>>

RecvFromAllDone ==
  /\ pc = "recv_all"
  /\ poll.i > Len(poll.ready)
  /\ pc' = "idle"
  /\ poll' = NoPoll
  /\ UNCHANGED <<tableVars, kernelVars, stack, returning, cursor>>

-----------------------------------------------------------------------------
\* What the table sees of the sending calls: a system call of send, send_to or
\* try_flush_queue failed for good.
SendFails(i) ==
  /\ pc = "idle"
  /\ "SEND_FAILED" \in Faults
  /\ Usable(i)
  /\ conns' = [conns EXCEPT ![i].error = "SEND_FAILED"]
  /\ UNCHANGED <<free_indices, heap, kernelVars, pc, callVars>>

\* A pool that has ended stays as it is.
Finished ==
  /\ pc \in Ended
  /\ UNCHANGED connVars

IdLists == BoundedSeq(Slots, MaxIds)

Environment == ForeignOpen \/ ForeignClose \/ Arrive

\* Every call but those that send, which UDPPool adds.
ConnsCalls ==
  \/ Environment
  \/ Create
  \/ Serve
  \/ \E i \in Slots : Close(i) \/ Recv(i) \/ RecvFrom(i)
  \/ SendOneshot
  \/ FreeSlot
  \/ Destroy \/ DestroyNext \/ DestroyFree
  \/ \E ids \in IdLists : RecvFromAll(ids) \/ RecvFromAllPollFails(ids)
  \/ RecvFromAllNext
  \/ RecvFromAllDone
  \/ Finished

ConnsNext == ConnsCalls \/ \E i \in Slots : SendFails(i)

ConnsSpec == ConnsInit /\ [][ConnsNext]_connVars
-----------------------------------------------------------------------------
(* Properties.                                                             *)

Pcs == {"idle", "close", "dtor_next", "dtor_close", "dtor_free", "recv_all"} \cup Ended

\* The variables have the shapes of their declarations in udp.h; stack holds
\* slot numbers or descriptors, because free_slot is called with both.
ConnsTypeOK ==
  /\ conns \in [Slots -> ConnectionData]
  /\ free_indices \in Seq(Slots)
  /\ heap \subseteq Bufs
  /\ open \subseteq Fds
  /\ foreign \subseteq Fds
  /\ peer \in [Fds -> Addrs \cup {NULL}]
  /\ blocking \subseteq Fds
  /\ inbox \in [Fds -> Seq(Datagrams)]
  /\ pc \in Pcs
  /\ stack \in Seq(Slots \cup Fds \cup {-1})
  /\ returning \in BOOLEAN
  /\ cursor \in 0 .. MAX_CONNECTIONS
  /\ poll \in [ids : Seq(Slots), ready : Seq(BOOLEAN), i : Nat]

Active(i) == conns[i].state = "ACTIVE"
Listed(i) == i \in ToSet(free_indices)

\* alloc_slot never hands out a slot that is in use: free_indices_ lists a slot
\* at most once, and a listed slot is FREE and holds neither block nor socket,
\* however close recurses (udp.cpp:343-364).
FreeListSound ==
  /\ \A j, k \in 1 .. Len(free_indices) : free_indices[j] = free_indices[k] => j = k
  /\ \A i \in Slots : Listed(i) => /\ conns[i].state = "FREE"
                                   /\ conns[i].recv_buffer = NULL
                                   /\ conns[i].socket = -1

\* A slot that is neither in use nor listed was lost by a failed create or
\* serve, and get_error says so: no slot disappears without an error.  A listed slot
\* has no error of its last connection; a failed poll can mark it, and so can the
\* init_socket of another slot's socket (udp.cpp:320, 458), and the connection made in
\* it next starts with that error.
SlotAccounting ==
  \A i \in Slots :
    /\ Active(i) \/ Listed(i) \/ conns[i].error # "NONE"
    /\ Listed(i) => conns[i].error \in {"NONE", "POLL_FAILED", "ASYNCIFY_FAILED"}

\* Every live block belongs to exactly one slot, and every block a slot names is
\* live, unless the destructor has already freed it (it leaves the pointer).
BlockOwnership ==
  /\ \A b \in heap : \E i \in Slots : conns[i].recv_buffer = b
  /\ \A i, j \in Slots : conns[i].recv_buffer = conns[j].recv_buffer
                           => i = j \/ conns[i].recv_buffer = NULL
  /\ \A i \in Slots : \/ conns[i].recv_buffer \in heap \cup {NULL}
                      \/ i < cursor /\ Active(i)

\* Two connections never share a socket, and each has a socket the kernel opened.
DescriptorsDistinct ==
  \A i \in Slots : Active(i) =>
     /\ conns[i].socket \in open
     /\ \A j \in Slots : conns[j].socket = conns[i].socket => i = j

\* When the destructor has finished, the only blocks left are those of the slots
\* that a failed create or serve lost.
DestructorFrees ==
  pc = "destroyed" =>
    \A i \in Slots : conns[i].recv_buffer \in heap => ~Active(i) /\ ~Listed(i)

\* The nested free_slot calls follow the descriptors: each frame waits for the
\* one called with its own socket, and no slot has two frames.
FrameChain ==
  /\ \A j, k \in 1 .. Len(stack) : stack[j] = stack[k] => j = k
  /\ \A k \in 1 .. Len(stack) :
       k < Len(stack) \/ returning =>
         stack[k] \in Slots /\ Active(stack[k])
  /\ \A k \in 1 .. Len(stack) - 1 : conns[stack[k]].socket = stack[k + 1]

\* A close frees the slot it was called for, and otherwise only slots whose
\* number is the descriptor of a connection that is in use (udp.cpp:359).
CloseReach ==
  [][\A i \in Slots : Active(i) /\ ~Active(i)' =>
        \/ stack # <<>> /\ i = stack[1]
        \/ \E j \in Slots : Active(j) /\ conns[j].socket = i]_connVars

\* Only a cycle of descriptors and slot numbers makes close recurse for ever.
OverflowMeansCycle ==
  pc = "stack_overflow" =>
    \E C \in SUBSET Slots :
      /\ C # {}
      /\ \A i \in C : Active(i) /\ conns[i].socket \in C

\* A block is freed twice only when the destructor has passed a slot p and a
\* connection q behind it has p as its descriptor (udp.cpp:36-43).
DoubleFreeMeansBackLink ==
  pc = "double_free" =>
    \E p, q \in Slots : /\ p < cursor /\ p < q
                        /\ Active(p) /\ Active(q)
                        /\ conns[q].socket = p

\* The span get_data returns on a connection without an error lies in a block
\* that is large enough (udp.cpp:156-176, 467-474).
SpanInBuffer ==
  \A i \in Slots : conns[i].error = "NONE" /\ conns[i].data_len > 0 =>
     conns[i].recv_buffer # NULL /\ conns[i].data_len <= conns[i].max_packet_size

\* The answers of poll stay true until recv_from_all acts on them: when it comes
\* to an id that it polled, is not repeated, and answered ready, the connection
\* is still usable and still has a datagram (udp.cpp:325-331).  The answers belong
\* to the ids only if none was passed over.
PollAnswersHold ==
  pc = "recv_all" /\ Len(poll.ready) = Len(poll.ids) /\ IsInjective(poll.ids) =>
    \A k \in poll.i .. Len(poll.ready) : poll.ready[k] =>
       Usable(poll.ids[k]) /\ inbox[conns[poll.ids[k]].socket] # <<>>

\* On a connected socket get_from names the sender of what get_data returns,
\* whether it was read with recv or recv_from and however the slot was used before.
FromIsSender ==
  \A i \in Slots :
    /\ Usable(i)
    /\ conns[i].data_len > 0
    /\ peer[conns[i].socket] # NULL
    => conns[i].from = conns[i].content

\* error_string calls ASYNCIFY_FAILED "Failed to make socket non-blocking"
\* (udp.cpp:540): a slot with that error has a socket in blocking mode.
AsyncifyMeansBlocking ==
  \A i \in Slots : conns[i].error = "ASYNCIFY_FAILED" =>
     Active(i) /\ conns[i].socket \in blocking

\* Every close returns, or ends the program: nested calls do not go on for ever
\* in any other way.
CloseTerminates == pc = "close" ~> pc # "close"

ConnsFairSpec == ConnsSpec /\ WF_connVars(FreeSlot)
=============================================================================
