------------------------------- MODULE UDPPool -------------------------------
(***************************************************************************)
(* ytl::UDPPool as a whole: the connection table of UDPConns and the       *)
(* packet queue in front of it (packet_queue_, try_flush_queue,            *)
(* queue_packet, send, send_to, send_to_all, update).                      *)
(*                                                                         *)
(* One ring of MAX_BUFFERED_PACKETS entries serves every connection.  A    *)
(* packet is named by the number of the send call that gave it; sends      *)
(* records the calls on usable connections and wire the datagrams the      *)
(* kernel accepted, both only to state properties.  MAX_BUFFERED_PACKETS   *)
(* is a power of two in udp.h, so & (MAX_BUFFERED_PACKETS - 1) is %.       *)
(* data_storage is reserved and never used.                                *)
(***************************************************************************)
EXTENDS UDPConns

CONSTANTS
  MAX_BUFFERED_PACKETS,  \* entries of the ring (8 in udp.h)
  UINT16,                \* 2^16: PacketData.len and max_len are uint16_t
  PacketSizes,           \* sizes of the spans given to send and send_to
  MaxSends               \* bound: send calls, far below the range of length

ASSUME PoolAssumption ==
  /\ MAX_BUFFERED_PACKETS \in Nat \ {0}
  /\ UINT16 \in Nat \ {0}
  /\ PacketSizes \subseteq Nat
  /\ MaxSends \in Nat
  /\ NULL \notin Nat

VARIABLES
  packets,       \* packet_queue_.packets
  length,        \* packet_queue_.length
  addr_storage,  \* number of elements of packet_queue_.addr_storage
  busy,          \* the running update or send_to_all, and the ids still to do
  crashed,       \* memcpy wrote through a null pointer
  sends,         \* history: the send calls and what they returned
  wire           \* history: datagrams accepted by the kernel, in order

queueVars == <<packets, length, addr_storage>>
poolVars  == <<packets, length, addr_storage, busy, crashed, sends, wire>>
vars      == <<connVars, poolVars>>

Entries == 0 .. MAX_BUFFERED_PACKETS - 1

\* A PacketData: data is the number of the packet its block holds, NULL when
\* there is no block; to is NULL when there is no destination, that is no Address
\* (has_to is FALSE) or one whose addr_len is 0; len and max_len are uint16_t.
\* Mutant: an entry without a block claims room.
NoPacketRoomy ==
  [data |-> NULL, has_to |-> FALSE, to |-> NULL, len |-> 0, max_len |-> UINT16 - 1]

NoPacket == [data |-> NULL, has_to |-> FALSE, to |-> NULL, len |-> 0, max_len |-> 0]

Idle == [op |-> "none", rest |-> <<>>, size |-> 0]

Init ==
  /\ ConnsInit
  /\ packets = [p \in Entries |-> NoPacket]
  /\ length = 0
  /\ addr_storage = 0
  /\ busy = Idle
  /\ crashed = FALSE
  /\ sends = <<>>
  /\ wire = <<>>

-----------------------------------------------------------------------------
(* try_flush_queue.                                                        *)

\* Mutant: the window is one entry short.
StartOffByOne ==
  IF length >= MAX_BUFFERED_PACKETS THEN length - MAX_BUFFERED_PACKETS + 1 ELSE 0

Start == IF length > MAX_BUFFERED_PACKETS THEN length - MAX_BUFFERED_PACKETS ELSE 0

\* The turns of the loop that try to send, and the entry at the k-th of them.
Unsent   == {i \in Start .. length - 1 : packets[i % MAX_BUFFERED_PACKETS].len > 0}
Entry(k) == Nth(Unsent, k) % MAX_BUFFERED_PACKETS

\* The kernel can take a packet on the socket of connection c: it has a
\* destination, its own or the socket's, and fits in a datagram.
Sendable(c, a, size) ==
  (a # NULL \/ peer[conns[c].socket] # NULL) /\ size < UINT16

\* What try_flush_queue(c) can do: it sends the first sent entries, then there
\* is none left ("clear"), the kernel would block, or a call fails for good.
\* EWOULDBLOCK is the answer for a packet the kernel could take; without a
\* destination, or too long, the call fails for good.  An entry whose block was lost
\* cannot be sent.  With nothing to do it leaves the queue alone ("skipped").
Flushes(c) ==
  IF length = 0 \/ conns[c].error # "NONE"
    THEN {[sent |-> 0, end |-> "skipped"]}
    ELSE {o \in [sent : 0 .. Cardinality(Unsent), end : {"clear", "blocked", "failed"}] :
            /\ \A k \in 1 .. o.sent :
                 LET packet == packets[Entry(k)] IN
                 packet.data # NULL /\ Sendable(c, packet.to, packet.len)
            /\ (o.end = "clear") <=> (o.sent = Cardinality(Unsent))
            /\ o.end = "blocked" =>
                 LET packet == packets[Entry(o.sent + 1)] IN
                 Sendable(c, packet.to, packet.len)
            /\ o.end = "failed" => "SEND_FAILED" \in Faults}

\* try_flush_queue returns true exactly when the kernel would block.
Blocked(o) == o.end = "blocked"

SentBy(o) == {Entry(k) : k \in 1 .. o.sent}

Flushed(o) ==
  [p \in Entries |-> IF p \in SentBy(o) THEN [packets[p] EXCEPT !.len = 0] ELSE packets[p]]

LengthAfter(o) == IF o.end = "clear" THEN 0 ELSE length

\* Where the kernel delivers what is sent on socket f for address a: without an
\* address ::send leaves it to the peer of the socket.
Dest(f, a) == IF a # NULL THEN a ELSE peer[f]

\* Packet n on the wire, sent on the socket of connection c.
Datagram(c, n, a, len) ==
  [n |-> n, sock |-> conns[c].socket, to |-> a, dest |-> Dest(conns[c].socket, a), len |-> len]

\* The datagrams a flush on the socket of connection c puts on the wire.
FlushedDatagrams(c, o) ==
  [k \in 1 .. o.sent |-> LET packet == packets[Entry(k)] IN
                         Datagram(c, packet.data, packet.to, packet.len)]

-----------------------------------------------------------------------------
(* queue_packet: packet number n of the given size, for address a or NULL. *)

\* An entry that cannot be enlarged keeps len and max_len and has lost its
\* block.
Unallocated(packet) == [packet EXCEPT !.data = NULL]

\* Mutant: a packet without an address keeps that of the entry.
FilledOldAddress(packet, n, a, size) ==
  [data |-> n, has_to |-> packet.has_to \/ a # NULL,
   to |-> IF a = NULL THEN packet.to ELSE a, len |-> size % UINT16,
   max_len |-> IF packet.max_len < size THEN size % UINT16 ELSE packet.max_len]

Filled(packet, n, a, size) ==
  [data    |-> n,
   has_to  |-> packet.has_to \/ a # NULL,
   to      |-> a,
   len     |-> size % UINT16,
   max_len |-> IF packet.max_len < size THEN size % UINT16 ELSE packet.max_len]

\* Mutant: an address is added although the entry has one.
QueuePacketAddsAddress(qs, len, n, a, size, alloc, result) ==
  LET p == len % MAX_BUFFERED_PACKETS IN
  /\ alloc
  /\ length' = len + 1
  /\ packets' = [qs EXCEPT ![p] = Filled(qs[p], n, a, size)]
  /\ addr_storage' = addr_storage + (IF a # NULL THEN 1 ELSE 0)
  /\ result = "BUFFERED"
  /\ UNCHANGED crashed

\* qs, len: the queue after the flush that precedes.
QueuePacket(qs, len, n, a, size, alloc, result) ==
  LET p    == len % MAX_BUFFERED_PACKETS
      grow == qs[p].max_len < size
      full == ~grow \/ alloc
  IN
  /\ ~alloc => grow /\ "NO_MEMORY" \in Faults
  /\ length' = len + 1
  /\ IF full
       THEN /\ packets' = [qs EXCEPT ![p] = Filled(qs[p], n, a, size)]
            /\ addr_storage' = addr_storage + (IF a # NULL /\ ~qs[p].has_to THEN 1 ELSE 0)
            /\ crashed' = (~grow /\ qs[p].data = NULL /\ size > 0)
            /\ result = "BUFFERED"
       ELSE /\ packets' = [qs EXCEPT ![p] = Unallocated(qs[p])]
            /\ UNCHANGED <<addr_storage, crashed>>
            /\ result = "FAILED"

-----------------------------------------------------------------------------
(* send (a = NULL) and send_to.                                            *)

\* dest: where the call would have its packet go; failed: a call of this send has
\* set SEND_FAILED; queued: it called queue_packet.
SendRecord(c, a, size, result, failed, queued) ==
  [sock |-> conns[c].socket, to |-> a, dest |-> Dest(conns[c].socket, a), size |-> size,
   result |-> result, failed |-> failed, queued |-> queued]

Results == {"OK", "BUFFERED", "FAILED"}

\* Mutant: a connection that cannot send is reset.
SetSendFailedResets(c, failed) ==
  /\ failed => "SEND_FAILED" \in Faults
  /\ conns' = IF failed THEN [conns EXCEPT ![c] = FreshConnection] ELSE conns

SetSendFailed(c, failed) ==
  /\ failed => "SEND_FAILED" \in Faults
  /\ conns' = IF failed THEN [conns EXCEPT ![c].error = "SEND_FAILED"] ELSE conns

\* The flush or the system call meets a full socket buffer: the packet is queued.
\* After a flush that blocks the kernel is not asked about the packet itself.
SendQueues(c, a, size) ==
  \E o \in Flushes(c), alloc \in BOOLEAN, result \in Results :
    /\ Blocked(o) \/ Sendable(c, a, size)
    /\ QueuePacket(Flushed(o), LengthAfter(o), Len(sends) + 1, a, size, alloc, result)
    /\ wire' = wire \o FlushedDatagrams(c, o)
    /\ SetSendFailed(c, o.end = "failed")
    /\ sends' = Append(sends, SendRecord(c, a, size, result, o.end = "failed", TRUE))
    /\ UNCHANGED <<free_indices, heap, kernelVars, pc, callVars>>

\* Mutant: the packet goes out although older ones wait.
SendNowOvertakes(c, a, size) ==
  \E o \in Flushes(c) :
    /\ Sendable(c, a, size)
    /\ packets' = Flushed(o)
    /\ length' = LengthAfter(o)
    /\ wire' = wire \o FlushedDatagrams(c, o) \o <<Datagram(c, Len(sends) + 1, a, size)>>
    /\ SetSendFailed(c, o.end = "failed")
    /\ sends' = Append(sends, SendRecord(c, a, size, "OK", o.end = "failed", FALSE))
    /\ UNCHANGED <<addr_storage, crashed, free_indices, heap, kernelVars, pc, callVars>>

\* The flush did not block, so the packet goes out at once, or the call fails.
\* After a failed flush the send goes on all the same.
SendNow(c, a, size) ==
  \E o \in Flushes(c), ok \in BOOLEAN :
    LET failed == ~ok \/ o.end = "failed" IN
    /\ ~Blocked(o)
    /\ ok => Sendable(c, a, size)
    /\ packets' = Flushed(o)
    /\ length' = LengthAfter(o)
    /\ wire' = wire \o FlushedDatagrams(c, o)
                    \o (IF ok THEN <<Datagram(c, Len(sends) + 1, a, size)>> ELSE <<>>)
    /\ SetSendFailed(c, failed)
    /\ sends' = Append(sends, SendRecord(c, a, size, IF ok THEN "OK" ELSE "FAILED",
                                         failed, FALSE))
    /\ UNCHANGED <<addr_storage, crashed, free_indices, heap, kernelVars, pc, callVars>>

\* On a connection that is not usable the call returns FAILED at once.
SendCall(c, a, size) ==
  IF Usable(c)
    THEN Len(sends) < MaxSends /\ (SendQueues(c, a, size) \/ SendNow(c, a, size))
    ELSE UNCHANGED <<connVars, queueVars, crashed, sends, wire>>

Ready == pc = "idle" /\ busy = Idle /\ ~crashed

Send(c, size) ==
  /\ Ready
  /\ SendCall(c, NULL, size)
  /\ UNCHANGED busy

SendTo(c, a, size) ==
  /\ Ready
  /\ SendCall(c, a, size)
  /\ UNCHANGED busy

-----------------------------------------------------------------------------
(* send_to_all and update.                                                 *)

SendToAll(ids, size) ==
  /\ Ready
  /\ Len(sends) + Len(ids) <= MaxSends
  /\ busy' = [op |-> "send_to_all", rest |-> ids, size |-> size]
  /\ UNCHANGED <<connVars, queueVars, crashed, sends, wire>>

SendToAllNext ==
  /\ busy.op = "send_to_all" /\ busy.rest # <<>> /\ ~crashed
  /\ SendCall(Head(busy.rest), NULL, busy.size)
  /\ busy' = [busy EXCEPT !.rest = Tail(@)]

Update ==
  /\ Ready
  /\ busy' = [op |-> "update", rest |-> [k \in 1 .. MAX_CONNECTIONS |-> k - 1], size |-> 0]
  /\ UNCHANGED <<connVars, queueVars, crashed, sends, wire>>

\* update flushes the queue on every connection that is ACTIVE.
UpdateNext ==
  /\ busy.op = "update" /\ busy.rest # <<>>
  /\ busy' = [busy EXCEPT !.rest = Tail(@)]
  /\ LET c == Head(busy.rest) IN
       IF conns[c].state # "ACTIVE"
         THEN UNCHANGED <<connVars, packets, length, wire>>
         ELSE \E o \in Flushes(c) :
                /\ packets' = Flushed(o)
                /\ length' = LengthAfter(o)
                /\ wire' = wire \o FlushedDatagrams(c, o)
                /\ SetSendFailed(c, o.end = "failed")
                /\ UNCHANGED <<free_indices, heap, kernelVars, pc, callVars>>
  /\ UNCHANGED <<addr_storage, crashed, sends>>

LoopDone ==
  /\ busy.op # "none" /\ busy.rest = <<>> /\ ~crashed
  /\ busy' = Idle
  /\ UNCHANGED <<connVars, queueVars, crashed, sends, wire>>

\* The calls that do not touch the queue.
ConnsStep ==
  /\ busy = Idle /\ ~crashed
  /\ ConnsCalls
  /\ UNCHANGED poolVars

\* After a crash nothing happens.
Crashed ==
  /\ crashed
  /\ UNCHANGED vars

Next ==
  \/ ConnsStep
  \/ \E c \in Slots, size \in PacketSizes :
       Send(c, size) \/ \E a \in Addrs : SendTo(c, a, size)
  \/ \E ids \in IdLists, size \in PacketSizes : SendToAll(ids, size)
  \/ SendToAllNext
  \/ Update
  \/ UpdateNext
  \/ LoopDone
  \/ Crashed

Spec == Init /\ [][Next]_vars
-----------------------------------------------------------------------------
(* Properties.                                                             *)

Attempts == 1 .. Len(sends)

\* The packets that wait to be sent, oldest first.
Turns == {i \in Unsent : packets[i % MAX_BUFFERED_PACKETS].data # NULL}
Waiting ==
  [k \in 1 .. Cardinality(Turns) |-> packets[Nth(Turns, k) % MAX_BUFFERED_PACKETS].data]

\* What a SendQueue has of the datagrams and of the calls.
Numbers(w)  == [k \in 1 .. Len(w) |-> w[k].n]
SeenCall(r) ==
  [size |-> r.size, result |-> r.result, queued |-> r.queued, failed |-> r.failed]
Seen(s)     == [n \in 1 .. Len(s) |-> SeenCall(s[n])]

\* The pool is a SendQueue: however flushes are cut short and taken up on another
\* connection, packets closed over, entries reused and reallocations failed, no packet
\* is sent twice, the oldest is sent first, one overtakes only in a call that the
\* kernel failed, OK is on the wire and FAILED never gets there.  BUFFERED waits, and is
\* dropped only when MAX_BUFFERED_PACKETS later ones have taken a place, or when its
\* size is a multiple of 2^16, which the uint16_t len makes 0: then, empty or not, it is
\* never sent (udp.cpp:227-296, 366-447).
Queue ==
  INSTANCE SendQueue WITH
    Capacity <- MAX_BUFFERED_PACKETS,
    Limit    <- UINT16,
    Sizes    <- PacketSizes,
    queue    <- Waiting,
    wire     <- Numbers(wire),
    calls    <- Seen(sends)

QueueSpec == Queue!Spec

\* The calls whose packet a flush on socket f sends elsewhere than the call meant: a
\* packet of send has no address of its own, so once queued it goes to the peer of the
\* socket that flushes it (udp.cpp:393).
Strays(call, f) == call.queued /\ call.to = NULL /\ f # call.sock

\* A datagram reaches the destination that the call had when it was made, the address
\* of send_to or the peer of the connection of send, unless it strays, and then it
\* reaches the peer of the flushing socket: no entry that is used again keeps an address
\* of an earlier packet.  One that was not queued leaves through its own socket, and the
\* length is the size given, modulo 2^16 (udp.cpp:241-259, 385-397, 420-444).
DatagramKept ==
  \A k \in 1 .. Len(wire) :
    LET w    == wire[k]
        call == sends[w.n]
    IN
    /\ w.dest = IF Strays(call, w.sock) THEN peer[w.sock] ELSE call.dest
    /\ ~call.queued => w.sock = call.sock
    /\ w.len = call.size % UINT16

\* is_error (udp.h:177-180) calls only FAILED an error: a packet that is not empty and
\* was answered BUFFERED waits, was sent whole, or gave way to later ones.
BufferedNotLost ==
  \A n \in Attempts : sends[n].result = "BUFFERED" /\ sends[n].size > 0 =>
    \/ n \in ToSet(Waiting)
    \/ \E k \in 1 .. Len(wire) : wire[k].n = n /\ wire[k].len = sends[n].size
    \/ Cardinality({m \in n + 1 .. Len(sends) : sends[m].queued}) >= MAX_BUFFERED_PACKETS

\* addr_storage never outgrows its reserve, so the pointers packet.to into it stay
\* valid (udp.cpp:27, 437).
AddressesStable ==
  /\ addr_storage = Cardinality({p \in Entries : packets[p].has_to})
  /\ addr_storage <= MAX_BUFFERED_PACKETS

\* memcpy writes through a null pointer only after an earlier realloc for the
\* queue had failed (udp.cpp:420-430).
CrashMeansNoMemory ==
  crashed => \E n \in Attempts : sends[n].result = "FAILED" /\ sends[n].queued
=============================================================================
