---------------------------- MODULE UDPPoolProofs ----------------------------
(***************************************************************************)
(* Proofs about the whole pool: with the packet queue in front of it the   *)
(* connection table still is the table of UDPConns, and what the queue     *)
(* promises of addresses and blocks, for every size of the ring and every  *)
(* number of calls.                                                        *)
(***************************************************************************)
EXTENDS UDPPool, UDPConnsRecv, WellFoundedInduction

PacketData ==
  [data : Nat \cup {NULL}, has_to : BOOLEAN, to : Addrs \cup {NULL}, len : Nat, max_len : Nat]

Calls ==
  [sock : Fds, to : Addrs \cup {NULL}, dest : Addrs \cup {NULL}, size : PacketSizes,
   result : Results, failed : BOOLEAN, queued : BOOLEAN]

WireData ==
  [n : Nat \cup {NULL}, sock : Fds, to : Addrs \cup {NULL}, dest : Addrs \cup {NULL},
   len : Nat]

\* The running loop: the packet of send_to_all has one of the sizes.
Loops ==
  {b \in [op : {"none", "send_to_all", "update"}, rest : Seq(Slots), size : Nat] :
     b.op = "send_to_all" => b.size \in PacketSizes}

\* The types of the queue, and that the table is idle while update or send_to_all
\* loops.
PoolType ==
  /\ packets \in [Entries -> PacketData]
  /\ length \in Nat
  /\ addr_storage \in Nat
  /\ busy \in Loops
  /\ crashed \in BOOLEAN
  /\ sends \in Seq(Calls)
  /\ wire \in Seq(WireData)
  /\ busy # Idle => pc = "idle"

\* An entry with a block holds the packet of a call that was queued, with the address
\* of the call and, until it is sent, the length.
PacketsKnown ==
  \A p \in Entries : packets[p].data # NULL =>
    /\ packets[p].data \in Attempts
    /\ sends[packets[p].data].to = packets[p].to
    /\ sends[packets[p].data].queued
    /\ packets[p].len \in {0, sends[packets[p].data].size % UINT16}

\* What is on the wire came from a call and has the address and the length of the call;
\* what was not queued left through the call's own socket.
WireKnown ==
  \A k \in 1 .. Len(wire) :
    /\ wire[k].n \in Attempts
    /\ wire[k].to = sends[wire[k].n].to
    /\ ~sends[wire[k].n].queued => wire[k].sock = sends[wire[k].n].sock
    /\ wire[k].len = sends[wire[k].n].size % UINT16

\* The destination of a call or of a datagram is still what the socket makes of the
\* address: sockets stay open and keep their peers.
DestKept(x) == x.sock \in open /\ x.dest = Dest(x.sock, x.to)

DestsKnown ==
  /\ \A n \in 1 .. Len(sends) : DestKept(sends[n])
  /\ \A k \in 1 .. Len(wire) : DestKept(wire[k])

\* A realloc for the queue has failed.
ReallocFailed == \E n \in Attempts : sends[n].result = "FAILED" /\ sends[n].queued

\* An entry claims room without a block only after such a failure.
BlocksLost ==
  \A p \in Entries : packets[p].data = NULL /\ packets[p].max_len > 0 => ReallocFailed

\* The invariant behind the theorems.
PoolInv ==
  /\ SafeInv
  /\ PoolType
  /\ PacketsKnown
  /\ WireKnown
  /\ DestsKnown
  /\ BlocksLost
  /\ CrashMeansNoMemory
  /\ AddressesStable

-----------------------------------------------------------------------------
(* Sets of positions.                                                      *)

\* A set of natural numbers that is not empty has a least element.
LEMMA LeastNatural ==
  ASSUME NEW T \in SUBSET Nat, T # {}
  PROVE  \E n \in T : \A m \in T : n <= m
<1> DEFINE R == OpToRel(<, Nat)
<1>1. IsWellFoundedOn(R, Nat)
  BY NatLessThanWellFounded
<1>2. \A x, y \in Nat : x < y => <<x, y>> \in R
  BY DEF OpToRel
<1> HIDE DEF R
<1>3. PICK n \in T : \A m \in T : ~ (<<m, n>> \in R)
  BY <1>1, WFMin
<1>4. ASSUME NEW m \in T PROVE n <= m
  <2>1. ~(m < n)
    BY <1>2, <1>3
  <2>2. QED BY <2>1
<1>5. QED BY <1>4

\* The positions up to p.
UpTo(P, p) == {q \in P : q <= p}

\* Going up by one position adds that position or nothing.
LEMMA UpToStep ==
  ASSUME NEW n \in Nat, NEW P \in SUBSET (0 .. n), NEW p \in 0 .. n
  PROVE  /\ IsFiniteSet(UpTo(P, p - 1)) /\ Cardinality(UpTo(P, p - 1)) \in Nat
         /\ p \notin P => UpTo(P, p) = UpTo(P, p - 1)
         /\ p \in P => Cardinality(UpTo(P, p)) = Cardinality(UpTo(P, p - 1)) + 1
<1>1. IsFiniteSet(0 .. n)
  <2>1. 0 \in Int /\ n \in Int
    OBVIOUS
  <2>2. QED BY <2>1, FS_Interval, Zenon
<1>0. p \in Int /\ \A q \in P : q \in 0 .. n /\ q \in Int
  OBVIOUS
<1>2. UpTo(P, p - 1) \subseteq 0 .. n /\ p \notin UpTo(P, p - 1)
  <2>1. \A q \in UpTo(P, p - 1) : q \in P /\ q <= p - 1
    BY DEF UpTo
  <2>2. \A q \in UpTo(P, p - 1) : q \in 0 .. n
    BY <1>0, <2>1
  <2>3. p \notin UpTo(P, p - 1)
    <3>1. ~(p <= p - 1)
      BY <1>0
    <3>2. QED BY <2>1, <3>1
  <2> HIDE DEF UpTo
  <2>4. QED BY <2>2, <2>3
<1>3. IsFiniteSet(UpTo(P, p - 1)) /\ Cardinality(UpTo(P, p - 1)) \in Nat
  BY <1>1, <1>2, FS_Subset, FS_CardinalityType
<1>4. ASSUME p \notin P PROVE UpTo(P, p) = UpTo(P, p - 1)
  <2>1. \A q \in P : q <= p <=> q <= p - 1
    BY <1>0, <1>4
  <2>2. QED BY <2>1 DEF UpTo
<1>5. ASSUME p \in P PROVE UpTo(P, p) = UpTo(P, p - 1) \cup {p}
  <2>1. \A q \in P : q <= p <=> q <= p - 1 \/ q = p
    BY <1>0
  <2>2. QED BY <1>5, <2>1 DEF UpTo
<1>6. Cardinality(UpTo(P, p - 1) \cup {p}) = Cardinality(UpTo(P, p - 1)) + 1
  BY <1>2, <1>3, FS_AddElement
<1>7. QED BY <1>3, <1>4, <1>5, <1>6

\* A set of positions has a k-th element for every k up to its size.
LEMMA NthIn ==
  ASSUME NEW n \in Nat, NEW P \in SUBSET (0 .. n), NEW k \in 1 .. Cardinality(P),
         Cardinality(P) \in Nat
  PROVE  Nth(P, k) \in P /\ Cardinality(UpTo(P, Nth(P, k))) = k
<1> DEFINE T == {p \in 0 .. n : Cardinality(UpTo(P, p)) >= k}
<1>1. UpTo(P, n) = P /\ UpTo(P, 0 - 1) = {}
  <2>1. \A q \in P : q \in 0 .. n
    OBVIOUS
  <2>2. \A q \in P : q <= n /\ ~(q <= 0 - 1)
    BY <2>1
  <2>3. QED BY <2>2 DEF UpTo
<1>2. n \in T
  BY <1>1
<1>3. T \in SUBSET Nat /\ T # {}
  BY <1>2
<1>4. PICK p \in T : \A m \in T : p <= m
  <2> HIDE DEF T
  <2>1. QED BY <1>3, LeastNatural
<1>5. p \in 0 .. n /\ Cardinality(UpTo(P, p)) >= k /\ p - 1 \notin T
  BY <1>4
<1>6. Cardinality(UpTo(P, p - 1)) \in Nat /\ Cardinality(UpTo(P, p - 1)) < k
  <2>1. Cardinality(UpTo(P, p - 1)) \in Nat
    BY <1>5, UpToStep
  <2>2. CASE p = 0
    <3>1. UpTo(P, p - 1) = {}
      BY <1>1, <2>2
    <3>2. Cardinality(UpTo(P, p - 1)) = 0
      BY <3>1, FS_EmptySet
    <3>3. QED BY <2>1, <3>2
  <2>3. CASE p # 0
    <3>1. p - 1 \in 0 .. n
      BY <1>5, <2>3
    <3>2. QED BY <1>5, <2>1, <3>1
  <2>4. QED BY <2>2, <2>3
<1>7. p \in P
  <2>1. p \notin P => UpTo(P, p) = UpTo(P, p - 1)
    BY <1>5, UpToStep
  <2>2. QED BY <1>5, <1>6, <2>1
<1>8. Cardinality(UpTo(P, p)) = k
  <2>1. Cardinality(UpTo(P, p)) = Cardinality(UpTo(P, p - 1)) + 1
    BY <1>5, <1>7, UpToStep
  <2>2. QED BY <1>5, <1>6, <2>1
<1>9. \E q \in P : Cardinality({r \in P : r <= q}) = k
  BY <1>7, <1>8 DEF UpTo
<1>10. QED BY <1>9 DEF Nth, UpTo

-----------------------------------------------------------------------------
(* A flush.                                                                *)

\* The turns of the loop of try_flush_queue are finitely many.
LEMMA UnsentType ==
  ASSUME PoolType
  PROVE  /\ Unsent \in SUBSET (0 .. length) /\ Cardinality(Unsent) \in Nat
         /\ \A k \in 1 .. Cardinality(Unsent) :
              Entry(k) \in Entries /\ packets[Entry(k)].len > 0
<1>1. length \in Nat /\ MAX_BUFFERED_PACKETS \in Nat \ {0}
  BY PoolAssumption DEF PoolType
<1>2. Unsent \in SUBSET (0 .. length)
  BY <1>1 DEF Unsent, Start
<1>3. IsFiniteSet(0 .. length)
  <2>1. 0 \in Int /\ length \in Int
    BY <1>1
  <2>2. QED BY <2>1, FS_Interval, Zenon
<1>4. Cardinality(Unsent) \in Nat
  BY <1>2, <1>3, FS_Subset, FS_CardinalityType
<1>5. ASSUME NEW k \in 1 .. Cardinality(Unsent)
      PROVE  Entry(k) \in Entries /\ packets[Entry(k)].len > 0
  <2>1. Nth(Unsent, k) \in Unsent
    BY <1>1, <1>2, <1>4, NthIn
  <2>2. Nth(Unsent, k) \in Nat
    <3>1. \A i \in Unsent : i \in 0 .. length
      BY <1>2
    <3>2. Nth(Unsent, k) \in 0 .. length
      BY <2>1, <3>1, Zenon
    <3>3. QED BY <1>1, <3>2
  <2>3. packets[Entry(k)].len > 0
    BY <2>1 DEF Entry, Unsent
  <2>4. QED BY <1>1, <2>2, <2>3 DEF Entry, Entries
<1>6. QED BY <1>2, <1>4, <1>5

\* A flush empties entries that hold a packet and leaves the others alone.
LEMMA FlushEffect ==
  ASSUME PoolType, NEW c \in Slots, NEW o \in Flushes(c)
  PROVE  /\ o.sent \in Nat /\ LengthAfter(o) \in Nat
         /\ o.end = "failed" => conns[c].error = "NONE" /\ "SEND_FAILED" \in Faults
         /\ \A k \in 1 .. o.sent : /\ Entry(k) \in Entries /\ packets[Entry(k)].data # NULL
                                   /\ packets[Entry(k)].len > 0
         /\ Flushed(o) \in [Entries -> PacketData]
         /\ \A p \in Entries : /\ Flushed(o)[p].data = packets[p].data
                               /\ Flushed(o)[p].to = packets[p].to
                               /\ Flushed(o)[p].has_to = packets[p].has_to
                               /\ Flushed(o)[p].max_len = packets[p].max_len
                               /\ Flushed(o)[p].len \in {0, packets[p].len}
<1>1. packets \in [Entries -> PacketData] /\ length \in Nat
  BY DEF PoolType
<1>2. \/ o = [sent |-> 0, end |-> "skipped"]
      \/ /\ o \in [sent : 0 .. Cardinality(Unsent), end : {"clear", "blocked", "failed"}]
         /\ \A k \in 1 .. o.sent : packets[Entry(k)].data # NULL
         /\ o.end = "failed" => conns[c].error = "NONE" /\ "SEND_FAILED" \in Faults
  BY DEF Flushes
<1>3. /\ o.sent \in Nat
      /\ o.end = "failed" => conns[c].error = "NONE" /\ "SEND_FAILED" \in Faults
      /\ \A k \in 1 .. o.sent : k \in 1 .. Cardinality(Unsent) /\ packets[Entry(k)].data # NULL
  <2>1. Cardinality(Unsent) \in Nat
    BY UnsentType
  <2>2. CASE o = [sent |-> 0, end |-> "skipped"]
    BY <2>2
  <2>3. CASE o \in [sent : 0 .. Cardinality(Unsent), end : {"clear", "blocked", "failed"}]
    <3>1. o.sent \in 0 .. Cardinality(Unsent)
      BY <2>3
    <3>2. CASE o = [sent |-> 0, end |-> "skipped"]
      BY <3>2
    <3>3. CASE o # [sent |-> 0, end |-> "skipped"]
      BY <1>2, <2>1, <3>1, <3>3
    <3>4. QED BY <3>2, <3>3
  <2>4. QED BY <1>2, <2>2, <2>3
<1>4. \A k \in 1 .. o.sent : /\ Entry(k) \in Entries /\ packets[Entry(k)].data # NULL
                             /\ packets[Entry(k)].len > 0
  BY <1>3, UnsentType
<1>5. LengthAfter(o) \in Nat
  BY <1>1 DEF LengthAfter
<1>6. ASSUME NEW p \in Entries
      PROVE  /\ Flushed(o)[p] \in PacketData
             /\ Flushed(o)[p].data = packets[p].data
             /\ Flushed(o)[p].to = packets[p].to
             /\ Flushed(o)[p].has_to = packets[p].has_to
             /\ Flushed(o)[p].max_len = packets[p].max_len
             /\ Flushed(o)[p].len \in {0, packets[p].len}
  <2>1. packets[p] \in PacketData
    BY <1>1
  <2>2. Flushed(o)[p] \in {packets[p], [packets[p] EXCEPT !.len = 0]}
    BY DEF Flushed
  <2>3. QED BY <2>1, <2>2 DEF PacketData
<1>7. Flushed(o) \in [Entries -> PacketData]
  BY <1>6 DEF Flushed
<1>8. QED BY <1>3, <1>4, <1>5, <1>6, <1>7

\* A connection in use has an open socket, so a destination is an address or none.
LEMMA DestType ==
  ASSUME TypeInv, SocketsOwned, NEW c \in Slots, Active(c), NEW a \in Addrs \cup {NULL}
  PROVE  /\ conns[c].socket \in Fds /\ conns[c].socket \in open
         /\ Dest(conns[c].socket, a) \in Addrs \cup {NULL}
<1>1. conns[c].socket \in open
  BY DEF SocketsOwned
<1>2. conns[c].socket \in Fds
  BY <1>1 DEF TypeInv, ConnsTypeOK
<1>3. peer[conns[c].socket] \in Addrs \cup {NULL}
  BY <1>2 DEF TypeInv, ConnsTypeOK
<1>4. QED BY <1>1, <1>2, <1>3 DEF Dest

\* What a flush puts on the wire: packets of the ring, with their addresses and lengths,
\* through the socket of the connection.
LEMMA FlushWire ==
  ASSUME TypeInv, SocketsOwned, PoolType, NEW c \in Slots, Active(c), NEW o \in Flushes(c)
  PROVE  /\ FlushedDatagrams(c, o) \in Seq(WireData)
         /\ \A k \in 1 .. Len(FlushedDatagrams(c, o)) :
              /\ DestKept(FlushedDatagrams(c, o)[k])
              /\ \E p \in Entries : /\ packets[p].data # NULL /\ packets[p].len > 0
                                    /\ FlushedDatagrams(c, o)[k].n = packets[p].data
                                    /\ FlushedDatagrams(c, o)[k].to = packets[p].to
                                    /\ FlushedDatagrams(c, o)[k].len = packets[p].len
<1>1. o.sent \in Nat /\ packets \in [Entries -> PacketData]
  BY FlushEffect DEF PoolType
<1>2. \A k \in 1 .. o.sent : /\ Entry(k) \in Entries /\ packets[Entry(k)].data # NULL
                             /\ packets[Entry(k)].len > 0
  BY FlushEffect
<1> DEFINE d(k) == Datagram(c, packets[Entry(k)].data, packets[Entry(k)].to,
                            packets[Entry(k)].len)
<1>3. FlushedDatagrams(c, o) = [k \in 1 .. o.sent |-> d(k)]
  BY DEF FlushedDatagrams
<1>4. ASSUME NEW k \in 1 .. o.sent
      PROVE  d(k) \in WireData /\ DestKept(d(k))
  <2>1. PICK packet \in PacketData : packet = packets[Entry(k)]
    BY <1>1, <1>2
  <2>2. packet.data \in Nat \cup {NULL} /\ packet.to \in Addrs \cup {NULL} /\ packet.len \in Nat
    BY DEF PacketData
  <2>3. /\ conns[c].socket \in Fds /\ conns[c].socket \in open
        /\ Dest(conns[c].socket, packet.to) \in Addrs \cup {NULL}
    BY <2>2, DestType
  <2>4. QED BY <2>1, <2>2, <2>3 DEF Datagram, WireData, DestKept
<1>5. \A k \in 1 .. o.sent : /\ d(k).n = packets[Entry(k)].data
                             /\ d(k).to = packets[Entry(k)].to
                             /\ d(k).len = packets[Entry(k)].len
  BY DEF Datagram
<1> HIDE DEF d
<1>6. /\ FlushedDatagrams(c, o) \in Seq(WireData) /\ Len(FlushedDatagrams(c, o)) = o.sent
      /\ \A k \in 1 .. o.sent : FlushedDatagrams(c, o)[k] = d(k)
  BY <1>1, <1>3, <1>4
<1>7. QED BY <1>2, <1>4, <1>5, <1>6

-----------------------------------------------------------------------------
(* The connection table under the queue.                                   *)

\* A step that leaves the table alone, or in which a system call of a send failed.
TableStep == UNCHANGED connVars \/ \E i \in Slots : SendFails(i)

\* A call that flushes or sends sets at most the error of a usable connection.
LEMMA FailureIsSendFails ==
  ASSUME NEW c \in Slots, NEW failed \in BOOLEAN, SetSendFailed(c, failed),
         failed => Usable(c), pc = "idle",
         UNCHANGED <<free_indices, heap, kernelVars, pc, callVars>>
  PROVE  TableStep
<1>1. CASE failed
  BY <1>1 DEF SetSendFailed, SendFails, TableStep
<1>2. CASE ~failed
  BY <1>2 DEF SetSendFailed, connVars, kernelVars, callVars, TableStep
<1>3. QED BY <1>1, <1>2

\* send and send_to.
LEMMA SendCallTable ==
  ASSUME PoolType, NEW c \in Slots, NEW a \in Addrs \cup {NULL}, NEW size \in Nat,
         SendCall(c, a, size), pc = "idle"
  PROVE  TableStep
<1>1. CASE ~Usable(c)
  BY <1>1 DEF SendCall, TableStep
<1>2. CASE Usable(c) /\ SendQueues(c, a, size)
  <2>1. PICK failed \in BOOLEAN : SetSendFailed(c, failed)
    BY <1>2 DEF SendQueues
  <2>2. UNCHANGED <<free_indices, heap, kernelVars, pc, callVars>>
    BY <1>2 DEF SendQueues
  <2>3. QED BY <1>2, <2>1, <2>2, FailureIsSendFails
<1>3. CASE Usable(c) /\ SendNow(c, a, size)
  <2>1. PICK failed \in BOOLEAN : SetSendFailed(c, failed)
    BY <1>3 DEF SendNow
  <2>2. UNCHANGED <<free_indices, heap, kernelVars, pc, callVars>>
    BY <1>3 DEF SendNow
  <2>3. QED BY <1>3, <2>1, <2>2, FailureIsSendFails
<1>4. QED BY <1>1, <1>2, <1>3 DEF SendCall

\* The head of a loop over ids is a slot, and the loops run while the table is idle.
LEMMA LoopHead ==
  ASSUME PoolType, busy.op # "none", busy.rest # <<>>
  PROVE  /\ Head(busy.rest) \in Slots /\ Tail(busy.rest) \in Seq(Slots)
         /\ busy.size \in Nat /\ (busy.op = "send_to_all" => busy.size \in PacketSizes)
         /\ pc = "idle"
<1>1. /\ busy.rest \in Seq(Slots) /\ busy.size \in Nat
      /\ busy.op = "send_to_all" => busy.size \in PacketSizes
  BY DEF PoolType, Loops
<1>2. busy # Idle
  BY DEF Idle
<1>3. QED BY <1>1, <1>2 DEF PoolType

\* Every step of the pool is a step of the table or leaves it alone.
LEMMA TableRefined ==
  ASSUME PoolType, [Next]_vars
  PROVE  [ConnsNext]_connVars
<1>0. TableStep => [ConnsNext]_connVars
  BY DEF TableStep, ConnsNext
<1>1. CASE ConnsStep
  BY <1>1 DEF ConnsStep, ConnsNext
<1>2. CASE \E c \in Slots, size \in PacketSizes :
             Send(c, size) \/ \E a \in Addrs : SendTo(c, a, size)
  <2>1. PICK c \in Slots, size \in Nat, a \in Addrs \cup {NULL} :
          Ready /\ SendCall(c, a, size)
    BY <1>2, PoolAssumption DEF Send, SendTo
  <2>2. QED BY <1>0, <2>1, SendCallTable DEF Ready
<1>3. CASE SendToAllNext
  <2>1. /\ Head(busy.rest) \in Slots /\ busy.size \in Nat /\ pc = "idle"
        /\ SendCall(Head(busy.rest), NULL, busy.size)
    BY <1>3, LoopHead DEF SendToAllNext
  <2>2. PICK c \in Slots, size \in Nat : SendCall(c, NULL, size)
    BY <2>1
  <2>3. QED BY <1>0, <2>1, <2>2, SendCallTable
<1>4. CASE UpdateNext
  <2> DEFINE c == Head(busy.rest)
  <2>1. c \in Slots /\ pc = "idle"
    BY <1>4, LoopHead DEF UpdateNext
  <2>2. CASE conns[c].state # "ACTIVE"
    BY <1>4, <2>2 DEF UpdateNext
  <2>3. CASE conns[c].state = "ACTIVE"
    <3>1. PICK o \in Flushes(c) :
            /\ SetSendFailed(c, o.end = "failed")
            /\ UNCHANGED <<free_indices, heap, kernelVars, pc, callVars>>
      BY <1>4, <2>3 DEF UpdateNext
    <3>2. o.end = "failed" => Usable(c)
      BY <2>1, <2>3, FlushEffect DEF Usable
    <3> HIDE DEF c
    <3>3. PICK failed \in BOOLEAN : SetSendFailed(c, failed) /\ (failed => Usable(c))
      BY <3>1, <3>2
    <3>4. QED BY <1>0, <2>1, <3>1, <3>3, FailureIsSendFails
  <2>4. QED BY <2>2, <2>3
<1>5. CASE \/ \E ids \in IdLists, size \in PacketSizes : SendToAll(ids, size)
           \/ Update \/ LoopDone
  BY <1>5 DEF SendToAll, Update, LoopDone
<1>6. CASE Crashed \/ UNCHANGED vars
  BY <1>6 DEF Crashed, vars
<1>7. QED BY <1>1, <1>2, <1>3, <1>4, <1>5, <1>6 DEF Next

-----------------------------------------------------------------------------
(* The queue.                                                              *)

\* A flush that is not part of a send.
FlushOnly(c) ==
  /\ Active(c)
  /\ UNCHANGED kernelVars
  /\ \E o \in Flushes(c) :
       /\ packets' = Flushed(o)
       /\ length' = LengthAfter(o)
       /\ wire' = wire \o FlushedDatagrams(c, o)
       /\ UNCHANGED <<addr_storage, crashed, sends>>

\* Nothing happens to the queue.
QueueStill == UNCHANGED <<queueVars, crashed, sends, wire>>

\* Every step of the pool does one of these to the queue.
LEMMA PoolKinds ==
  ASSUME PoolType, [Next]_vars
  PROVE  \/ QueueStill
         \/ \E c \in Slots : FlushOnly(c)
         \/ \E c \in Slots, a \in Addrs \cup {NULL}, size \in PacketSizes :
              Usable(c) /\ SendQueues(c, a, size)
         \/ \E c \in Slots, a \in Addrs \cup {NULL}, size \in PacketSizes :
              Usable(c) /\ SendNow(c, a, size)
<1>0. ASSUME NEW c \in Slots, NEW a \in Addrs \cup {NULL}, NEW size \in PacketSizes,
             SendCall(c, a, size)
      PROVE  \/ QueueStill
             \/ Usable(c) /\ SendQueues(c, a, size)
             \/ Usable(c) /\ SendNow(c, a, size)
  BY <1>0 DEF SendCall, QueueStill
<1>1. CASE ConnsStep
  BY <1>1 DEF ConnsStep, poolVars, QueueStill, queueVars
<1>2. CASE \E c \in Slots, size \in PacketSizes :
             Send(c, size) \/ \E a \in Addrs : SendTo(c, a, size)
  <2>1. PICK c \in Slots, size \in PacketSizes, a \in Addrs \cup {NULL} :
          SendCall(c, a, size)
    BY <1>2 DEF Send, SendTo
  <2>2. QED BY <1>0, <2>1
<1>3. CASE SendToAllNext
  <2>1. /\ Head(busy.rest) \in Slots /\ busy.size \in PacketSizes
        /\ SendCall(Head(busy.rest), NULL, busy.size)
    BY <1>3, LoopHead DEF SendToAllNext
  <2>2. PICK c \in Slots, size \in PacketSizes : SendCall(c, NULL, size)
    BY <2>1
  <2>3. QED BY <1>0, <2>2
<1>4. CASE UpdateNext
  <2>1. Head(busy.rest) \in Slots
    BY <1>4, LoopHead DEF UpdateNext
  <2>2. QueueStill \/ FlushOnly(Head(busy.rest))
    BY <1>4 DEF UpdateNext, QueueStill, queueVars, FlushOnly, Active, kernelVars
  <2>3. QED BY <2>1, <2>2
<1>5. CASE \/ \E ids \in IdLists, size \in PacketSizes : SendToAll(ids, size)
           \/ Update \/ LoopDone
  BY <1>5 DEF SendToAll, Update, LoopDone, QueueStill
<1>6. CASE Crashed \/ UNCHANGED vars
  BY <1>6 DEF Crashed, vars, poolVars, QueueStill, queueVars
<1>7. QED BY <1>1, <1>2, <1>3, <1>4, <1>5, <1>6 DEF Next

\* A call that is recorded keeps the calls before it.
LEMMA CallAdded ==
  ASSUME NEW S, NEW s \in Seq(S), NEW r \in S
  PROVE  /\ Append(s, r) \in Seq(S) /\ Len(Append(s, r)) = Len(s) + 1 /\ Len(s) \in Nat
         /\ Append(s, r)[Len(s) + 1] = r
         /\ \A n \in 1 .. Len(s) : Append(s, r)[n] = s[n] /\ n \in 1 .. Len(s) + 1
  OBVIOUS

\* What goes on the wire keeps what is there.
LEMMA WireAdded ==
  ASSUME NEW S, NEW s \in Seq(S), NEW t \in Seq(S)
  PROVE  /\ s \o t \in Seq(S)
         /\ \A k \in 1 .. Len(s \o t) :
              \/ k \in 1 .. Len(s) /\ (s \o t)[k] = s[k]
              \/ \E m \in 1 .. Len(t) : (s \o t)[k] = t[m]
<1>1. s \o t \in Seq(S) /\ Len(s \o t) = Len(s) + Len(t) /\ Len(s) \in Nat /\ Len(t) \in Nat
  OBVIOUS
<1>2. ASSUME NEW k \in 1 .. Len(s \o t)
      PROVE  \/ k \in 1 .. Len(s) /\ (s \o t)[k] = s[k]
             \/ \E m \in 1 .. Len(t) : (s \o t)[k] = t[m]
  <2>1. CASE k \in 1 .. Len(s)
    BY <2>1
  <2>2. CASE k \notin 1 .. Len(s)
    <3>1. k - Len(s) \in 1 .. Len(t) /\ (s \o t)[k] = t[k - Len(s)]
      BY <1>1, <2>2
    <3>2. QED BY <3>1
  <2>3. QED BY <2>1, <2>2
<1>3. QED BY <1>1, <1>2

\* The entry queue_packet fills, or leaves without a block.
LEMMA EntryType ==
  ASSUME NEW packet \in PacketData, NEW n \in Nat, NEW a \in Addrs \cup {NULL}, NEW size \in Nat
  PROVE  /\ Filled(packet, n, a, size) \in PacketData
         /\ Filled(packet, n, a, size).data = n /\ Filled(packet, n, a, size).to = a
         /\ Filled(packet, n, a, size).has_to = (packet.has_to \/ a # NULL)
         /\ Filled(packet, n, a, size).len = size % UINT16
         /\ Unallocated(packet) \in PacketData
         /\ Unallocated(packet).data = NULL /\ Unallocated(packet).has_to = packet.has_to
<1>1. size % UINT16 \in Nat
  BY PoolAssumption
<1>2. packet.max_len \in Nat /\ packet.has_to \in BOOLEAN
  BY DEF PacketData
<1>3. (packet.has_to \/ a # NULL) \in BOOLEAN
  OBVIOUS
<1>4. (IF packet.max_len < size THEN size % UINT16 ELSE packet.max_len) \in Nat
  BY <1>1, <1>2
<1>5. Filled(packet, n, a, size) \in PacketData
  BY <1>1, <1>3, <1>4 DEF Filled, PacketData
<1>6. /\ Filled(packet, n, a, size).data = n /\ Filled(packet, n, a, size).to = a
      /\ Filled(packet, n, a, size).has_to = (packet.has_to \/ a # NULL)
      /\ Filled(packet, n, a, size).len = size % UINT16
  BY DEF Filled
<1>7. /\ Unallocated(packet) \in PacketData
      /\ Unallocated(packet).data = NULL /\ Unallocated(packet).has_to = packet.has_to
  BY DEF Unallocated, PacketData
<1>8. QED BY <1>5, <1>6, <1>7

\* queue_packet has put packet Len(sends) + 1 in entry p after the flush o, for the
\* call r.
PacketQueued(p, o, r) ==
  /\ r.result = "BUFFERED"
  /\ packets'[p].data = Len(sends) + 1
  /\ packets'[p].to = r.to
  /\ packets'[p].len = r.size % UINT16
  /\ packets'[p].has_to = (packets[p].has_to \/ r.to # NULL)
  /\ addr_storage' = addr_storage + (IF r.to # NULL /\ ~packets[p].has_to THEN 1 ELSE 0)
  /\ crashed' \in BOOLEAN
  /\ crashed' => packets[p].data = NULL /\ packets[p].max_len > 0

\* It found no memory for entry p.
PacketFailed(p, o, r) ==
  /\ packets'[p].data = NULL
  /\ packets'[p].has_to = packets[p].has_to
  /\ r.result = "FAILED" /\ r.size > 0
  /\ UNCHANGED <<addr_storage, crashed>>

\* One of the two, after a flush of connection c.
QueueCall(c, o, p, r) ==
  /\ sends' = Append(sends, r) /\ r.queued /\ DestKept(r)
  /\ UNCHANGED kernelVars
  /\ wire' = wire \o FlushedDatagrams(c, o)
  /\ LengthAfter(o) \in Nat /\ length' = LengthAfter(o) + 1
  /\ p = LengthAfter(o) % MAX_BUFFERED_PACKETS
  /\ packets' \in [Entries -> PacketData]
  /\ \A q \in Entries \ {p} : packets'[q] = Flushed(o)[q]
  /\ PacketQueued(p, o, r) \/ PacketFailed(p, o, r)

\* A send that queues its packet.
LEMMA QueueEffect ==
  ASSUME TypeInv, SocketsOwned, PoolType, NEW c \in Slots, NEW a \in Addrs \cup {NULL},
         NEW size \in PacketSizes, Usable(c), SendQueues(c, a, size)
  PROVE  \E o \in Flushes(c), p \in Entries, r \in Calls : QueueCall(c, o, p, r)
<1>1. PICK o \in Flushes(c), alloc \in BOOLEAN, result \in Results :
        /\ QueuePacket(Flushed(o), LengthAfter(o), Len(sends) + 1, a, size, alloc, result)
        /\ wire' = wire \o FlushedDatagrams(c, o)
        /\ sends' = Append(sends, SendRecord(c, a, size, result, o.end = "failed", TRUE))
        /\ UNCHANGED kernelVars
  BY DEF SendQueues
<1> DEFINE r  == SendRecord(c, a, size, result, o.end = "failed", TRUE)
           qs == Flushed(o)
           n  == Len(sends) + 1
           p  == LengthAfter(o) % MAX_BUFFERED_PACKETS
<1>2. /\ LengthAfter(o) \in Nat /\ qs \in [Entries -> PacketData]
      /\ \A q \in Entries : /\ qs[q].data = packets[q].data
                            /\ qs[q].to = packets[q].to
                            /\ qs[q].has_to = packets[q].has_to
                            /\ qs[q].max_len = packets[q].max_len
  BY FlushEffect
<1>3. p \in Entries
  BY <1>2, PoolAssumption DEF Entries
<1>4. n \in Nat /\ crashed \in BOOLEAN /\ addr_storage \in Nat
  BY DEF PoolType
<1>5. /\ r \in Calls /\ r.to = a /\ r.queued /\ r.result = result /\ r.size = size
      /\ DestKept(r)
  <2>1. /\ conns[c].socket \in Fds /\ conns[c].socket \in open
        /\ Dest(conns[c].socket, a) \in Addrs \cup {NULL}
    BY DestType DEF Usable, Active
  <2>2. (o.end = "failed") \in BOOLEAN
    OBVIOUS
  <2>3. QED BY <2>1, <2>2 DEF SendRecord, Calls, DestKept
<1>0. size \in Nat
  BY PoolAssumption
<1>6. /\ qs[p] \in PacketData /\ qs[p].max_len \in Nat
      /\ Filled(qs[p], n, a, size) \in PacketData
      /\ Filled(qs[p], n, a, size).data = n /\ Filled(qs[p], n, a, size).to = a
      /\ Filled(qs[p], n, a, size).has_to = (qs[p].has_to \/ a # NULL)
      /\ Filled(qs[p], n, a, size).len = size % UINT16
      /\ Unallocated(qs[p]) \in PacketData
      /\ Unallocated(qs[p]).data = NULL /\ Unallocated(qs[p]).has_to = qs[p].has_to
  <2>1. qs[p] \in PacketData
    BY <1>2, <1>3
  <2>2. qs[p].max_len \in Nat
    BY <2>1 DEF PacketData
  <2> HIDE DEF qs, n, p
  <2>3. PICK packet \in PacketData : packet = qs[p]
    BY <2>1
  <2>4. /\ Filled(packet, n, a, size) \in PacketData
        /\ Filled(packet, n, a, size).data = n /\ Filled(packet, n, a, size).to = a
        /\ Filled(packet, n, a, size).has_to = (packet.has_to \/ a # NULL)
        /\ Filled(packet, n, a, size).len = size % UINT16
        /\ Unallocated(packet) \in PacketData
        /\ Unallocated(packet).data = NULL /\ Unallocated(packet).has_to = packet.has_to
    BY <1>0, <1>4, EntryType, Zenon
  <2>5. QED BY <2>1, <2>2, <2>3, <2>4, Zenon
<1>7. length' = LengthAfter(o) + 1 /\ p = LengthAfter(o) % MAX_BUFFERED_PACKETS
  BY <1>1 DEF QueuePacket
<1>8. \/ /\ packets' = [qs EXCEPT ![p] = Filled(qs[p], n, a, size)]
         /\ addr_storage' = addr_storage + (IF a # NULL /\ ~qs[p].has_to THEN 1 ELSE 0)
         /\ crashed' = (~(qs[p].max_len < size) /\ qs[p].data = NULL /\ size > 0)
         /\ result = "BUFFERED"
      \/ /\ packets' = [qs EXCEPT ![p] = Unallocated(qs[p])]
         /\ UNCHANGED <<addr_storage, crashed>>
         /\ result = "FAILED" /\ qs[p].max_len < size
  BY <1>1 DEF QueuePacket
<1>9. /\ wire' = wire \o FlushedDatagrams(c, o) /\ sends' = Append(sends, r)
      /\ UNCHANGED kernelVars
  BY <1>1
<1> HIDE DEF r, qs, n, p
<1>10. CASE /\ packets' = [qs EXCEPT ![p] = Filled(qs[p], n, a, size)]
            /\ addr_storage' = addr_storage + (IF a # NULL /\ ~qs[p].has_to THEN 1 ELSE 0)
            /\ crashed' = (~(qs[p].max_len < size) /\ qs[p].data = NULL /\ size > 0)
            /\ result = "BUFFERED"
  <2>1. /\ packets' \in [Entries -> PacketData]
        /\ \A q \in Entries \ {p} : packets'[q] = qs[q]
        /\ packets'[p] = Filled(qs[p], n, a, size)
    BY <1>2, <1>3, <1>6, <1>10
  <2>2. ASSUME crashed' PROVE packets[p].data = NULL /\ packets[p].max_len > 0
    <3>1. ~(qs[p].max_len < size) /\ qs[p].data = NULL /\ size > 0
      BY <1>10, <2>2, Zenon
    <3>2. QED BY <1>2, <1>3, <1>6, <3>1
  <2>3. crashed' \in BOOLEAN
    BY <1>10
  <2>4. packets'[p].has_to = (packets[p].has_to \/ r.to # NULL)
    BY <1>2, <1>3, <1>5, <1>6, <2>1, Zenon
  <2>5. addr_storage' = addr_storage + (IF r.to # NULL /\ ~packets[p].has_to THEN 1 ELSE 0)
    BY <1>2, <1>3, <1>5, <1>10, Zenon
  <2>6. /\ packets'[p].data = Len(sends) + 1 /\ packets'[p].to = r.to
        /\ packets'[p].len = r.size % UINT16 /\ r.result = "BUFFERED"
    BY <1>5, <1>6, <1>10, <2>1 DEF n
  <2>7. PacketQueued(p, o, r)
    BY <2>2, <2>3, <2>4, <2>5, <2>6 DEF PacketQueued
  <2>8. QueueCall(c, o, p, r)
    BY <1>2, <1>5, <1>7, <1>9, <2>1, <2>7 DEF QueueCall, qs
  <2>9. QED BY <1>3, <1>5, <2>8
<1>11. CASE /\ packets' = [qs EXCEPT ![p] = Unallocated(qs[p])]
            /\ UNCHANGED <<addr_storage, crashed>>
            /\ result = "FAILED" /\ qs[p].max_len < size
  <2>1. /\ packets' \in [Entries -> PacketData]
        /\ \A q \in Entries \ {p} : packets'[q] = qs[q]
        /\ packets'[p] = Unallocated(qs[p])
    BY <1>2, <1>3, <1>6, <1>11
  <2>5. r.size > 0
    BY <1>0, <1>5, <1>6, <1>11
  <2>2. PacketFailed(p, o, r)
    BY <1>2, <1>3, <1>5, <1>6, <1>11, <2>1, <2>5 DEF PacketFailed
  <2>3. QueueCall(c, o, p, r)
    BY <1>2, <1>5, <1>7, <1>9, <2>1, <2>2 DEF QueueCall, qs
  <2>4. QED BY <1>3, <1>5, <2>3
<1>12. QED BY <1>8, <1>10, <1>11

\* The packet of the call r leaves at once, if the kernel takes it.
DirectCall(c, o, r) ==
  /\ sends' = Append(sends, r)
  /\ ~r.queued /\ DestKept(r)
  /\ UNCHANGED kernelVars
  /\ packets' = Flushed(o)
  /\ LengthAfter(o) \in Nat /\ length' = LengthAfter(o)
  /\ \E now \in Seq(WireData) :
       /\ wire' = (wire \o FlushedDatagrams(c, o)) \o now
       /\ \/ now = <<>> /\ r.result = "FAILED" /\ r.failed
          \/ /\ Len(now) = 1 /\ r.result = "OK" /\ (length' = 0 \/ r.failed)
             /\ r.size < UINT16
       /\ \A k \in 1 .. Len(now) :
            /\ now[k].n = Len(sends) + 1 /\ now[k].to = r.to /\ now[k].sock = r.sock
            /\ now[k].dest = r.dest /\ now[k].len = r.size % UINT16
  /\ UNCHANGED <<addr_storage, crashed>>

\* A number below m is its own remainder.
LEMMA SmallRemainder ==
  ASSUME NEW m \in Nat \ {0}, NEW n \in Nat, n < m
  PROVE  n % m = n
  OBVIOUS

\* A send that does not queue its packet.
LEMMA DirectEffect ==
  ASSUME TypeInv, SocketsOwned, PoolType, NEW c \in Slots, NEW a \in Addrs \cup {NULL},
         NEW size \in PacketSizes, Usable(c), SendNow(c, a, size)
  PROVE  \E o \in Flushes(c), r \in Calls : DirectCall(c, o, r)
<1> DEFINE d == Datagram(c, Len(sends) + 1, a, size)
<1>1. PICK o \in Flushes(c), ok \in BOOLEAN :
        LET failed == ~ok \/ o.end = "failed" IN
        /\ ~Blocked(o)
        /\ ok => size < UINT16
        /\ packets' = Flushed(o)
        /\ length' = LengthAfter(o)
        /\ wire' = (wire \o FlushedDatagrams(c, o)) \o (IF ok THEN <<d>> ELSE <<>>)
        /\ sends' = Append(sends, SendRecord(c, a, size, IF ok THEN "OK" ELSE "FAILED",
                                             failed, FALSE))
        /\ UNCHANGED <<addr_storage, crashed, kernelVars>>
  BY DEF SendNow, Sendable
<1> DEFINE result == IF ok THEN "OK" ELSE "FAILED"
           failed == ~ok \/ o.end = "failed"
           r      == SendRecord(c, a, size, result, failed, FALSE)
           now    == IF ok THEN <<d>> ELSE <<>>
<1>2. /\ conns[c].socket \in Fds /\ conns[c].socket \in open
      /\ Dest(conns[c].socket, a) \in Addrs \cup {NULL}
      /\ Len(sends) + 1 \in Nat /\ size \in Nat
  <2>1. Active(c)
    BY DEF Usable, Active
  <2>2. Len(sends) + 1 \in Nat /\ size \in Nat
    BY PoolAssumption DEF PoolType
  <2>3. QED BY <2>1, <2>2, DestType
<1>3. /\ r \in Calls /\ r.to = a /\ r.sock = conns[c].socket /\ r.size = size
      /\ r.dest = Dest(conns[c].socket, a)
      /\ ~r.queued /\ r.result = result /\ r.failed = failed
  <2>1. result \in Results /\ failed \in BOOLEAN
    BY DEF Results
  <2> HIDE DEF result, failed
  <2>2. QED BY <1>2, <2>1 DEF SendRecord, Calls
<1>4. /\ d \in WireData /\ d.n = Len(sends) + 1 /\ d.to = a /\ d.sock = conns[c].socket
      /\ d.dest = Dest(conns[c].socket, a) /\ d.len = size
  BY <1>2 DEF WireData, Datagram
<1>5. LengthAfter(o) \in Nat /\ length' = LengthAfter(o)
  BY <1>1, FlushEffect
<1>10. LengthAfter(o) = 0 \/ o.end = "failed"
  <2>1. CASE o.end = "clear"
    BY <2>1 DEF LengthAfter
  <2>2. CASE o.end # "clear" /\ o.end # "failed"
    <3>1. o = [sent |-> 0, end |-> "skipped"] /\ length = 0
      BY <1>1, <2>2 DEF Flushes, Usable, Blocked
    <3>2. QED BY <2>2, <3>1 DEF LengthAfter
  <2>3. QED BY <2>1, <2>2
<1>6. /\ wire' = (wire \o FlushedDatagrams(c, o)) \o now
      /\ sends' = Append(sends, r) /\ packets' = Flushed(o)
      /\ UNCHANGED <<addr_storage, crashed, kernelVars>>
  BY <1>1
<1>11. DestKept(r)
  BY <1>2, <1>3 DEF DestKept
<1>12. ok => size < UINT16 /\ size % UINT16 = size
  <2>1. UINT16 \in Nat \ {0}
    BY PoolAssumption
  <2>2. QED BY <1>1, <1>2, <2>1, SmallRemainder
<1> HIDE DEF d, r
<1>7. /\ now \in Seq(WireData) /\ \A k \in 1 .. Len(now) : now[k] = d /\ ok
      /\ \/ now = <<>> /\ r.result = "FAILED" /\ r.failed
         \/ /\ Len(now) = 1 /\ r.result = "OK" /\ (length' = 0 \/ r.failed)
            /\ r.size < UINT16
  <2>1. CASE ok
    <3>1. now = <<d>> /\ r.result = "OK" /\ (length' = 0 \/ r.failed) /\ r.size < UINT16
      BY <1>3, <1>5, <1>10, <1>12, <2>1
    <3> HIDE DEF now
    <3>2. QED BY <1>4, <2>1, <3>1
  <2>2. CASE ~ok
    <3>1. now = <<>> /\ r.result = "FAILED" /\ r.failed
      BY <1>3, <2>2
    <3> HIDE DEF now
    <3>2. QED BY <3>1
  <2>3. QED BY <2>1, <2>2
<1> HIDE DEF now
<1>13. \A k \in 1 .. Len(now) :
         /\ now[k].n = Len(sends) + 1 /\ now[k].to = r.to /\ now[k].sock = r.sock
         /\ now[k].dest = r.dest /\ now[k].len = r.size % UINT16
  BY <1>3, <1>4, <1>7, <1>12
<1>8. DirectCall(c, o, r)
  BY <1>3, <1>5, <1>6, <1>7, <1>11, <1>13 DEF DirectCall
<1>9. QED BY <1>3, <1>8

-----------------------------------------------------------------------------
(* Types.                                                                  *)

\* The loops: their ids are slots, and while one runs the table is idle.
BusyType ==
  /\ busy \in Loops
  /\ busy # Idle => pc = "idle"

\* Every call starts a loop, takes a turn of it or waits for its end.
LEMMA BusyNext ==
  ASSUME PoolType, [Next]_vars
  PROVE  BusyType'
<1>1. BusyType
  BY DEF PoolType, BusyType
<1>2. Idle \in Loops
  BY DEF Idle, Loops
<1>3. CASE UNCHANGED <<busy, pc>>
  BY <1>1, <1>3 DEF BusyType
<1>4. CASE ConnsStep
  BY <1>2, <1>4 DEF ConnsStep, poolVars, BusyType
<1>5. CASE \E c \in Slots, size \in PacketSizes :
             Send(c, size) \/ \E a \in Addrs : SendTo(c, a, size)
  BY <1>2, <1>5 DEF Send, SendTo, Ready, BusyType
<1>6. CASE \E ids \in IdLists, size \in PacketSizes : SendToAll(ids, size)
  <2>1. PICK ids \in IdLists, size \in PacketSizes : SendToAll(ids, size)
    BY <1>6
  <2>2. ids \in Seq(Slots) /\ size \in Nat
    BY IdListType, PoolAssumption
  <2>3. QED BY <2>1, <2>2 DEF SendToAll, Ready, connVars, BusyType, Loops
<1>7. CASE Update
  <2> DEFINE ids == [k \in 1 .. MAX_CONNECTIONS |-> k - 1]
  <2>1. ids \in Seq(Slots)
    BY ConnsAssumption DEF Slots
  <2>2. busy' = [op |-> "update", rest |-> ids, size |-> 0]
    BY <1>7 DEF Update
  <2> HIDE DEF ids
  <2>3. busy' \in Loops
    BY <2>1, <2>2 DEF Loops
  <2>4. pc' = "idle"
    BY <1>7 DEF Update, Ready, connVars
  <2>5. QED BY <2>3, <2>4 DEF BusyType
<1>8. CASE SendToAllNext \/ UpdateNext
  <2>1. /\ busy.op # "none" /\ busy.rest # <<>>
        /\ busy' = [busy EXCEPT !.rest = Tail(@)]
    BY <1>8 DEF SendToAllNext, UpdateNext
  <2>2. Tail(busy.rest) \in Seq(Slots) /\ Head(busy.rest) \in Slots /\ pc = "idle"
    BY <2>1, LoopHead
  <2>3. pc' = pc
    BY <1>8, <2>2 DEF SendToAllNext, UpdateNext, SendCall, SendQueues, SendNow, connVars
  <2>4. busy' \in Loops
    BY <1>1, <2>1, <2>2 DEF BusyType, Loops
  <2>5. QED BY <2>2, <2>3, <2>4 DEF BusyType
<1>9. CASE LoopDone
  BY <1>2, <1>9 DEF LoopDone, BusyType
<1>10. CASE Crashed \/ UNCHANGED vars
  BY <1>3, <1>10 DEF Crashed, vars, poolVars, connVars
<1>11. QED BY <1>4, <1>5, <1>6, <1>7, <1>8, <1>9, <1>10 DEF Next

\* Every step keeps the types of the ring.
LEMMA PoolTypeNext ==
  ASSUME TypeInv, SocketsOwned, PoolType, [Next]_vars
  PROVE  PoolType'
<1>0. BusyType'
  BY BusyNext
<1>1. /\ packets \in [Entries -> PacketData] /\ length \in Nat /\ addr_storage \in Nat
      /\ crashed \in BOOLEAN /\ sends \in Seq(Calls) /\ wire \in Seq(WireData)
  BY DEF PoolType
<1>2. CASE QueueStill
  BY <1>0, <1>1, <1>2 DEF QueueStill, queueVars, BusyType, PoolType
<1>3. CASE \E c \in Slots : FlushOnly(c)
  <2>0. PICK c \in Slots : FlushOnly(c)
    BY <1>3
  <2>1. PICK o \in Flushes(c) :
          /\ packets' = Flushed(o) /\ length' = LengthAfter(o)
          /\ wire' = wire \o FlushedDatagrams(c, o)
          /\ UNCHANGED <<addr_storage, crashed, sends>>
    BY <2>0 DEF FlushOnly
  <2>2. packets' \in [Entries -> PacketData] /\ length' \in Nat
    BY <2>1, FlushEffect
  <2>3. wire' \in Seq(WireData)
    BY <1>1, <2>0, <2>1, FlushWire DEF FlushOnly
  <2>4. QED BY <1>0, <1>1, <2>1, <2>2, <2>3 DEF BusyType, PoolType
<1>4. CASE \E c \in Slots, a \in Addrs \cup {NULL}, size \in PacketSizes :
             Usable(c) /\ SendQueues(c, a, size)
  <2>0. PICK c \in Slots, a \in Addrs \cup {NULL}, size \in PacketSizes :
             Usable(c) /\ SendQueues(c, a, size)
    BY <1>4
  <2>1. PICK o \in Flushes(c), p \in Entries, r \in Calls : QueueCall(c, o, p, r)
    BY <2>0, QueueEffect
  <2>2. wire' \in Seq(WireData)
    <3>1. FlushedDatagrams(c, o) \in Seq(WireData)
      BY <2>0, FlushWire DEF Usable, Active
    <3>2. QED BY <1>1, <2>1, <3>1 DEF QueueCall
  <2>3. sends' \in Seq(Calls)
    BY <1>1, <2>1, CallAdded DEF QueueCall
  <2>4. addr_storage' \in Nat /\ crashed' \in BOOLEAN
    <3>1. CASE PacketQueued(p, o, r)
      BY <1>1, <3>1 DEF PacketQueued
    <3>2. CASE PacketFailed(p, o, r)
      BY <1>1, <3>2 DEF PacketFailed
    <3>3. QED BY <2>1, <3>1, <3>2 DEF QueueCall
  <2>5. packets' \in [Entries -> PacketData] /\ length' \in Nat
    BY <2>1 DEF QueueCall
  <2>6. QED BY <1>0, <2>2, <2>3, <2>4, <2>5 DEF BusyType, PoolType
<1>5. CASE \E c \in Slots, a \in Addrs \cup {NULL}, size \in PacketSizes :
             Usable(c) /\ SendNow(c, a, size)
  <2>0. PICK c \in Slots, a \in Addrs \cup {NULL}, size \in PacketSizes :
             Usable(c) /\ SendNow(c, a, size)
    BY <1>5
  <2>1. PICK o \in Flushes(c), r \in Calls : DirectCall(c, o, r)
    BY <2>0, DirectEffect
  <2>2. PICK now \in Seq(WireData) : wire' = (wire \o FlushedDatagrams(c, o)) \o now
    BY <2>1 DEF DirectCall
  <2>3. wire' \in Seq(WireData)
    <3>1. FlushedDatagrams(c, o) \in Seq(WireData)
      BY <2>0, FlushWire DEF Usable, Active
    <3>2. QED BY <1>1, <2>2, <3>1
  <2>4. sends' \in Seq(Calls)
    BY <1>1, <2>1, CallAdded DEF DirectCall
  <2>5. packets' \in [Entries -> PacketData] /\ length' \in Nat
    BY <2>1, FlushEffect DEF DirectCall
  <2>6. UNCHANGED <<addr_storage, crashed>>
    BY <2>1 DEF DirectCall
  <2>7. QED BY <1>0, <1>1, <2>3, <2>4, <2>5, <2>6 DEF BusyType, PoolType
<1>6. QED BY <1>2, <1>3, <1>4, <1>5, PoolKinds

-----------------------------------------------------------------------------
(* Destinations.                                                           *)

\* Datagram w comes from one of the calls s, and has its address and length.
Known(w, s) ==
  /\ w.n \in 1 .. Len(s)
  /\ w.to = s[w.n].to
  /\ ~s[w.n].queued => w.sock = s[w.n].sock
  /\ w.len = s[w.n].size % UINT16

\* A datagram that is known stays known when another call is made.
LEMMA KnownKept ==
  ASSUME NEW s \in Seq(Calls), NEW r \in Calls, NEW w, Known(w, s)
  PROVE  Known(w, Append(s, r))
<1>1. w.n \in 1 .. Len(s)
  BY DEF Known
<1>2. Append(s, r)[w.n] = s[w.n] /\ w.n \in 1 .. Len(Append(s, r))
  BY <1>1, CallAdded
<1>3. QED BY <1>2, Zenon DEF Known

\* What a flush sends is known.
LEMMA FlushKnown ==
  ASSUME TypeInv, SocketsOwned, PoolType, PacketsKnown, NEW c \in Slots, Active(c),
         NEW o \in Flushes(c)
  PROVE  \A k \in 1 .. Len(FlushedDatagrams(c, o)) : Known(FlushedDatagrams(c, o)[k], sends)
<1> SUFFICES ASSUME NEW k \in 1 .. Len(FlushedDatagrams(c, o))
             PROVE  Known(FlushedDatagrams(c, o)[k], sends)
  OBVIOUS
<1>1. PICK p \in Entries : /\ packets[p].data # NULL /\ packets[p].len > 0
                           /\ FlushedDatagrams(c, o)[k].n = packets[p].data
                           /\ FlushedDatagrams(c, o)[k].to = packets[p].to
                           /\ FlushedDatagrams(c, o)[k].len = packets[p].len
  BY FlushWire
<1>2. /\ packets[p].data \in 1 .. Len(sends)
      /\ sends[packets[p].data].to = packets[p].to
      /\ sends[packets[p].data].queued
      /\ packets[p].len = sends[packets[p].data].size % UINT16
  BY <1>1 DEF PacketsKnown, Attempts
<1>3. QED BY <1>1, <1>2, Zenon DEF Known

\* A flush leaves the packets known, as it keeps the blocks and the addresses.
LEMMA FlushedKnown ==
  ASSUME PoolType, PacketsKnown, NEW c \in Slots, NEW o \in Flushes(c),
         NEW p \in Entries, Flushed(o)[p].data # NULL
  PROVE  /\ Flushed(o)[p].data \in 1 .. Len(sends)
         /\ sends[Flushed(o)[p].data].to = Flushed(o)[p].to
         /\ sends[Flushed(o)[p].data].queued
         /\ Flushed(o)[p].len \in {0, sends[Flushed(o)[p].data].size % UINT16}
<1>1. /\ Flushed(o)[p].data = packets[p].data /\ Flushed(o)[p].to = packets[p].to
      /\ Flushed(o)[p].len \in {0, packets[p].len}
  BY FlushEffect
<1>2. /\ packets[p].data \in 1 .. Len(sends)
      /\ sends[packets[p].data].to = packets[p].to
      /\ sends[packets[p].data].queued
      /\ packets[p].len \in {0, sends[packets[p].data].size % UINT16}
  BY <1>1 DEF PacketsKnown, Attempts
<1>3. QED BY <1>1, <1>2, Zenon

\* WireKnown in terms of Known.
LEMMA WireKnownDef == WireKnown <=> \A k \in 1 .. Len(wire) : Known(wire[k], sends)
  BY DEF WireKnown, Known, Attempts

\* Every step keeps the packets and the datagrams known.
LEMMA KnownNext ==
  ASSUME TypeInv, SocketsOwned, PoolType, PacketsKnown, WireKnown, [Next]_vars
  PROVE  PacketsKnown' /\ WireKnown'
<1>1. sends \in Seq(Calls) /\ wire \in Seq(WireData) /\ Len(sends) \in Nat
  BY DEF PoolType
<1>2. \A k \in 1 .. Len(wire) : Known(wire[k], sends)
  BY WireKnownDef
<1>3. SUFFICES /\ \A p \in Entries : packets'[p].data # NULL =>
                    /\ packets'[p].data \in 1 .. Len(sends')
                    /\ sends'[packets'[p].data].to = packets'[p].to
                    /\ sends'[packets'[p].data].queued
                    /\ packets'[p].len \in {0, sends'[packets'[p].data].size % UINT16}
               /\ \A k \in 1 .. Len(wire') : Known(wire'[k], sends')
  BY <1>3 DEF PacketsKnown, WireKnown, Known, Attempts
<1>4. CASE QueueStill
  BY <1>2, <1>4 DEF QueueStill, queueVars, PacketsKnown, Attempts
<1>5. CASE \E c \in Slots : FlushOnly(c)
  <2>0. PICK c \in Slots : FlushOnly(c)
    BY <1>5
  <2>1. PICK o \in Flushes(c) :
          packets' = Flushed(o) /\ wire' = wire \o FlushedDatagrams(c, o) /\ sends' = sends
    BY <2>0 DEF FlushOnly
  <2>2. PICK t \in Seq(WireData) :
          wire' = wire \o t /\ \A k \in 1 .. Len(t) : Known(t[k], sends)
    BY <2>0, <2>1, FlushWire, FlushKnown DEF FlushOnly
  <2>3. \A k \in 1 .. Len(wire') : Known(wire'[k], sends)
    BY <1>1, <1>2, <2>2, WireAdded
  <2>4. QED BY <2>1, <2>3, FlushedKnown
<1>6. CASE \E c \in Slots, a \in Addrs \cup {NULL}, size \in PacketSizes :
             Usable(c) /\ SendQueues(c, a, size)
  <2>0. PICK c \in Slots, a \in Addrs \cup {NULL}, size \in PacketSizes :
             Usable(c) /\ SendQueues(c, a, size)
    BY <1>6
  <2>1. PICK o \in Flushes(c), p \in Entries, r \in Calls : QueueCall(c, o, p, r)
    BY <2>0, QueueEffect
  <2>2. PICK t \in Seq(WireData) :
          wire' = wire \o t /\ \A k \in 1 .. Len(t) : Known(t[k], sends)
    <3>1. Active(c)
      BY <2>0 DEF Usable, Active
    <3>2. QED BY <2>1, <3>1, FlushWire, FlushKnown DEF QueueCall
  <2>3. \A k \in 1 .. Len(wire') : Known(wire'[k], sends)
    BY <1>1, <1>2, <2>2, WireAdded
  <2>4. sends' = Append(sends, r) /\ r.queued
    BY <2>1 DEF QueueCall
  <2>5. \A k \in 1 .. Len(wire') : Known(wire'[k], sends')
    BY <1>1, <2>3, <2>4, KnownKept
  <2>6. ASSUME NEW q \in Entries, packets'[q].data # NULL
        PROVE  /\ packets'[q].data \in 1 .. Len(sends')
               /\ sends'[packets'[q].data].to = packets'[q].to
               /\ sends'[packets'[q].data].queued
               /\ packets'[q].len \in {0, sends'[packets'[q].data].size % UINT16}
    <3>1. CASE q = p
      <4>1. PacketQueued(p, o, r)
        BY <2>1, <2>6, <3>1 DEF QueueCall, PacketFailed
      <4>2. /\ packets'[q].data = Len(sends) + 1 /\ packets'[q].to = r.to
            /\ packets'[q].len = r.size % UINT16
        BY <3>1, <4>1 DEF PacketQueued
      <4>3. sends'[Len(sends) + 1] = r /\ Len(sends') = Len(sends) + 1
        BY <1>1, <2>4, CallAdded
      <4>4. QED BY <1>1, <2>4, <4>2, <4>3
    <3>2. CASE q # p
      <4>1. packets'[q] = Flushed(o)[q]
        BY <2>1, <3>2 DEF QueueCall
      <4>2. /\ Flushed(o)[q].data \in 1 .. Len(sends)
            /\ sends[Flushed(o)[q].data].to = Flushed(o)[q].to
            /\ sends[Flushed(o)[q].data].queued
            /\ Flushed(o)[q].len \in {0, sends[Flushed(o)[q].data].size % UINT16}
        BY <2>6, <4>1, FlushedKnown
      <4>3. \A n \in 1 .. Len(sends) : sends'[n] = sends[n] /\ n \in 1 .. Len(sends')
        BY <1>1, <2>4, CallAdded
      <4>4. QED BY <4>1, <4>2, <4>3, Zenon
    <3>3. QED BY <3>1, <3>2
  <2>7. QED BY <2>5, <2>6
<1>7. CASE \E c \in Slots, a \in Addrs \cup {NULL}, size \in PacketSizes :
             Usable(c) /\ SendNow(c, a, size)
  <2>0. PICK c \in Slots, a \in Addrs \cup {NULL}, size \in PacketSizes :
             Usable(c) /\ SendNow(c, a, size)
    BY <1>7
  <2>1. PICK o \in Flushes(c), r \in Calls : DirectCall(c, o, r)
    BY <2>0, DirectEffect
  <2>2. PICK t \in Seq(WireData) :
          t = FlushedDatagrams(c, o) /\ \A k \in 1 .. Len(t) : Known(t[k], sends)
    <3>1. Active(c)
      BY <2>0 DEF Usable, Active
    <3>2. QED BY <3>1, FlushWire, FlushKnown
  <2>3. PICK now \in Seq(WireData) :
          /\ wire' = (wire \o FlushedDatagrams(c, o)) \o now
          /\ \A k \in 1 .. Len(now) :
               /\ now[k].n = Len(sends) + 1 /\ now[k].to = r.to /\ now[k].sock = r.sock
               /\ now[k].len = r.size % UINT16
    BY <2>1 DEF DirectCall
  <2>4. PICK w \in Seq(WireData) : w = wire \o t
    BY <1>1, WireAdded
  <2>5. \A k \in 1 .. Len(w) : Known(w[k], sends)
    BY <1>1, <1>2, <2>2, <2>4, WireAdded
  <2>6. sends' = Append(sends, r) /\ packets' = Flushed(o)
    BY <2>1 DEF DirectCall
  <2>7. \A k \in 1 .. Len(w) : Known(w[k], sends')
    BY <1>1, <2>5, <2>6, KnownKept
  <2>8. sends'[Len(sends) + 1] = r /\ Len(sends') = Len(sends) + 1
    BY <1>1, <2>6, CallAdded
  <2>9. \A k \in 1 .. Len(now) : Known(now[k], sends')
    <3>1. Len(sends) + 1 \in 1 .. Len(sends')
      BY <1>1, <2>8
    <3>2. QED BY <2>3, <2>8, <3>1, Zenon DEF Known
  <2>10. wire' = w \o now
    BY <2>2, <2>3, <2>4
  <2>11. \A k \in 1 .. Len(wire') : Known(wire'[k], sends')
    BY <2>7, <2>9, <2>10, WireAdded
  <2>12. ASSUME NEW q \in Entries, packets'[q].data # NULL
         PROVE  /\ packets'[q].data \in 1 .. Len(sends')
                /\ sends'[packets'[q].data].to = packets'[q].to
                /\ sends'[packets'[q].data].queued
                /\ packets'[q].len \in {0, sends'[packets'[q].data].size % UINT16}
    <3>1. packets'[q] = Flushed(o)[q]
      BY <2>6
    <3>2. /\ Flushed(o)[q].data \in 1 .. Len(sends)
          /\ sends[Flushed(o)[q].data].to = Flushed(o)[q].to
          /\ sends[Flushed(o)[q].data].queued
          /\ Flushed(o)[q].len \in {0, sends[Flushed(o)[q].data].size % UINT16}
      BY <2>12, <3>1, FlushedKnown
    <3>3. \A n \in 1 .. Len(sends) : sends'[n] = sends[n] /\ n \in 1 .. Len(sends')
      BY <1>1, <2>6, CallAdded
    <3>4. QED BY <3>1, <3>2, <3>3, Zenon
  <2>13. QED BY <2>11, <2>12
<1>8. QED BY <1>4, <1>5, <1>6, <1>7, PoolKinds

\* A socket stays open and keeps its peer: connect is called on new sockets only.
LEMMA PeerKept ==
  ASSUME TypeInv, [ConnsNext]_connVars, NEW f \in open
  PROVE  f \in open' /\ peer'[f] = peer[f]
<1>1. f \in Fds /\ peer \in [Fds -> Addrs \cup {NULL}]
  BY DEF TypeInv, ConnsTypeOK
<1>2. CASE \E i \in Slots : Opened(i)
  BY <1>1, <1>2 DEF Opened
<1>3. CASE \E i \in Slots, with_from \in BOOLEAN : Receive(i, with_from)
  BY <1>3 DEF Receive
<1>4. CASE Arrive \/ FreeSlotRelease \/ Still
  BY <1>4 DEF Arrive, FreeSlotRelease, kernelVars, Still
<1>5. QED BY <1>2, <1>3, <1>4, DataKinds

\* So what a call or a datagram had for its destination stays right.
LEMMA DestStays ==
  ASSUME TypeInv, PoolType, [Next]_vars, NEW x, DestKept(x)
  PROVE  x.sock \in open' /\ x.dest = IF x.to # NULL THEN x.to ELSE peer'[x.sock]
<1>1. [ConnsNext]_connVars
  BY TableRefined
<1>2. x.sock \in open
  BY DEF DestKept
<1>3. x.sock \in open' /\ peer'[x.sock] = peer[x.sock]
  BY <1>1, <1>2, PeerKept
<1>4. QED BY <1>3 DEF DestKept, Dest

\* Every step keeps the destinations known.
LEMMA DestsNext ==
  ASSUME TypeInv, SocketsOwned, PoolType, DestsKnown, [Next]_vars
  PROVE  DestsKnown'
<1> DEFINE Right(x) == x.sock \in open' /\ x.dest = IF x.to # NULL THEN x.to ELSE peer'[x.sock]
<1>0. SUFFICES /\ \A n \in 1 .. Len(sends') : Right(sends'[n])
               /\ \A k \in 1 .. Len(wire') : Right(wire'[k])
  BY DEF DestsKnown, DestKept, Dest
<1>1. sends \in Seq(Calls) /\ wire \in Seq(WireData) /\ Len(sends) \in Nat
  BY DEF PoolType
<1>2. ASSUME NEW x, DestKept(x) PROVE Right(x)
  BY <1>2, DestStays
<1>3. /\ \A n \in 1 .. Len(sends) : Right(sends[n])
      /\ \A k \in 1 .. Len(wire) : Right(wire[k])
  BY <1>2 DEF DestsKnown
<1> HIDE DEF Right
<1>4. ASSUME NEW c \in Slots, Active(c), NEW o \in Flushes(c)
      PROVE  /\ wire \o FlushedDatagrams(c, o) \in Seq(WireData)
             /\ \A k \in 1 .. Len(wire \o FlushedDatagrams(c, o)) :
                  Right((wire \o FlushedDatagrams(c, o))[k])
  <2>1. PICK t \in Seq(WireData) :
          t = FlushedDatagrams(c, o) /\ \A k \in 1 .. Len(t) : DestKept(t[k])
    BY <1>4, FlushWire
  <2>2. \A k \in 1 .. Len(t) : Right(t[k])
    BY <1>2, <2>1
  <2>3. wire \o t \in Seq(WireData) /\ \A k \in 1 .. Len(wire \o t) : Right((wire \o t)[k])
    BY <1>1, <1>3, <2>2, WireAdded
  <2>4. QED BY <2>1, <2>3
<1>5. ASSUME NEW r \in Calls, DestKept(r), sends' = Append(sends, r)
      PROVE  \A n \in 1 .. Len(sends') : Right(sends'[n])
  <2>1. /\ \A n \in 1 .. Len(sends) : sends'[n] = sends[n]
        /\ sends'[Len(sends) + 1] = r /\ Len(sends') = Len(sends) + 1
    BY <1>1, <1>5, CallAdded
  <2>2. \A n \in 1 .. Len(sends') : n \in 1 .. Len(sends) \/ n = Len(sends) + 1
    BY <1>1, <2>1
  <2>3. Right(r)
    BY <1>2, <1>5
  <2>4. QED BY <1>3, <2>1, <2>2, <2>3, Zenon
<1>6. CASE QueueStill
  BY <1>3, <1>6 DEF QueueStill
<1>7. CASE \E c \in Slots : FlushOnly(c)
  <2>1. PICK c \in Slots : FlushOnly(c)
    BY <1>7
  <2>2. PICK o \in Flushes(c) : wire' = wire \o FlushedDatagrams(c, o) /\ sends' = sends
    BY <2>1 DEF FlushOnly
  <2>3. Active(c)
    BY <2>1 DEF FlushOnly
  <2>4. QED BY <1>3, <1>4, <2>2, <2>3
<1>8. CASE \E c \in Slots, a \in Addrs \cup {NULL}, size \in PacketSizes :
             Usable(c) /\ SendQueues(c, a, size)
  <2>1. PICK c \in Slots, a \in Addrs \cup {NULL}, size \in PacketSizes :
             Usable(c) /\ SendQueues(c, a, size)
    BY <1>8
  <2>2. PICK o \in Flushes(c), p \in Entries, r \in Calls : QueueCall(c, o, p, r)
    BY <2>1, QueueEffect
  <2>3. /\ sends' = Append(sends, r) /\ DestKept(r)
        /\ wire' = wire \o FlushedDatagrams(c, o)
    BY <2>2 DEF QueueCall
  <2>4. Active(c)
    BY <2>1 DEF Usable, Active
  <2>5. QED BY <1>4, <1>5, <2>3, <2>4
<1>9. CASE \E c \in Slots, a \in Addrs \cup {NULL}, size \in PacketSizes :
             Usable(c) /\ SendNow(c, a, size)
  <2>1. PICK c \in Slots, a \in Addrs \cup {NULL}, size \in PacketSizes :
             Usable(c) /\ SendNow(c, a, size)
    BY <1>9
  <2>2. PICK o \in Flushes(c), r \in Calls : DirectCall(c, o, r)
    BY <2>1, DirectEffect
  <2>3. PICK now \in Seq(WireData) :
          /\ wire' = (wire \o FlushedDatagrams(c, o)) \o now
          /\ \A k \in 1 .. Len(now) :
               now[k].to = r.to /\ now[k].sock = r.sock /\ now[k].dest = r.dest
    BY <2>2 DEF DirectCall
  <2>4. sends' = Append(sends, r) /\ DestKept(r)
    BY <2>2 DEF DirectCall
  <2>5. \A k \in 1 .. Len(now) : Right(now[k])
    <3>1. Right(r)
      BY <1>2, <2>4
    <3>2. QED BY <2>3, <3>1, Zenon DEF Right
  <2>6. Active(c)
    BY <2>1 DEF Usable, Active
  <2>7. PICK w \in Seq(WireData) :
          w = wire \o FlushedDatagrams(c, o) /\ \A k \in 1 .. Len(w) : Right(w[k])
    BY <1>4, <2>6
  <2>8. wire' = w \o now
    BY <2>3, <2>7
  <2>9. \A k \in 1 .. Len(wire') : Right(wire'[k])
    BY <2>5, <2>7, <2>8, WireAdded
  <2>10. QED BY <1>5, <2>4, <2>9
<1>10. QED BY <1>6, <1>7, <1>8, <1>9, PoolKinds

-----------------------------------------------------------------------------
(* Blocks.                                                                 *)

\* Every step keeps the record of a failed realloc, and an entry loses its block, or
\* memcpy meets a null pointer, only when there is such a record.
LEMMA BlocksLostNext ==
  ASSUME TypeInv, SocketsOwned, PoolType, BlocksLost, CrashMeansNoMemory, [Next]_vars
  PROVE  BlocksLost' /\ CrashMeansNoMemory'
<1>1. sends \in Seq(Calls) /\ Len(sends) \in Nat
  BY DEF PoolType
<1>2. /\ \A p \in Entries : packets[p].data = NULL /\ packets[p].max_len > 0 => ReallocFailed
      /\ crashed => ReallocFailed
  BY DEF BlocksLost, CrashMeansNoMemory, ReallocFailed
<1> DEFINE Lost == \A p \in Entries :
                     packets'[p].data = NULL /\ packets'[p].max_len > 0 => ReallocFailed'
           Null == crashed' => ReallocFailed'
<1>3. Lost /\ Null => BlocksLost' /\ CrashMeansNoMemory'
  BY DEF BlocksLost, CrashMeansNoMemory, ReallocFailed
<1>4. ASSUME NEW r \in Calls, sends' = Append(sends, r)
      PROVE  /\ ReallocFailed => ReallocFailed'
             /\ r.result = "FAILED" /\ r.queued => ReallocFailed'
  <2>1. /\ \A n \in 1 .. Len(sends) : sends'[n] = sends[n] /\ n \in 1 .. Len(sends')
        /\ sends'[Len(sends) + 1] = r /\ Len(sends') = Len(sends) + 1
    BY <1>1, <1>4, CallAdded
  <2>2. Len(sends) + 1 \in 1 .. Len(sends')
    BY <1>1, <2>1
  <2>3. QED BY <2>1, <2>2, Zenon DEF ReallocFailed, Attempts
<1>5. ASSUME NEW c \in Slots, NEW o \in Flushes(c), NEW q \in Entries,
             packets'[q] = Flushed(o)[q], packets'[q].data = NULL, packets'[q].max_len > 0
      PROVE  ReallocFailed
  <2>1. Flushed(o)[q].data = packets[q].data /\ Flushed(o)[q].max_len = packets[q].max_len
    BY FlushEffect
  <2>2. QED BY <1>2, <1>5, <2>1
<1>6. ASSUME QueueStill PROVE Lost /\ Null
  BY <1>2, <1>6 DEF QueueStill, queueVars, ReallocFailed, Attempts
<1>7. ASSUME \E c \in Slots : FlushOnly(c)
      PROVE  Lost /\ Null
  <2>0. PICK c \in Slots : FlushOnly(c)
    BY <1>7
  <2>1. PICK o \in Flushes(c) :
          packets' = Flushed(o) /\ UNCHANGED <<crashed, sends>>
    BY <2>0 DEF FlushOnly
  <2>2. ReallocFailed => ReallocFailed'
    BY <2>1 DEF ReallocFailed, Attempts
  <2>3. QED BY <1>2, <1>5, <2>1, <2>2
<1>8. ASSUME \E c \in Slots, a \in Addrs \cup {NULL}, size \in PacketSizes :
             Usable(c) /\ SendQueues(c, a, size)
      PROVE  Lost /\ Null
  <2>0. PICK c \in Slots, a \in Addrs \cup {NULL}, size \in PacketSizes :
             Usable(c) /\ SendQueues(c, a, size)
    BY <1>8
  <2>1. PICK o \in Flushes(c), p \in Entries, r \in Calls : QueueCall(c, o, p, r)
    BY <2>0, QueueEffect
  <2>2. sends' = Append(sends, r) /\ r.queued
    BY <2>1 DEF QueueCall
  <2>3. ReallocFailed => ReallocFailed'
    BY <1>4, <2>2
  <2>4. crashed' => ReallocFailed'
    BY <1>2, <2>1, <2>3 DEF QueueCall, PacketQueued, PacketFailed
  <2>5. ASSUME NEW q \in Entries, packets'[q].data = NULL, packets'[q].max_len > 0
        PROVE  ReallocFailed'
    <3>1. CASE q = p
      <4>1. ~PacketQueued(p, o, r)
        <5>1. Len(sends) + 1 # NULL
          BY <1>1, PoolAssumption
        <5>2. QED BY <2>5, <3>1, <5>1 DEF PacketQueued
      <4>2. r.result = "FAILED"
        BY <2>1, <4>1 DEF QueueCall, PacketFailed
      <4>3. QED BY <1>4, <2>2, <4>2
    <3>2. CASE q # p
      <4>1. packets'[q] = Flushed(o)[q]
        BY <2>1, <3>2 DEF QueueCall
      <4>2. QED BY <1>5, <2>3, <2>5, <4>1
    <3>3. QED BY <3>1, <3>2
  <2>6. QED BY <2>4, <2>5
<1>9. ASSUME \E c \in Slots, a \in Addrs \cup {NULL}, size \in PacketSizes :
             Usable(c) /\ SendNow(c, a, size)
      PROVE  Lost /\ Null
  <2>0. PICK c \in Slots, a \in Addrs \cup {NULL}, size \in PacketSizes :
             Usable(c) /\ SendNow(c, a, size)
    BY <1>9
  <2>1. PICK o \in Flushes(c), r \in Calls : DirectCall(c, o, r)
    BY <2>0, DirectEffect
  <2>2. sends' = Append(sends, r) /\ packets' = Flushed(o) /\ crashed' = crashed
    BY <2>1 DEF DirectCall
  <2>3. ReallocFailed => ReallocFailed'
    BY <1>4, <2>2
  <2>4. QED BY <1>2, <1>5, <2>2, <2>3
<1>10. QED BY <1>3, <1>6, <1>7, <1>8, <1>9, PoolKinds

-----------------------------------------------------------------------------
(* Addresses.                                                              *)

\* The entries with an address in addr_storage.
Addressed == {p \in Entries : packets[p].has_to}

\* Sets of entries are finite and no larger than the ring.
LEMMA EntrySets ==
  ASSUME NEW P \in SUBSET Entries
  PROVE  IsFiniteSet(P) /\ Cardinality(P) \in Nat /\ Cardinality(P) <= MAX_BUFFERED_PACKETS
<1>1. MAX_BUFFERED_PACKETS \in Nat \ {0}
  BY PoolAssumption
<1>2. IsFiniteSet(Entries) /\ Cardinality(Entries) = MAX_BUFFERED_PACKETS
  <2>1. 0 \in Int /\ MAX_BUFFERED_PACKETS - 1 \in Int
    BY <1>1
  <2>2. /\ IsFiniteSet(0 .. MAX_BUFFERED_PACKETS - 1)
        /\ Cardinality(0 .. MAX_BUFFERED_PACKETS - 1) =
             IF 0 > MAX_BUFFERED_PACKETS - 1 THEN 0 ELSE (MAX_BUFFERED_PACKETS - 1) - 0 + 1
    BY <2>1, FS_Interval, Zenon
  <2>3. QED BY <1>1, <2>2 DEF Entries
<1>3. QED BY <1>2, FS_Subset, FS_CardinalityType

\* An address is stored exactly when an entry gets its first.
LEMMA AddressesNext ==
  ASSUME TypeInv, SocketsOwned, PoolType, AddressesStable, [Next]_vars
  PROVE  AddressesStable'
<1>1. addr_storage = Cardinality(Addressed)
  BY DEF AddressesStable, Addressed
<1>2. Addressed' = {p \in Entries : packets'[p].has_to}
  BY DEF Addressed, Entries
<1>3. Addressed \in SUBSET Entries /\ Addressed' \in SUBSET Entries
  BY <1>2 DEF Addressed
<1>4. SUFFICES addr_storage' = Cardinality(Addressed')
  <2>1. Cardinality(Addressed') <= MAX_BUFFERED_PACKETS
    <3>1. PICK P \in SUBSET Entries : P = Addressed'
      BY <1>3
    <3>2. QED BY <3>1, EntrySets
  <2>2. QED BY <1>2, <1>4, <2>1 DEF AddressesStable, Entries
<1>5. ASSUME \A q \in Entries : packets'[q].has_to = packets[q].has_to,
             addr_storage' = addr_storage
      PROVE  addr_storage' = Cardinality(Addressed')
  <2>1. Addressed' = Addressed
    BY <1>2, <1>5 DEF Addressed
  <2>2. QED BY <1>1, <1>5, <2>1
<1>6. CASE QueueStill
  BY <1>5, <1>6 DEF QueueStill, queueVars
<1>7. CASE \E c \in Slots : FlushOnly(c)
  <2>0. PICK c \in Slots : FlushOnly(c)
    BY <1>7
  <2>1. PICK o \in Flushes(c) : packets' = Flushed(o) /\ addr_storage' = addr_storage
    BY <2>0 DEF FlushOnly
  <2>2. \A q \in Entries : packets'[q].has_to = packets[q].has_to
    BY <2>1, FlushEffect
  <2>3. QED BY <1>5, <2>1, <2>2
<1>8. CASE \E c \in Slots, a \in Addrs \cup {NULL}, size \in PacketSizes :
             Usable(c) /\ SendQueues(c, a, size)
  <2>0. PICK c \in Slots, a \in Addrs \cup {NULL}, size \in PacketSizes :
             Usable(c) /\ SendQueues(c, a, size)
    BY <1>8
  <2>1. PICK o \in Flushes(c), p \in Entries, r \in Calls : QueueCall(c, o, p, r)
    BY <2>0, QueueEffect
  <2>2. \A q \in Entries : Flushed(o)[q].has_to = packets[q].has_to
    BY FlushEffect
  <2>3. \A q \in Entries \ {p} : packets'[q].has_to = packets[q].has_to
    BY <2>1, <2>2 DEF QueueCall
  <2>4. CASE PacketFailed(p, o, r)
    BY <1>5, <2>3, <2>4 DEF PacketFailed
  <2>5. CASE PacketQueued(p, o, r)
    <3>1. packets[p].has_to \in BOOLEAN /\ addr_storage \in Nat
      BY DEF PoolType, PacketData
    <3>2. /\ packets'[p].has_to = (packets[p].has_to \/ r.to # NULL)
          /\ addr_storage' = addr_storage + (IF r.to # NULL /\ ~packets[p].has_to THEN 1 ELSE 0)
      BY <2>5 DEF PacketQueued
    <3>3. CASE r.to # NULL /\ ~packets[p].has_to
      <4>1. Addressed' = Addressed \cup {p} /\ p \notin Addressed
        <5>1. packets'[p].has_to /\ ~packets[p].has_to
          BY <3>2, <3>3, Zenon
        <5>2. QED BY <1>2, <2>3, <5>1 DEF Addressed
      <4>2. Cardinality(Addressed \cup {p}) = Cardinality(Addressed) + 1
        BY <1>3, <4>1, EntrySets, FS_AddElement
      <4>3. addr_storage' = addr_storage + 1
        BY <3>2, <3>3
      <4>4. QED BY <1>1, <4>1, <4>2, <4>3
    <3>4. CASE ~(r.to # NULL /\ ~packets[p].has_to)
      <4>1. packets'[p].has_to = packets[p].has_to
        BY <3>1, <3>2, <3>4, Zenon
      <4>2. addr_storage' = addr_storage
        BY <3>1, <3>2, <3>4
      <4>3. QED BY <1>5, <2>3, <4>1, <4>2
    <3>5. QED BY <3>3, <3>4
  <2>6. QED BY <2>1, <2>4, <2>5 DEF QueueCall
<1>9. CASE \E c \in Slots, a \in Addrs \cup {NULL}, size \in PacketSizes :
             Usable(c) /\ SendNow(c, a, size)
  <2>0. PICK c \in Slots, a \in Addrs \cup {NULL}, size \in PacketSizes :
             Usable(c) /\ SendNow(c, a, size)
    BY <1>9
  <2>1. PICK o \in Flushes(c), r \in Calls : DirectCall(c, o, r)
    BY <2>0, DirectEffect
  <2>2. packets' = Flushed(o) /\ addr_storage' = addr_storage
    BY <2>1 DEF DirectCall
  <2>3. \A q \in Entries : packets'[q].has_to = packets[q].has_to
    BY <2>2, FlushEffect
  <2>4. QED BY <1>5, <2>2, <2>3
<1>10. QED BY <1>6, <1>7, <1>8, <1>9, PoolKinds

-----------------------------------------------------------------------------
(* The theorems.                                                           *)

\* The pool starts in the invariant.
LEMMA PoolInit == Init => PoolInv
<1> SUFFICES ASSUME Init PROVE PoolInv
  OBVIOUS
<1>1. SafeInv
  BY SafeInit DEF Init
<1>2. packets = [p \in Entries |-> NoPacket] /\ NoPacket \in PacketData
  BY DEF Init, NoPacket, PacketData
<1>3. PoolType
  <2>1. packets \in [Entries -> PacketData]
    BY <1>2
  <2>2. Idle \in Loops
    BY DEF Idle, Loops
  <2>3. /\ length = 0 /\ addr_storage = 0 /\ busy = Idle /\ crashed = FALSE
        /\ sends = <<>> /\ wire = <<>>
    BY DEF Init
  <2>4. sends \in Seq(Calls) /\ wire \in Seq(WireData)
    BY <2>3
  <2>5. QED BY <2>1, <2>2, <2>3, <2>4 DEF PoolType
<1>4. \A p \in Entries : /\ packets[p].data = NULL /\ packets[p].max_len = 0
                         /\ packets[p].has_to = FALSE
  BY <1>2 DEF NoPacket
<1>5. PacketsKnown /\ WireKnown /\ DestsKnown /\ BlocksLost /\ CrashMeansNoMemory
  BY <1>4 DEF Init, PacketsKnown, WireKnown, DestsKnown, BlocksLost, CrashMeansNoMemory
<1>6. AddressesStable
  <2>1. {p \in Entries : packets[p].has_to} = {}
    BY <1>4
  <2>2. Cardinality({p \in Entries : packets[p].has_to}) = 0
    BY <2>1, FS_EmptySet
  <2>3. addr_storage = 0 /\ 0 <= MAX_BUFFERED_PACKETS
    BY PoolAssumption DEF Init
  <2>4. QED BY <2>2, <2>3 DEF AddressesStable
<1>7. QED BY <1>1, <1>3, <1>5, <1>6 DEF PoolInv

\* Every step keeps it.
LEMMA PoolNext == PoolInv /\ [Next]_vars => PoolInv'
<1> SUFFICES ASSUME PoolInv, [Next]_vars PROVE PoolInv'
  OBVIOUS
<1>1. /\ SafeInv /\ TypeInv /\ SocketsOwned /\ PoolType /\ PacketsKnown /\ WireKnown
      /\ DestsKnown /\ BlocksLost /\ CrashMeansNoMemory /\ AddressesStable
  BY DEF PoolInv, SafeInv
<1>2. SafeInv'
  BY <1>1, TableRefined, SafeNext
<1>3. PoolType'
  BY <1>1, PoolTypeNext
<1>4. PacketsKnown' /\ WireKnown' /\ DestsKnown'
  BY <1>1, KnownNext, DestsNext
<1>5. BlocksLost' /\ CrashMeansNoMemory'
  BY <1>1, BlocksLostNext
<1>6. AddressesStable'
  BY <1>1, AddressesNext
<1>7. QED BY <1>2, <1>3, <1>4, <1>5, <1>6 DEF PoolInv

\* So it holds throughout.
LEMMA PoolAlways == Spec => []PoolInv
  BY PoolInit, PoolNext, PTL DEF Spec

\* The connection table under the queue is the table of UDPConns: a send, send_to,
\* send_to_all or update changes nothing of it but the error of a connection whose
\* system call failed, so every theorem about the table holds in the whole pool.
THEOREM TableCorrect == Spec => ConnsSpec
<1>1. Init => ConnsInit
  BY DEF Init
<1>2. PoolInv /\ [Next]_vars => [ConnsNext]_connVars
  BY TableRefined DEF PoolInv
<1>3. QED BY <1>1, <1>2, PoolAlways, PTL DEF Spec, ConnsSpec

\* In the whole pool, too, the free list, the blocks, the sockets and the frames of
\* close are in order.
THEOREM PoolTableSafe == Spec => []SafeInv
  BY TableCorrect, SafeAlways, PTL

\* A packet reaches the destination its call had, whichever entry it took and whichever
\* connection's flush sends it, but for a queued packet of send that another connection
\* flushes: it reaches the peer of that one.  Its length is the size of the call modulo
\* 2^16.
THEOREM DatagramCorrect == Spec => []DatagramKept
<1>1. PoolInv => DatagramKept
  <2> SUFFICES ASSUME PoolInv, NEW k \in 1 .. Len(wire)
               PROVE  LET w    == wire[k]
                          call == sends[w.n]
                      IN
                      /\ w.dest = IF Strays(call, w.sock) THEN peer[w.sock] ELSE call.dest
                      /\ ~call.queued => w.sock = call.sock
                      /\ w.len = call.size % UINT16
    BY DEF DatagramKept
  <2> DEFINE w    == wire[k]
             call == sends[w.n]
  <2>1. /\ w.n \in 1 .. Len(sends) /\ w.to = call.to
        /\ ~call.queued => w.sock = call.sock
        /\ w.len = call.size % UINT16
    BY DEF PoolInv, WireKnown, Attempts
  <2>2. w.dest = Dest(w.sock, w.to) /\ call.dest = Dest(call.sock, call.to)
    BY <2>1 DEF PoolInv, DestsKnown, DestKept
  <2> HIDE DEF w, call
  <2>3. w.dest = IF Strays(call, w.sock) THEN peer[w.sock] ELSE call.dest
    <3>1. CASE call.to # NULL
      BY <2>1, <2>2, <3>1 DEF Strays, Dest
    <3>2. CASE call.to = NULL /\ w.sock = call.sock
      BY <2>1, <2>2, <3>2 DEF Strays, Dest
    <3>3. CASE call.to = NULL /\ w.sock # call.sock
      BY <2>1, <2>2, <3>3 DEF Strays, Dest
    <3>4. QED BY <3>1, <3>2, <3>3
  <2>4. QED BY <2>1, <2>3 DEF w, call
<1>2. QED BY <1>1, PoolAlways, PTL

\* addr_storage holds one element for each entry that was ever given an address, so
\* push_back never moves the elements the entries point to.
THEOREM AddressesCorrect == Spec => []AddressesStable
<1>1. PoolInv => AddressesStable
  BY DEF PoolInv
<1>2. QED BY <1>1, PoolAlways, PTL

\* Without a failed realloc memcpy never writes through a null pointer.
THEOREM CrashCorrect == Spec => []CrashMeansNoMemory
<1>1. PoolInv => CrashMeansNoMemory
  BY DEF PoolInv
<1>2. QED BY <1>1, PoolAlways, PTL
=============================================================================
