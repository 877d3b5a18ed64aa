---------------------------- MODULE UDPConnsRecv ----------------------------
(***************************************************************************)
(* What recv, recv_from and recv_from_all leave in the connection table,   *)
(* and how a block can come to be freed twice, proved for every number of  *)
(* slots, descriptors and datagrams.                                       *)
(***************************************************************************)
EXTENDS UDPConnsProofs

\* A slot that is not in use holds no data, so a slot handed out again does not
\* show what its last connection read.
IdleEmpty == \A i \in Slots : ~Active(i) => conns[i].data_len = 0

\* A connection without an error on a connected socket names its peer, and what
\* it read came from the peer.
PeerNamed ==
  \A i \in Slots :
    Active(i) /\ conns[i].error = "NONE" /\ peer[conns[i].socket] # NULL =>
      /\ conns[i].from = peer[conns[i].socket]
      /\ conns[i].data_len > 0 => conns[i].content = peer[conns[i].socket]

\* Only its peer's datagrams wait at a connected socket, and none at a descriptor
\* that no socket has yet.
InboxSorted ==
  \A f \in Fds :
    /\ \A k \in 1 .. Len(inbox[f]) : peer[f] \in {NULL, inbox[f][k].src}
    /\ f \notin open => inbox[f] = <<>>

\* The nested calls the destructor made: they start from the socket of the slot
\* the loop is at, which stays in use; a call that has come back was not for a
\* slot that still has a frame; and where the chain first falls below the loop
\* index, it falls from the index or from above it.
DestructorChain ==
  /\ pc = "dtor_close" => /\ Active(cursor)
                          /\ stack[1] = conns[cursor].socket
  /\ returning => \A k \in 1 .. Len(stack) : stack[k] # conns[stack[Len(stack)]].socket
  /\ pc = "dtor_close" =>
       \A k \in 1 .. Len(stack) : stack[k] < cursor =>
         \E m \in 1 .. k : stack[m] < cursor /\ (m = 1 \/ stack[m - 1] >= cursor)

\* The invariant behind the theorems, next to SafeInv.
RecvInv ==
  /\ IdleEmpty
  /\ SpanInBuffer
  /\ PeerNamed
  /\ InboxSorted
  /\ PollAnswersHold
  /\ DestructorChain
  /\ DoubleFreeMeansBackLink

-----------------------------------------------------------------------------
(* What a step does to the data of the slots.                              *)

\* Slot j keeps all but its error, and no error is cleared.
Kept(j) ==
  /\ conns'[j].socket = conns[j].socket
  /\ conns'[j].recv_buffer = conns[j].recv_buffer
  /\ conns'[j].max_packet_size = conns[j].max_packet_size
  /\ conns'[j].data_len = conns[j].data_len
  /\ conns'[j].content = conns[j].content
  /\ conns'[j].from = conns[j].from
  /\ conns'[j].state = conns[j].state
  /\ conns[j].error # "NONE" => conns'[j].error # "NONE"

\* create or serve has handed out slot i: with a new socket that names the peer
\* it is connected to, or, when the call failed, not in use.
Opened(i) ==
  /\ \E b : TakeSlot(i, b)
  /\ \A j \in Slots \ {i} : Kept(j)
  /\ conns'[i].data_len = conns[i].data_len
  /\ inbox' = inbox
  /\ open \subseteq open'
  /\ pc' \in {"idle", "out_of_bounds"}
  /\ \/ conns'[i].state = conns[i].state /\ peer' = peer
     \/ \E f \in Fds \ open, a \in Addrs \cup {NULL} :
          /\ conns'[i].socket = f
          /\ f \in open'
          /\ peer' = [peer EXCEPT ![f] = a]
          /\ a # NULL => conns'[i].from = a

\* A step that neither reads, nor hands out or releases a slot, nor lets a
\* datagram arrive.
Still ==
  /\ \A j \in Slots : Kept(j)
  /\ open \subseteq open'
  /\ UNCHANGED <<peer, inbox>>

\* A create or serve that fails.
LEMMA CreateFailsOpens ==
  ASSUME TypeInv, NEW i \in Slots, NEW b, NEW f \in Fds,
         NEW e \in {"CONNECT_FAILED", "BIND_FAILED"},
         \/ CreateUnresolved(i, b)
         \/ CreateNoSocket(i, b)
         \/ CreateRefused(i, b, f, e)
  PROVE  Opened(i)
<1> USE DEF kernelVars, callVars
<1>1. TakeSlot(i, b)
  BY DEF CreateUnresolved, CreateNoSocket, CreateRefused
<1>2. conns \in [Slots -> ConnectionData] /\ WithBuffer(i, b) \in ConnectionData /\ pc = "idle"
  BY <1>1, TakeSlotType DEF TypeInv, ConnsTypeOK
<1>3. WithBuffer(i, b).data_len = conns[i].data_len /\ WithBuffer(i, b).state = conns[i].state
  BY <1>2 DEF WithBuffer, ConnectionData
<1>4. UNCHANGED <<peer, inbox, pc>> /\ open \subseteq open'
  BY DEF CreateUnresolved, CreateNoSocket, CreateRefused
<1>5. PICK c : /\ conns' = [conns EXCEPT ![i] = c]
               /\ c.data_len = conns[i].data_len /\ c.state = conns[i].state
  <2>1. CASE CreateUnresolved(i, b)
    <3> DEFINE c == [WithBuffer(i, b) EXCEPT !.error = "INVALID_ADDR"]
    <3>1. c.data_len = conns[i].data_len /\ c.state = conns[i].state
      BY <1>2, <1>3 DEF ConnectionData
    <3>2. conns' = [conns EXCEPT ![i] = c]
      BY <2>1 DEF CreateUnresolved
    <3>3. QED BY <3>1, <3>2
  <2>2. CASE CreateNoSocket(i, b)
    <3> DEFINE c == [WithBuffer(i, b) EXCEPT !.socket = -1, !.error = "SOCKET_CREATION_FAILED"]
    <3>1. c.data_len = conns[i].data_len /\ c.state = conns[i].state
      BY <1>2, <1>3 DEF ConnectionData
    <3>2. conns' = [conns EXCEPT ![i] = c]
      BY <2>2 DEF CreateNoSocket
    <3>3. QED BY <3>1, <3>2
  <2>3. CASE CreateRefused(i, b, f, e)
    <3> DEFINE c == [WithBuffer(i, b) EXCEPT !.socket = f, !.error = e]
    <3>1. c.data_len = conns[i].data_len /\ c.state = conns[i].state
      BY <1>2, <1>3 DEF ConnectionData
    <3>2. conns' = [conns EXCEPT ![i] = c]
      BY <2>3 DEF CreateRefused
    <3>3. QED BY <3>1, <3>2
  <2>4. QED BY <2>1, <2>2, <2>3
<1>6. QED BY <1>1, <1>2, <1>4, <1>5 DEF Opened, Kept

\* One that succeeds.
LEMMA CreateActiveOpens ==
  ASSUME TypeInv, NEW i \in Slots, NEW b, NEW f \in Fds, NEW a \in Addrs \cup {NULL},
         NEW connect \in BOOLEAN, NEW getfl \in BOOLEAN,
         CreateActive(i, b, f, a, connect, getfl)
  PROVE  Opened(i)
<1> USE DEF callVars
<1> DEFINE c    == [WithBuffer(i, b) EXCEPT !.socket = f, !.state = "ACTIVE",
                                            !.from = IF a = NULL THEN @ ELSE a]
           made == [conns EXCEPT ![i] = c]
           p    == IF connect THEN a ELSE NULL
<1>1. TakeSlot(i, b)
  BY DEF CreateActive
<1>2. conns \in [Slots -> ConnectionData] /\ WithBuffer(i, b) \in ConnectionData /\ pc = "idle"
  BY <1>1, TakeSlotType DEF TypeInv, ConnsTypeOK
<1>3. WithBuffer(i, b).data_len = conns[i].data_len
  BY <1>2 DEF WithBuffer, ConnectionData
<1>4. /\ c \in ConnectionData /\ c.data_len = conns[i].data_len /\ c.socket = f
      /\ a # NULL => c.from = a
  BY <1>2, <1>3, ActiveUpdate DEF ConnectionData
<1>5. /\ open' = open \cup {f} /\ f \in Fds \ open /\ inbox' = inbox
      /\ pc' \in {"idle", "out_of_bounds"}
      /\ peer' = [peer EXCEPT ![f] = p]
  BY <1>2 DEF CreateActive, IsLowestFree
<1>6. conns' \in {made, InitSocketError(made, f)}
  BY DEF CreateActive
<1> HIDE DEF c
<1>7. \A j \in Slots : /\ conns'[j].socket = made[j].socket
                       /\ conns'[j].recv_buffer = made[j].recv_buffer
                       /\ conns'[j].max_packet_size = made[j].max_packet_size
                       /\ conns'[j].data_len = made[j].data_len
                       /\ conns'[j].content = made[j].content
                       /\ conns'[j].from = made[j].from
                       /\ conns'[j].state = made[j].state
                       /\ made[j].error # "NONE" => conns'[j].error # "NONE"
  <2>1. made \in [Slots -> ConnectionData]
    BY <1>2, <1>4
  <2> HIDE DEF made
  <2>2. CASE conns' = made
    BY <2>2
  <2>3. CASE conns' = InitSocketError(made, f)
    BY <2>1, <2>3 DEF InitSocketError, ConnectionData
  <2>4. QED BY <1>6, <2>2, <2>3
<1>8. \A j \in Slots \ {i} : Kept(j)
  BY <1>2, <1>7 DEF Kept
<1>9. /\ conns'[i].data_len = conns[i].data_len /\ conns'[i].socket = f
      /\ a # NULL => conns'[i].from = a
  BY <1>2, <1>4, <1>7
<1>10. p \in Addrs \cup {NULL} /\ (p # NULL => conns'[i].from = p)
  BY <1>9
<1> HIDE DEF p, made
<1>11. QED BY <1>1, <1>5, <1>8, <1>9, <1>10 DEF Opened

\* create and serve.
LEMMA CreateOpens ==
  ASSUME TypeInv, Create \/ Serve
  PROVE  \E i \in Slots : Opened(i)
<1>1. CASE Create
  <2>1. PICK i \in Slots, b \in Bufs \cup {NULL}, f \in Fds, getfl \in BOOLEAN :
          \/ CreateUnresolved(i, b)
          \/ CreateNoSocket(i, b)
          \/ CreateRefused(i, b, f, "CONNECT_FAILED")
          \/ CreateRefused(i, b, f, "BIND_FAILED")
          \/ \E a \in Addrs, connect \in BOOLEAN : CreateActive(i, b, f, a, connect, getfl)
    BY <1>1 DEF Create
  <2>2. Opened(i)
    BY <2>1, CreateFailsOpens, CreateActiveOpens
  <2>3. QED BY <2>2
<1>2. CASE Serve
  <2>1. PICK i \in Slots, b \in Bufs \cup {NULL}, f \in Fds, getfl \in BOOLEAN :
          \/ CreateNoSocket(i, b)
          \/ CreateRefused(i, b, f, "BIND_FAILED")
          \/ CreateActive(i, b, f, NULL, FALSE, getfl)
    BY <1>2 DEF Serve
  <2>2. Opened(i)
    BY <2>1, CreateFailsOpens, CreateActiveOpens
  <2>3. QED BY <2>2
<1>3. QED BY <1>1, <1>2

\* Every step of the table is one of these.
LEMMA DataKinds ==
  ASSUME TypeInv, [ConnsNext]_connVars
  PROVE  \/ \E i \in Slots : Opened(i)
         \/ \E i \in Slots, with_from \in BOOLEAN : Receive(i, with_from)
         \/ Arrive
         \/ FreeSlotRelease
         \/ Still
<1> USE DEF tableVars, kernelVars, callVars
<1>1. CASE Environment
  BY <1>1 DEF Environment, ForeignOpen, ForeignClose, Still, Kept
<1>2. CASE Create \/ Serve
  BY <1>2, CreateOpens
<1>3. CASE (\E i \in Slots : Close(i)) \/ SendOneshot \/ Destroy \/ DestroyNext \/ DestroyFree
  BY <1>3 DEF Close, SendOneshot, Destroy, DestroyNext, DestroyFree, Still, Kept
<1>4. CASE \E i \in Slots : Recv(i) \/ RecvFrom(i)
  BY <1>4 DEF Recv, RecvFrom
<1>5. CASE FreeSlot
  BY <1>5, FreeSlotKinds DEF Still, Kept
<1>6. CASE (\E ids \in IdLists : RecvFromAll(ids)) \/ RecvFromAllDone
  BY <1>6 DEF RecvFromAll, RecvFromAllDone, Still, Kept
<1>7. CASE \E ids \in IdLists : RecvFromAllPollFails(ids)
  <2>1. PICK ids \in IdLists :
          conns' = [i \in Slots |-> IF i \in ToSet(ids)
                                    THEN [conns[i] EXCEPT !.error = "POLL_FAILED"] ELSE conns[i]]
    BY <1>7 DEF RecvFromAllPollFails
  <2>2. \A j \in Slots : Kept(j)
    BY <2>1 DEF Kept, TypeInv, ConnsTypeOK, ConnectionData
  <2>3. QED BY <1>7, <2>2 DEF RecvFromAllPollFails, Still
<1>8. CASE RecvFromAllNext
  <2>1. poll.ids[poll.i] \in Slots
    BY <1>8 DEF RecvFromAllNext, TypeInv, ConnsTypeOK, CallShape
  <2>2. CASE Receive(poll.ids[poll.i], TRUE)
    BY <2>1, <2>2
  <2>3. CASE UNCHANGED <<tableVars, kernelVars>>
    BY <2>3 DEF Still, Kept
  <2>4. QED BY <1>8, <2>2, <2>3 DEF RecvFromAllNext
<1>9. CASE \E i \in Slots : SendFails(i)
  <2>1. PICK i \in Slots : conns' = [conns EXCEPT ![i].error = "SEND_FAILED"]
    BY <1>9 DEF SendFails
  <2>2. \A j \in Slots : Kept(j)
    BY <2>1 DEF Kept, TypeInv, ConnsTypeOK, ConnectionData
  <2>3. QED BY <1>9, <2>2 DEF SendFails, Still
<1>10. CASE Finished \/ UNCHANGED connVars
  BY <1>10 DEF Finished, connVars, Still, Kept
<1>11. QED
  BY <1>1, <1>2, <1>3, <1>4, <1>5, <1>6, <1>7, <1>8, <1>9, <1>10 DEF ConnsNext, ConnsCalls

\* What a receiving call leaves in slot i: an error, no data, or the datagram that
\* was first in the queue, in a block that holds it.
ReadData(i) ==
  /\ Active(i)
  /\ \A j \in Slots \ {i} : conns'[j] = conns[j]
  /\ conns'[i].socket = conns[i].socket
  /\ conns'[i].state = conns[i].state
  /\ \/ inbox' = inbox
     \/ /\ conns[i].socket \in open /\ inbox[conns[i].socket] # <<>>
        /\ inbox' = [inbox EXCEPT ![conns[i].socket] = Tail(@)]
  /\ UNCHANGED <<open, peer>>
  /\ conns[i].error = "NONE"
  /\ \/ conns'[i].error # "NONE"
     \/ conns'[i].data_len = 0 /\ conns'[i].from = conns[i].from
     \/ /\ conns[i].socket \in open /\ inbox[conns[i].socket] # <<>>
        /\ conns'[i].data_len <= conns'[i].max_packet_size
        /\ conns'[i].recv_buffer # NULL \/ conns'[i].data_len = 0
        /\ conns'[i].content = Head(inbox[conns[i].socket]).src
        /\ conns'[i].from \in {conns[i].from, conns'[i].content}

\* FIONREAD answers more than 0 only for a socket with a datagram that fits.
LEMMA AvailableMeans ==
  ASSUME TypeInv, NEW f \in Fds \cup {-1}, NEW n \in Available(f), n # 0
  PROVE  /\ f \in open /\ f \in Fds /\ inbox[f] # <<>>
         /\ n \in Nat
         /\ Head(inbox[f]) \in Datagrams
         /\ Head(inbox[f]).len \in Nat /\ Head(inbox[f]).len <= n
<1>1. f \in open /\ inbox[f] # <<>> /\ n \in Sizes /\ n >= Head(inbox[f]).len
  BY DEF Available
<1>2. f \in Fds /\ inbox[f] \in Seq(Datagrams)
  BY <1>1 DEF TypeInv, ConnsTypeOK
<1>3. Head(inbox[f]) \in Datagrams
  BY <1>1, <1>2
<1>4. Head(inbox[f]).len \in Nat /\ n \in Nat
  BY <1>1, <1>3, ConnsAssumption DEF Datagrams
<1>5. QED BY <1>1, <1>2, <1>3, <1>4

\* The body recv and recv_from share.
LEMMA ReceiveReadsData ==
  ASSUME TypeInv, NEW i \in Slots, NEW with_from \in BOOLEAN, Receive(i, with_from)
  PROVE  ReadData(i)
<1>1. /\ Active(i) /\ conns[i].error = "NONE"
      /\ conns \in [Slots -> ConnectionData] /\ conns[i] \in ConnectionData
      /\ conns[i].socket \in Fds \cup {-1} /\ conns[i].max_packet_size \in Nat
  BY DEF Receive, Usable, Active, TypeInv, ConnsTypeOK, ConnectionData
<1>2. UNCHANGED <<open, peer>>
  BY DEF Receive
<1>3. CASE ReceiveNoLength(i)
  <2>1. /\ conns'[i].error # "NONE" /\ conns'[i].socket = conns[i].socket
        /\ conns'[i].state = conns[i].state
        /\ \A j \in Slots \ {i} : conns'[j] = conns[j]
    BY <1>1, <1>3 DEF ReceiveNoLength, ConnectionData
  <2>2. QED BY <1>1, <1>2, <1>3, <2>1 DEF ReceiveNoLength, ReadData
<1>4. CASE ReceiveNothing(i)
  <2>1. /\ conns'[i].data_len = 0 /\ conns'[i].from = conns[i].from
        /\ conns'[i].socket = conns[i].socket
        /\ conns'[i].state = conns[i].state
        /\ \A j \in Slots \ {i} : conns'[j] = conns[j]
    BY <1>1, <1>4 DEF ReceiveNothing, ConnectionData
  <2>2. QED BY <1>1, <1>2, <1>4, <2>1 DEF ReceiveNothing, ReadData
<1>5. CASE ReceiveNoMemory(i)
  <2>1. /\ conns'[i].error # "NONE" /\ conns'[i].socket = conns[i].socket
        /\ conns'[i].state = conns[i].state
        /\ \A j \in Slots \ {i} : conns'[j] = conns[j]
    BY <1>1, <1>5 DEF ReceiveNoMemory, ConnectionData
  <2>2. QED BY <1>1, <1>2, <1>5, <2>1 DEF ReceiveNoMemory, ReadData
<1>6. CASE ReceiveFails(i, with_from)
  <2>1. PICK n \in Available(conns[i].socket) \ {0}, b \in Bufs \cup {NULL} :
          /\ conns' = [conns EXCEPT ![i] =
                   [conns[i] EXCEPT
                      !.recv_buffer = b, !.max_packet_size = Grown(conns[i], n),
                      !.from = IF with_from THEN "garbled" ELSE @,
                      !.error = "RECV_FAILED", !.data_len = 0]]
          /\ \/ UNCHANGED inbox
             \/ inbox' = [inbox EXCEPT ![conns[i].socket] = Tail(@)]
    BY <1>6 DEF ReceiveFails
  <2>2. conns[i].socket \in open /\ inbox[conns[i].socket] # <<>>
    BY <1>1, AvailableMeans
  <2>3. /\ conns'[i].error # "NONE" /\ conns'[i].socket = conns[i].socket
        /\ conns'[i].state = conns[i].state
        /\ \A j \in Slots \ {i} : conns'[j] = conns[j]
    BY <1>1, <2>1 DEF ConnectionData
  <2>4. QED BY <1>1, <1>2, <2>1, <2>2, <2>3 DEF ReadData
<1>7. CASE ReceiveData(i, with_from)
  <2> DEFINE d == Head(inbox[conns[i].socket])
  <2>1. PICK n \in Available(conns[i].socket) \ {0}, b \in Bufs \cup {NULL} :
          /\ b # NULL \/ d.len = 0
          /\ conns' = [conns EXCEPT ![i] =
                   [conns[i] EXCEPT
                      !.recv_buffer = b, !.max_packet_size = Grown(conns[i], n),
                      !.from = IF with_from THEN d.src ELSE @,
                      !.content = d.src, !.data_len = d.len]]
          /\ inbox' = [inbox EXCEPT ![conns[i].socket] = Tail(@)]
    BY <1>7 DEF ReceiveData
  <2>2. /\ conns[i].socket \in open /\ inbox[conns[i].socket] # <<>>
        /\ n \in Nat /\ d.len \in Nat /\ d.len <= n
    BY <1>1, AvailableMeans
  <2>3. d.len <= Grown(conns[i], n)
    BY <1>1, <2>2 DEF Grown
  <2> HIDE DEF d
  <2>4. /\ conns'[i].data_len = d.len /\ conns'[i].max_packet_size = Grown(conns[i], n)
        /\ conns'[i].recv_buffer = b /\ conns'[i].content = d.src
        /\ conns'[i].from \in {conns[i].from, d.src}
        /\ conns'[i].socket = conns[i].socket /\ conns'[i].state = conns[i].state
        /\ \A j \in Slots \ {i} : conns'[j] = conns[j]
    BY <1>1, <2>1 DEF ConnectionData
  <2>5. QED BY <1>1, <1>2, <2>1, <2>2, <2>3, <2>4 DEF ReadData, d
<1>8. QED BY <1>3, <1>4, <1>5, <1>6, <1>7 DEF Receive

-----------------------------------------------------------------------------
(* The data of a connection.                                               *)

\* What is left of a queue after its first datagram was in the queue.
LEMMA TailOf ==
  ASSUME NEW S, NEW s \in Seq(S), s # <<>>, NEW k \in 1 .. Len(Tail(s))
  PROVE  k + 1 \in 1 .. Len(s) /\ Tail(s)[k] = s[k + 1]
  OBVIOUS

\* Every step keeps the datagrams of connected sockets apart.
LEMMA InboxNext ==
  ASSUME SafeInv, InboxSorted, [ConnsNext]_connVars
  PROVE  InboxSorted'
<1>0. /\ TypeInv /\ open \subseteq Fds /\ inbox \in [Fds -> Seq(Datagrams)]
      /\ peer \in [Fds -> Addrs \cup {NULL}]
  BY DEF SafeInv, TypeInv, ConnsTypeOK
<1>1. ASSUME NEW i \in Slots, Opened(i)
      PROVE  InboxSorted'
  <2>1. CASE peer' = peer
    BY <1>1, <2>1 DEF Opened, InboxSorted
  <2>2. CASE peer' # peer
    <3>1. PICK f \in Fds \ open, a \in Addrs \cup {NULL} :
            f \in open' /\ peer' = [peer EXCEPT ![f] = a]
      BY <1>1, <2>2 DEF Opened
    <3>2. inbox' = inbox /\ open \subseteq open' /\ Len(inbox[f]) = 0
      BY <1>0, <1>1 DEF Opened, InboxSorted
    <3>3. QED BY <1>0, <3>1, <3>2 DEF InboxSorted
  <2>3. QED BY <2>1, <2>2
<1>2. ASSUME NEW i \in Slots, NEW with_from \in BOOLEAN, Receive(i, with_from)
      PROVE  InboxSorted'
  <2>1. ReadData(i)
    BY <1>0, <1>2, ReceiveReadsData
  <2>2. CASE inbox' = inbox
    BY <2>1, <2>2 DEF ReadData, InboxSorted
  <2>3. CASE inbox' # inbox
    <3> DEFINE s == conns[i].socket
    <3>1. /\ s \in open /\ s \in Fds /\ inbox[s] # <<>> /\ inbox[s] \in Seq(Datagrams)
          /\ inbox' = [inbox EXCEPT ![s] = Tail(@)] /\ open' = open /\ peer' = peer
      BY <1>0, <2>1, <2>3 DEF ReadData
    <3> HIDE DEF s
    <3>2. \A k \in 1 .. Len(Tail(inbox[s])) : peer[s] \in {NULL, Tail(inbox[s])[k].src}
      <4>1. TAKE k \in 1 .. Len(Tail(inbox[s]))
      <4>2. k + 1 \in 1 .. Len(inbox[s]) /\ Tail(inbox[s])[k] = inbox[s][k + 1]
        BY <3>1, TailOf
      <4>3. QED BY <3>1, <4>2 DEF InboxSorted
    <3>3. inbox'[s] = Tail(inbox[s]) /\ \A f \in Fds \ {s} : inbox'[f] = inbox[f]
      BY <1>0, <3>1
    <3>4. QED BY <3>1, <3>2, <3>3 DEF InboxSorted
  <2>4. QED BY <2>2, <2>3
<1>3. CASE Arrive
  <2>1. PICK f \in open, d \in Datagrams :
          /\ peer[f] \in {NULL, d.src}
          /\ inbox' = [inbox EXCEPT ![f] = Append(@, d)]
    BY <1>3 DEF Arrive
  <2>2. UNCHANGED <<open, peer>>
    BY <1>3 DEF Arrive
  <2>3. /\ inbox'[f] = Append(inbox[f], d) /\ inbox[f] \in Seq(Datagrams) /\ f \in Fds
        /\ \A g \in Fds \ {f} : inbox'[g] = inbox[g]
    BY <1>0, <2>1
  <2>4. \A k \in 1 .. Len(inbox'[f]) : peer[f] \in {NULL, inbox'[f][k].src}
    <3>1. TAKE k \in 1 .. Len(inbox'[f])
    <3>2. CASE k \in 1 .. Len(inbox[f])
      <4>1. inbox'[f][k] = inbox[f][k]
        BY <2>3, <3>2
      <4>2. QED BY <2>3, <3>2, <4>1 DEF InboxSorted
    <3>3. CASE k \notin 1 .. Len(inbox[f])
      <4>1. k = Len(inbox[f]) + 1
        BY <2>3, <3>3
      <4>2. inbox'[f][k] = d
        BY <2>3, <4>1
      <4>3. QED BY <2>1, <4>2
    <3>4. QED BY <3>2, <3>3
  <2>5. QED BY <2>1, <2>2, <2>3, <2>4 DEF InboxSorted
<1>4. CASE FreeSlotRelease \/ Still
  <2>1. UNCHANGED <<peer, inbox>> /\ open \subseteq open'
    BY <1>4 DEF FreeSlotRelease, kernelVars, Still
  <2>2. QED BY <2>1 DEF InboxSorted
<1>5. QED BY <1>0, <1>1, <1>2, <1>3, <1>4, DataKinds

\* Every step keeps the span of get_data in its block, and on a connected socket
\* the sender that get_from names: a slot handed out is empty, and only the
\* connection that is read gets data.
LEMMA DataNext ==
  ASSUME SafeInv, IdleEmpty, SpanInBuffer, PeerNamed, InboxSorted, [ConnsNext]_connVars
  PROVE  IdleEmpty' /\ SpanInBuffer' /\ PeerNamed'
<1>0. /\ TypeInv /\ FreeListSound /\ FrameChain /\ conns \in [Slots -> ConnectionData]
      /\ inbox \in [Fds -> Seq(Datagrams)] /\ peer \in [Fds -> Addrs \cup {NULL}]
      /\ \A j \in Slots : conns[j].socket \in open \cup {-1}
      /\ \A j \in Slots : Active(j) => conns[j].socket \in open
      /\ open \subseteq Fds
  BY DEF SafeInv, TypeInv, ConnsTypeOK, SocketsOwned
<1>1. ASSUME NEW i \in Slots, Opened(i)
      PROVE  IdleEmpty' /\ SpanInBuffer' /\ PeerNamed'
  <2>1. conns[i].state = "FREE"
    BY <1>0, <1>1, TakenSlot DEF Opened
  <2>2. conns'[i].data_len = 0
    BY <1>1, <2>1 DEF Opened, IdleEmpty, Active
  <2>3. \A j \in Slots \ {i} : Kept(j)
    BY <1>1 DEF Opened
  <2>4. IdleEmpty'
    BY <2>2, <2>3 DEF IdleEmpty, Active, Kept
  <2>5. SpanInBuffer'
    BY <2>2, <2>3 DEF SpanInBuffer, Kept
  <2>6. PeerNamed'
    <3>1. CASE conns'[i].state = conns[i].state /\ peer' = peer
      BY <2>1, <2>3, <3>1 DEF PeerNamed, Active, Kept
    <3>2. ASSUME NEW f \in Fds \ open, NEW a \in Addrs \cup {NULL},
                 conns'[i].socket = f, peer' = [peer EXCEPT ![f] = a],
                 a # NULL => conns'[i].from = a
          PROVE  PeerNamed'
      <4>1. \A j \in Slots \ {i} : Active(j) => peer'[conns[j].socket] = peer[conns[j].socket]
        BY <1>0, <3>2
      <4>2. peer'[f] = a
        BY <1>0, <3>2
      <4>3. QED BY <2>2, <2>3, <3>2, <4>1, <4>2 DEF PeerNamed, Active, Kept
    <3>3. QED BY <1>1, <3>1, <3>2 DEF Opened
  <2>7. QED BY <2>4, <2>5, <2>6
<1>2. ASSUME NEW i \in Slots, NEW with_from \in BOOLEAN, Receive(i, with_from)
      PROVE  IdleEmpty' /\ SpanInBuffer' /\ PeerNamed'
  <2>1. ReadData(i)
    BY <1>0, <1>2, ReceiveReadsData
  <2>2. IdleEmpty'
    BY <2>1 DEF ReadData, IdleEmpty, Active
  <2>3. SpanInBuffer'
    <3>1. conns' \in [Slots -> ConnectionData]
      BY <1>0, <1>2, ReceiveType
    <3>2. conns'[i].data_len \in Nat
      BY <3>1 DEF ConnectionData
    <3>3. conns'[i].error = "NONE" /\ conns'[i].data_len > 0 =>
            conns'[i].recv_buffer # NULL /\ conns'[i].data_len <= conns'[i].max_packet_size
      BY <2>1, <3>2 DEF ReadData
    <3>4. QED BY <2>1, <3>3 DEF ReadData, SpanInBuffer
  <2>4. PeerNamed'
    <3> DEFINE s == conns[i].socket
    <3>1. /\ \A j \in Slots \ {i} : conns'[j] = conns[j]
          /\ conns'[i].socket = s /\ peer' = peer /\ Active(i) /\ conns[i].error = "NONE"
          /\ s \in Fds
      BY <1>0, <2>1 DEF ReadData
    <3>2. ASSUME peer[s] # NULL, conns'[i].error = "NONE"
          PROVE  /\ conns'[i].from = peer[s]
                 /\ conns'[i].data_len > 0 => conns'[i].content = peer[s]
      <4>1. conns[i].from = peer[s]
        BY <3>1, <3>2 DEF PeerNamed
      <4>2. CASE conns'[i].data_len = 0 /\ conns'[i].from = conns[i].from
        BY <4>1, <4>2
      <4>3. CASE /\ inbox[s] # <<>>
                 /\ conns'[i].content = Head(inbox[s]).src
                 /\ conns'[i].from \in {conns[i].from, conns'[i].content}
        <5>1. inbox[s] \in Seq(Datagrams) /\ 1 \in 1 .. Len(inbox[s]) /\ Head(inbox[s]) = inbox[s][1]
          BY <1>0, <3>1, <4>3
        <5>2. peer[s] = Head(inbox[s]).src
          BY <3>1, <3>2, <5>1 DEF InboxSorted
        <5>3. QED BY <4>1, <4>3, <5>2
      <4>4. QED BY <2>1, <3>2, <4>2, <4>3 DEF ReadData
    <3> HIDE DEF s
    <3>3. QED BY <3>1, <3>2 DEF PeerNamed, Active
  <2>5. QED BY <2>2, <2>3, <2>4
<1>3. CASE Arrive
  <2>1. UNCHANGED <<conns, peer>>
    BY <1>3 DEF Arrive
  <2>2. QED BY <2>1 DEF IdleEmpty, SpanInBuffer, PeerNamed, Active
<1>4. CASE FreeSlotRelease
  <2>1. /\ Last(stack) \in Slots /\ peer' = peer
        /\ conns' = [conns EXCEPT ![Last(stack)] = FreshConnection]
    BY <1>0, <1>4, ReleasedSlot DEF FreeSlotRelease, kernelVars
  <2>2. FreshConnection.data_len = 0 /\ FreshConnection.state = "FREE"
    BY DEF FreshConnection
  <2>3. QED BY <1>0, <2>1, <2>2 DEF IdleEmpty, SpanInBuffer, PeerNamed, Active
<1>5. CASE Still
  BY <1>5 DEF Still, Kept, IdleEmpty, SpanInBuffer, PeerNamed, Active
<1>6. QED BY <1>0, <1>1, <1>2, <1>3, <1>4, <1>5, DataKinds

-----------------------------------------------------------------------------
(* The answers of poll.                                                    *)

\* The numbers up to p are p numbers.
LEMMA CountUpTo ==
  ASSUME NEW n \in Nat, NEW p \in 1 .. n
  PROVE  Cardinality({q \in 1 .. n : q <= p}) = p
<1>1. {q \in 1 .. n : q <= p} = 1 .. p
  OBVIOUS
<1>2. 1 \in Int /\ p \in Int
  OBVIOUS
<1>3. Cardinality(1 .. p) = IF 1 > p THEN 0 ELSE p - 1 + 1
  BY <1>2, FS_Interval, Zenon
<1>4. Cardinality(1 .. p) = p
  BY <1>3
<1>5. QED BY <1>1, <1>4, Zenon

\* A set of positions that has as many elements as there are positions has them all.
LEMMA AllPolled ==
  ASSUME NEW n \in Nat, NEW P \in SUBSET (1 .. n), Cardinality(P) = n
  PROVE  P = 1 .. n
<1>1. IsFiniteSet(1 .. n) /\ Cardinality(1 .. n) = n
  <2>1. 1 \in Int /\ n \in Int
    OBVIOUS
  <2>2. /\ IsFiniteSet(1 .. n)
        /\ Cardinality(1 .. n) = IF 1 > n THEN 0 ELSE n - 1 + 1
    BY <2>1, FS_Interval, Zenon
  <2>3. QED BY <2>2
<1>2. QED BY <1>1, FS_Subset

\* When no id was passed over, the k-th answer is the k-th id's.
LEMMA AnswersInOrder ==
  ASSUME TypeInv, NEW ids \in Seq(Slots), RecvFromAll(ids),
         Len(poll'.ready) = Len(poll'.ids)
  PROVE  /\ poll'.ids = ids /\ poll'.i = 1 /\ Len(poll'.ready) = Len(ids)
         /\ \A k \in 1 .. Len(ids) :
              /\ Usable(ids[k])
              /\ poll'.ready[k] = (inbox[conns[ids[k]].socket] # <<>>)
<1> DEFINE P      == {p \in 1 .. Len(ids) : Usable(ids[p])}
           polled == Picked(ids, P)
           ready  == [k \in 1 .. Len(polled) |-> inbox[conns[polled[k]].socket] # <<>>]
<1>1. poll' = [ids |-> ids, ready |-> ready, i |-> 1]
  BY DEF RecvFromAll
<1>2. Len(ids) \in Nat /\ P \in SUBSET (1 .. Len(ids))
  OBVIOUS
<1>3. Cardinality(P) \in Nat
  BY <1>2, PolledBound
<1>4. /\ Len(polled) = Cardinality(P)
      /\ \A k \in 1 .. Cardinality(P) : polled[k] = ids[Nth(P, k)]
  <2> HIDE DEF P
  <2>1. QED BY <1>3, PickedLen
<1>5. Len(ready) = Cardinality(P)
  <2> HIDE DEF polled, P
  <2>1. QED BY <1>3, <1>4
<1>6. poll'.ids = ids /\ poll'.i = 1 /\ poll'.ready = ready
  <2> HIDE DEF ready
  <2>1. QED BY <1>1
<1>7. Cardinality(P) = Len(ids)
  BY <1>5, <1>6
<1>8. P = 1 .. Len(ids)
  <2> HIDE DEF P
  <2>1. QED BY <1>2, <1>7, AllPolled
<1>9. \A k \in 1 .. Len(ids) : Nth(P, k) = k
  <2>1. TAKE k \in 1 .. Len(ids)
  <2> HIDE DEF P
  <2>2. \A p \in P : Cardinality({q \in P : q <= p}) = p
    BY <1>2, <1>8, CountUpTo
  <2>3. QED BY <1>8, <2>2 DEF Nth
<1>10. \A k \in 1 .. Len(ids) : ready[k] = (inbox[conns[ids[k]].socket] # <<>>)
  <2> HIDE DEF polled, P
  <2>1. QED BY <1>4, <1>7, <1>9
<1>11. \A k \in 1 .. Len(ids) : Usable(ids[k])
  BY <1>8
<1> HIDE DEF ready, polled, P
<1>12. QED BY <1>5, <1>6, <1>7, <1>10, <1>11

\* Which steps recv_from_all is running after.
LEMMA RunningAll ==
  ASSUME TypeInv, [ConnsNext]_connVars, pc' = "recv_all"
  PROVE  \/ \E ids \in Seq(Slots) : RecvFromAll(ids)
         \/ RecvFromAllNext
         \/ Arrive
         \/ UNCHANGED <<conns, inbox, pc, poll>>
<1> USE DEF tableVars, kernelVars, callVars, Ended
<1>1. CASE Create \/ Serve
  BY <1>1, CreateTakes DEF SlotTaken, TakeSlot
<1>2. CASE Environment
  BY <1>2 DEF Environment, ForeignOpen, ForeignClose
<1>3. CASE FreeSlot
  BY <1>3 DEF FreeSlot, FreeSlotOutOfBounds, FreeSlotSkip, FreeSlotDoubleFree,
              FreeSlotRecurse, FreeSlotRelease, PopFrame, InFreeSlot
<1>4. CASE \/ \E i \in Slots : Close(i) \/ Recv(i) \/ RecvFrom(i) \/ SendFails(i)
           \/ SendOneshot
           \/ Destroy \/ DestroyNext \/ DestroyFree
  BY <1>4 DEF Close, Recv, RecvFrom, SendFails, SendOneshot, Destroy, DestroyNext, DestroyFree
<1>5. CASE \E ids \in IdLists : RecvFromAll(ids) \/ RecvFromAllPollFails(ids)
  BY <1>5, IdListType DEF RecvFromAllPollFails
<1>6. CASE RecvFromAllNext \/ RecvFromAllDone
  BY <1>6 DEF RecvFromAllDone
<1>7. CASE Finished \/ UNCHANGED connVars
  BY <1>7 DEF Finished, connVars
<1>8. QED BY <1>1, <1>2, <1>3, <1>4, <1>5, <1>6, <1>7 DEF ConnsNext, ConnsCalls

\* Every step keeps the answers true: the loop changes only the slot and the socket
\* of the id it reads, and two connections do not share one.
LEMMA PollNext ==
  ASSUME SafeInv, PollAnswersHold, [ConnsNext]_connVars
  PROVE  PollAnswersHold'
<1>0. /\ TypeInv /\ conns \in [Slots -> ConnectionData]
      /\ inbox \in [Fds -> Seq(Datagrams)] /\ open \subseteq Fds
      /\ poll \in [ids : Seq(Slots), ready : Seq(BOOLEAN), i : Nat]
      /\ SocketsOwned
  BY DEF SafeInv, TypeInv, ConnsTypeOK
<1> SUFFICES ASSUME pc' = "recv_all", Len(poll'.ready) = Len(poll'.ids),
                    IsInjective(poll'.ids),
                    NEW k \in poll'.i .. Len(poll'.ready), poll'.ready[k]
             PROVE  /\ conns'[poll'.ids[k]].error = "NONE"
                    /\ conns'[poll'.ids[k]].state = "ACTIVE"
                    /\ inbox'[conns'[poll'.ids[k]].socket] # <<>>
  BY DEF PollAnswersHold, Usable
<1>1. ASSUME NEW ids \in Seq(Slots), RecvFromAll(ids)
      PROVE  /\ conns'[poll'.ids[k]].error = "NONE"
             /\ conns'[poll'.ids[k]].state = "ACTIVE"
             /\ inbox'[conns'[poll'.ids[k]].socket] # <<>>
  <2>1. UNCHANGED <<conns, inbox>>
    BY <1>1 DEF RecvFromAll, tableVars, kernelVars
  <2>2. /\ poll'.ids = ids /\ poll'.i = 1 /\ Len(poll'.ready) = Len(ids)
        /\ \A m \in 1 .. Len(ids) :
             /\ Usable(ids[m])
             /\ poll'.ready[m] = (inbox[conns[ids[m]].socket] # <<>>)
    BY <1>0, <1>1, AnswersInOrder
  <2>3. k \in 1 .. Len(ids)
    BY <2>2
  <2>4. Usable(ids[k]) /\ inbox[conns[ids[k]].socket] # <<>>
    BY <2>2, <2>3
  <2>5. QED BY <2>1, <2>2, <2>4 DEF Usable
<1>2. ASSUME pc = "recv_all", poll'.ids = poll.ids, poll'.ready = poll.ready,
             poll'.i >= poll.i, poll'.i \in Nat
      PROVE  /\ k \in poll.i .. Len(poll.ready) /\ k \in 1 .. Len(poll.ids)
             /\ poll.ids[k] \in Slots /\ Usable(poll.ids[k])
             /\ inbox[conns[poll.ids[k]].socket] # <<>>
             /\ conns[poll.ids[k]].socket \in Fds
  <2>1. Len(poll.ready) \in Nat /\ poll.i \in Nat
    BY <1>0
  <2>2. k \in poll.i .. Len(poll.ready)
    BY <1>2, <2>1
  <2>3. Usable(poll.ids[k]) /\ inbox[conns[poll.ids[k]].socket] # <<>>
    BY <1>2, <2>2 DEF PollAnswersHold
  <2>4. k \in 1 .. Len(poll.ids)
    BY <1>0, <1>2, <2>1, <2>2 DEF TypeInv, CallShape
  <2>5. poll.ids[k] \in Slots
    BY <1>0, <2>4
  <2>6. conns[poll.ids[k]].socket \in Fds
    BY <1>0, <2>3, <2>5 DEF SocketsOwned, Usable, Active
  <2>7. QED BY <2>2, <2>3, <2>4, <2>5, <2>6
<1>3. CASE RecvFromAllNext
  <2>1. /\ pc = "recv_all" /\ poll' = [poll EXCEPT !.i = @ + 1]
        /\ poll.i \in Nat /\ poll.i >= 1 /\ poll.i <= Len(poll.ready)
    BY <1>0, <1>3 DEF RecvFromAllNext, TypeInv, CallShape
  <2>2. poll'.ids = poll.ids /\ poll'.ready = poll.ready /\ poll'.i = poll.i + 1
    BY <1>0, <2>1
  <2>3. /\ k \in poll.i .. Len(poll.ready) /\ k \in 1 .. Len(poll.ids)
        /\ poll.ids[k] \in Slots /\ Usable(poll.ids[k])
        /\ inbox[conns[poll.ids[k]].socket] # <<>>
        /\ conns[poll.ids[k]].socket \in Fds
    BY <1>2, <2>1, <2>2
  <2>4. CASE UNCHANGED <<tableVars, kernelVars>>
    BY <2>2, <2>3, <2>4 DEF tableVars, kernelVars, Usable
  <2>5. CASE Receive(poll.ids[poll.i], TRUE)
    <3> DEFINE j == poll.ids[poll.i]
    <3>1. poll.i \in 1 .. Len(poll.ids) /\ j \in Slots
      BY <1>0, <2>1 DEF TypeInv, CallShape
    <3>2. ReadData(j)
      BY <1>0, <2>5, <3>1, ReceiveReadsData
    <3>3. k # poll.i
      BY <2>1, <2>2
    <3>4. poll.ids[k] # j
      <4>1. DOMAIN poll.ids = 1 .. Len(poll.ids)
        BY <1>0
      <4>2. QED BY <2>2, <2>3, <3>1, <3>3, <4>1 DEF IsInjective
    <3> HIDE DEF j
    <3>5. conns'[poll.ids[k]] = conns[poll.ids[k]]
      BY <2>3, <3>2, <3>4 DEF ReadData
    <3>6. conns[j].socket # conns[poll.ids[k]].socket
      BY <1>0, <2>3, <3>1, <3>4 DEF SocketsOwned, Usable, Active
    <3>7. inbox'[conns[poll.ids[k]].socket] = inbox[conns[poll.ids[k]].socket]
      BY <1>0, <2>3, <3>2, <3>6 DEF ReadData
    <3>8. QED BY <2>2, <2>3, <3>5, <3>7 DEF Usable
  <2>6. QED BY <1>3, <2>4, <2>5 DEF RecvFromAllNext
<1>4. CASE Arrive
  <2>1. UNCHANGED <<conns, pc, poll>>
    BY <1>4 DEF Arrive
  <2>2. PICK f \in Fds, d \in Datagrams : inbox' = [inbox EXCEPT ![f] = Append(@, d)]
    BY <1>0, <1>4 DEF Arrive
  <2>3. /\ Usable(poll.ids[k]) /\ conns[poll.ids[k]].socket \in Fds
        /\ inbox[conns[poll.ids[k]].socket] # <<>>
    BY <1>0, <1>2, <2>1
  <2>4. Append(inbox[f], d) # <<>>
    <3>1. inbox[f] \in Seq(Datagrams)
      BY <1>0
    <3> DEFINE q == Append(inbox[f], d)
    <3>2. Len(q) = Len(inbox[f]) + 1 /\ Len(inbox[f]) \in Nat
      BY <3>1
    <3> HIDE DEF q
    <3>3. q # <<>>
      BY <3>2
    <3>4. QED BY <3>3 DEF q
  <2>5. inbox'[conns[poll.ids[k]].socket] # <<>>
    BY <1>0, <2>2, <2>3, <2>4
  <2>6. QED BY <2>1, <2>3, <2>5 DEF Usable
<1>5. CASE UNCHANGED <<conns, inbox, pc, poll>>
  <2>1. Usable(poll.ids[k]) /\ inbox[conns[poll.ids[k]].socket] # <<>>
    BY <1>0, <1>2, <1>5
  <2>2. QED BY <1>5, <2>1 DEF Usable
<1>6. QED BY <1>0, <1>1, <1>3, <1>4, <1>5, RunningAll

-----------------------------------------------------------------------------
(* The destructor's calls of close.                                        *)

\* A frame is popped, and the slots of the frames below it keep their sockets.
LEMMA PopChain ==
  ASSUME TypeInv, FrameChain, DestructorChain, InFreeSlot, PopFrame, cursor' = cursor,
         \A k \in 1 .. Len(stack) - 1 : conns'[stack[k]] = conns[stack[k]],
         pc = "dtor_close" => conns'[cursor] = conns[cursor]
  PROVE  DestructorChain'
<1> DEFINE n == Len(stack)
<1>1. /\ stack \in Seq(Slots \cup Fds \cup {-1}) /\ stack # <<>> /\ n \in Nat \ {0}
      /\ Len(stack') = n - 1
      /\ \A k \in 1 .. n - 1 : stack'[k] = stack[k]
  BY PopType DEF InFreeSlot, PopFrame, TypeInv, ConnsTypeOK
<1>2. /\ returning' = (n > 1)
      /\ pc' = "dtor_close" => n > 1 /\ pc = "dtor_close"
  BY DEF PopFrame
<1>3. ASSUME pc' = "dtor_close"
      PROVE  /\ conns'[cursor'].state = "ACTIVE" /\ stack'[1] = conns'[cursor'].socket
             /\ \A k \in 1 .. Len(stack') : stack'[k] < cursor' =>
                  \E m \in 1 .. k : stack'[m] < cursor' /\ (m = 1 \/ stack'[m - 1] >= cursor')
  <2>1. /\ Active(cursor) /\ stack[1] = conns[cursor].socket
        /\ \A k \in 1 .. n : stack[k] < cursor =>
             \E m \in 1 .. k : stack[m] < cursor /\ (m = 1 \/ stack[m - 1] >= cursor)
    BY <1>2, <1>3 DEF DestructorChain
  <2>2. conns'[cursor'].state = "ACTIVE" /\ stack'[1] = conns'[cursor'].socket
    BY <1>1, <1>2, <1>3, <2>1 DEF Active
  <2>3. ASSUME NEW k \in 1 .. n - 1, stack'[k] < cursor'
        PROVE  \E m \in 1 .. k : stack'[m] < cursor' /\ (m = 1 \/ stack'[m - 1] >= cursor')
    <3>1. k \in 1 .. n /\ stack[k] < cursor
      BY <1>1, <2>3
    <3>2. PICK m \in 1 .. k : stack[m] < cursor /\ (m = 1 \/ stack[m - 1] >= cursor)
      BY <2>1, <3>1
    <3>3. m \in 1 .. n - 1 /\ (m = 1 \/ m - 1 \in 1 .. n - 1)
      BY <1>1, <3>2
    <3>4. QED BY <1>1, <3>2, <3>3
  <2>4. QED BY <1>1, <2>2, <2>3
<1>4. ASSUME returning', NEW k \in 1 .. Len(stack')
      PROVE  stack'[k] # conns'[stack'[Len(stack')]].socket
  <2>1. n - 1 \in 1 .. n - 1 /\ k \in 1 .. n - 1 /\ k # n /\ n \in 1 .. n
    BY <1>1, <1>2, <1>4
  <2>2. stack'[Len(stack')] = stack[n - 1] /\ stack'[k] = stack[k]
    BY <1>1, <2>1
  <2>3. conns'[stack[n - 1]].socket = stack[n]
    BY <2>1 DEF FrameChain
  <2>4. stack[k] # stack[n]
    BY <1>1, <2>1 DEF FrameChain
  <2>5. QED BY <2>2, <2>3, <2>4
<1>5. QED BY <1>3, <1>4 DEF DestructorChain, Active

\* Every step keeps the destructor's chain: a slot whose socket starts the chain is
\* met again only when the recursion overflows, so the loop's slot is not released.
LEMMA ChainNext ==
  ASSUME SafeInv, DestructorChain, [ConnsNext]_connVars
  PROVE  DestructorChain'
<1>0. /\ TypeInv /\ FrameChain /\ conns \in [Slots -> ConnectionData]
      /\ cursor \in 0 .. MAX_CONNECTIONS /\ MAX_CONNECTIONS \in Nat
      /\ Slots = 0 .. MAX_CONNECTIONS - 1
      /\ pc \in {"dtor_close", "dtor_free"} => cursor \in Slots
      /\ pc \in {"idle", "dtor_next", "dtor_free", "recv_all"} => stack = <<>> /\ ~returning
  <2>1. TypeInv /\ FrameChain
    BY DEF SafeInv
  <2>2. conns \in [Slots -> ConnectionData] /\ cursor \in 0 .. MAX_CONNECTIONS
    BY <2>1 DEF TypeInv, ConnsTypeOK
  <2>3. MAX_CONNECTIONS \in Nat /\ Slots = 0 .. MAX_CONNECTIONS - 1
    BY ConnsAssumption DEF Slots
  <2>4. /\ pc \in {"dtor_close", "dtor_free"} => cursor \in Slots
        /\ pc \in {"idle", "dtor_next", "dtor_free", "recv_all"} => stack = <<>> /\ ~returning
    <3>1. /\ pc \in {"dtor_close", "dtor_free"} => cursor < MAX_CONNECTIONS
          /\ pc \in {"idle", "dtor_next", "dtor_free", "recv_all"} => stack = <<>> /\ ~returning
      BY <2>1 DEF TypeInv, CallShape
    <3>2. cursor < MAX_CONNECTIONS => cursor \in Slots
      BY <2>2, <2>3
    <3>3. QED BY <3>1, <3>2
  <2>5. QED BY <2>1, <2>2, <2>3, <2>4
<1>1. ASSUME ~returning', pc' # "dtor_close"
      PROVE  DestructorChain'
  BY <1>1 DEF DestructorChain
<1>2. ASSUME NEW i \in Slots, NEW b, SlotTaken(i, b)
      PROVE  DestructorChain'
  BY <1>0, <1>1, <1>2 DEF SlotTaken, TakeSlot
<1>3. ASSUME NEW i \in Slots, SlotRead(i), pc' = pc, pc \in {"idle", "recv_all"}
      PROVE  DestructorChain'
  BY <1>0, <1>1, <1>3 DEF SlotRead
<1>4. CASE Quiet
  <2>1. /\ UNCHANGED <<stack, returning, cursor>>
        /\ pc' = "dtor_close" => pc = "dtor_close"
        /\ \A j \in Slots : conns'[j].socket = conns[j].socket /\ conns'[j].state = conns[j].state
    BY <1>4 DEF Quiet, SameBut
  <2>2. returning => Len(stack) \in 1 .. Len(stack) /\ stack[Len(stack)] \in Slots
    BY <1>0 DEF TypeInv, ConnsTypeOK, CallShape
  <2>3. QED BY <1>0, <2>1, <2>2 DEF DestructorChain, Active
<1>5. CASE CloseBegins \/ Destroy \/ DestroyFree
  BY <1>0, <1>1, <1>5 DEF CloseBegins, Destroy, DestroyFree
<1>6. CASE DestroyNext
  <2>1. UNCHANGED <<conns, returning>> /\ ~returning
    BY <1>0, <1>6 DEF DestroyNext, tableVars
  <2>2. CASE pc' # "dtor_close"
    BY <1>1, <2>1, <2>2
  <2>3. CASE pc' = "dtor_close"
    <3>1. /\ cursor' = cursor /\ conns[cursor].state # "FREE" /\ cursor \in Slots
          /\ stack' = <<conns[cursor].socket>>
      BY <1>0, <1>6, <2>3 DEF DestroyNext
    <3>2. conns[cursor].state = "ACTIVE"
      BY <1>0, <3>1 DEF ConnectionData
    <3>3. Len(stack') = 1 /\ stack'[1] = conns[cursor].socket
      BY <3>1
    <3>4. QED BY <2>1, <3>1, <3>2, <3>3 DEF DestructorChain, Active
  <2>4. QED BY <2>2, <2>3
<1>7. CASE FreeSlot
  <2>0. /\ InFreeSlot /\ cursor' = cursor
        /\ stack \in Seq(Slots \cup Fds \cup {-1}) /\ stack # <<>>
        /\ Last(stack) = stack[Len(stack)] /\ Len(stack) \in Nat \ {0}
    BY <1>0, <1>7, FreeSlotKinds, PopType DEF InFreeSlot, TypeInv, ConnsTypeOK
  <2>1. CASE FreeSlotSkip
    <3>1. PopFrame /\ conns' = conns
      BY <2>1 DEF FreeSlotSkip, tableVars
    <3>2. QED BY <1>0, <2>0, <3>1, PopChain
  <2>2. CASE FreeSlotRelease
    <3> DEFINE i == Last(stack)
    <3>1. /\ i \in Slots /\ PopFrame /\ returning
          /\ conns' = [conns EXCEPT ![i] = FreshConnection]
      BY <1>0, <2>2, ReleasedSlot DEF FreeSlotRelease
    <3>2. \A k \in 1 .. Len(stack) - 1 : stack[k] # i
      BY <1>0, <2>0 DEF FrameChain
    <3>3. \A k \in 1 .. Len(stack) - 1 : conns'[stack[k]] = conns[stack[k]]
      BY <1>0, <3>1, <3>2
    <3>4. pc = "dtor_close" => i # cursor
      BY <2>0, <3>1 DEF DestructorChain
    <3>5. pc = "dtor_close" => conns'[cursor] = conns[cursor]
      BY <1>0, <3>1, <3>4
    <3>6. QED BY <1>0, <2>0, <3>1, <3>3, <3>5, PopChain
  <2>3. CASE FreeSlotOutOfBounds \/ FreeSlotDoubleFree
    <3>1. UNCHANGED <<conns, stack, returning>> /\ pc' # "dtor_close"
      BY <2>3 DEF FreeSlotOutOfBounds, FreeSlotDoubleFree, tableVars, callVars
    <3>2. QED BY <3>1 DEF DestructorChain
  <2>4. CASE FreeSlotRecurse
    <3> DEFINE s == conns[Last(stack)].socket
    <3>1. /\ ~returning' /\ conns' = conns /\ s \in Fds \cup {-1}
          /\ pc' \in {pc, "stack_overflow"}
      BY <1>0, <2>4 DEF FreeSlotRecurse, tableVars, ConnectionData
    <3>2. CASE pc' # "dtor_close"
      BY <1>1, <3>1, <3>2
    <3>3. CASE pc' = "dtor_close"
      <4>1. pc = "dtor_close" /\ stack' = Append(stack, s)
        BY <2>4, <3>1, <3>3 DEF FreeSlotRecurse
      <4>2. s \in Int /\ cursor \in Int /\ \A k \in 1 .. Len(stack) : stack[k] \in Int
        <5>1. Slots \cup Fds \cup {-1} \subseteq Int
          BY <1>0, ConnsAssumption
        <5>2. \A k \in 1 .. Len(stack) : stack[k] \in Slots \cup Fds \cup {-1}
          BY <2>0
        <5>3. s \in Int
          BY <3>1, <5>1
        <5> HIDE DEF s
        <5>4. QED BY <1>0, <5>1, <5>2, <5>3
      <4> HIDE DEF s
      <4>3. /\ Len(stack') = Len(stack) + 1
            /\ stack'[Len(stack) + 1] = s
            /\ \A k \in 1 .. Len(stack) : stack'[k] = stack[k]
        BY <2>0, <3>1, <4>1
      <4>4. /\ Active(cursor) /\ stack[1] = conns[cursor].socket
            /\ \A k \in 1 .. Len(stack) : stack[k] < cursor =>
                 \E m \in 1 .. k : stack[m] < cursor /\ (m = 1 \/ stack[m - 1] >= cursor)
        BY <4>1 DEF DestructorChain
      <4>5. ASSUME NEW k \in 1 .. Len(stack), stack[k] < cursor
            PROVE  \E m \in 1 .. k : stack'[m] < cursor /\ (m = 1 \/ stack'[m - 1] >= cursor)
        <5>1. PICK m \in 1 .. k : stack[m] < cursor /\ (m = 1 \/ stack[m - 1] >= cursor)
          BY <4>4, <4>5
        <5>2. m \in 1 .. Len(stack) /\ (m = 1 \/ m - 1 \in 1 .. Len(stack))
          BY <2>0, <5>1
        <5>3. QED BY <4>3, <5>1, <5>2
      <4>6. ASSUME NEW k \in 1 .. Len(stack'), stack'[k] < cursor
            PROVE  \E m \in 1 .. k : stack'[m] < cursor /\ (m = 1 \/ stack'[m - 1] >= cursor)
        <5>1. CASE k \in 1 .. Len(stack)
          BY <4>3, <4>5, <4>6, <5>1
        <5>2. CASE k \notin 1 .. Len(stack)
          <6>1. k = Len(stack) + 1 /\ Len(stack) \in 1 .. Len(stack)
            BY <2>0, <4>3, <5>2
          <6>2. CASE stack[Len(stack)] < cursor
            <7>1. PICK m \in 1 .. Len(stack) :
                    stack'[m] < cursor /\ (m = 1 \/ stack'[m - 1] >= cursor)
              BY <4>5, <6>1, <6>2
            <7>2. m \in 1 .. k
              BY <2>0, <6>1
            <7>3. QED BY <7>1, <7>2
          <6>3. CASE ~(stack[Len(stack)] < cursor)
            <7>1. stack'[k - 1] >= cursor /\ k \in 1 .. k
              BY <2>0, <4>2, <4>3, <6>1, <6>3
            <7>2. QED BY <4>6, <7>1
          <6>4. QED BY <6>2, <6>3
        <5>3. QED BY <5>1, <5>2
      <4>7. stack'[1] = conns'[cursor].socket
        BY <2>0, <3>1, <4>3, <4>4
      <4>8. QED BY <2>0, <3>1, <4>4, <4>6, <4>7 DEF DestructorChain, Active
    <3>4. QED BY <3>2, <3>3
  <2>5. QED BY <1>7, <2>1, <2>2, <2>3, <2>4 DEF FreeSlot
<1>8. QED BY <1>0, <1>2, <1>3, <1>4, <1>5, <1>6, <1>7, StepKinds

\* A frame meets a block that was freed before only behind the destructor's loop,
\* and somewhere the chain that led there went back over the loop index.
LEMMA DoubleFreeNext ==
  ASSUME SafeInv, DestructorChain, DoubleFreeMeansBackLink, [ConnsNext]_connVars
  PROVE  DoubleFreeMeansBackLink'
<1>0. /\ TypeInv /\ FrameChain /\ BlockOwnership
      /\ cursor \in 0 .. MAX_CONNECTIONS /\ MAX_CONNECTIONS \in Nat
      /\ Slots = 0 .. MAX_CONNECTIONS - 1
      /\ pc \in {"dtor_close", "dtor_free"} => cursor \in Slots
      /\ pc \in {"idle", "close", "recv_all"} => cursor = 0
  BY ConnsAssumption DEF SafeInv, TypeInv, ConnsTypeOK, CallShape, Slots, DestructorLoop
<1> SUFFICES ASSUME pc' = "double_free"
             PROVE  \E p, q \in Slots : /\ p < cursor' /\ p < q
                                        /\ conns'[p].state = "ACTIVE"
                                        /\ conns'[q].state = "ACTIVE"
                                        /\ conns'[q].socket = p
  BY DEF DoubleFreeMeansBackLink, Active
<1>1. CASE FreeSlotDoubleFree
  <2> DEFINE n == Len(stack)
  <2>1. /\ stack[n] \in Slots /\ Active(stack[n]) /\ n \in Nat \ {0} /\ Last(stack) = stack[n]
        /\ pc \in {"close", "dtor_close"} /\ returning
    BY <1>0, <1>1, ReleasedSlot DEF FreeSlotDoubleFree, InFreeSlot
  <2>2. stack[n] < cursor
    BY <1>0, <1>1, <2>1 DEF FreeSlotDoubleFree, DoubleFree, BlockOwnership
  <2>3. pc = "dtor_close" /\ cursor \in Slots
    BY <1>0, <2>1, <2>2
  <2>4. UNCHANGED <<conns, cursor>>
    BY <1>1 DEF FreeSlotDoubleFree, tableVars, callVars
  <2>5. PICK m \in 1 .. n : stack[m] < cursor /\ (m = 1 \/ stack[m - 1] >= cursor)
    BY <2>1, <2>2, <2>3 DEF DestructorChain
  <2>6. \A k \in 1 .. n : stack[k] \in Slots /\ Active(stack[k])
    BY <1>0, <2>1 DEF FrameChain
  <2>7. CASE m = 1
    <3>1. stack[1] = conns[cursor].socket /\ Active(cursor)
      BY <2>3 DEF DestructorChain
    <3>2. QED BY <2>3, <2>4, <2>5, <2>6, <2>7, <3>1 DEF Active
  <2>8. CASE m # 1
    <3>1. m - 1 \in 1 .. n - 1 /\ m - 1 \in 1 .. n /\ (m - 1) + 1 = m
      BY <2>1, <2>8
    <3>2. conns[stack[m - 1]].socket = stack[m]
      BY <1>0, <3>1 DEF FrameChain
    <3>3. stack[m] < stack[m - 1]
      BY <1>0, <2>5, <2>6, <2>8, <3>1
    <3>4. QED BY <2>4, <2>5, <2>6, <3>1, <3>2, <3>3 DEF Active
  <2>9. QED BY <2>7, <2>8
<1>2. CASE DestroyFree
  <2>1. cursor \in Slots /\ DoubleFree(conns[cursor].recv_buffer)
    BY <1>0, <1>2 DEF DestroyFree
  <2>2. cursor < cursor
    BY <1>0, <2>1 DEF DoubleFree, BlockOwnership
  <2>3. QED BY <1>0, <2>2
<1>3. CASE pc = "double_free" /\ UNCHANGED <<conns, cursor>>
  BY <1>3 DEF DoubleFreeMeansBackLink, Active
<1>4. FreeSlotDoubleFree \/ DestroyFree \/ (pc = "double_free" /\ UNCHANGED <<conns, cursor>>)
  <2> USE DEF tableVars, kernelVars, callVars, Ended
  <2>1. CASE Create \/ Serve
    BY <1>0, <2>1, CreateTakes DEF SlotTaken, TakeSlot
  <2>2. CASE Environment
    BY <2>2 DEF Environment, ForeignOpen, ForeignClose, Arrive
  <2>3. CASE FreeSlot
    BY <2>3 DEF FreeSlot, FreeSlotOutOfBounds, FreeSlotSkip, FreeSlotRecurse,
                FreeSlotRelease, PopFrame, InFreeSlot
  <2>4. CASE \/ \E i \in Slots : Close(i) \/ Recv(i) \/ RecvFrom(i) \/ SendFails(i)
             \/ SendOneshot
             \/ Destroy \/ DestroyNext \/ DestroyFree
    BY <2>4 DEF Close, Recv, RecvFrom, SendFails, SendOneshot, Destroy, DestroyNext
  <2>5. CASE \/ \E ids \in IdLists : RecvFromAll(ids) \/ RecvFromAllPollFails(ids)
             \/ RecvFromAllNext \/ RecvFromAllDone
    BY <2>5 DEF RecvFromAll, RecvFromAllPollFails, RecvFromAllNext, RecvFromAllDone
  <2>6. CASE Finished \/ UNCHANGED connVars
    BY <2>6 DEF Finished, connVars
  <2>7. QED BY <2>1, <2>2, <2>3, <2>4, <2>5, <2>6 DEF ConnsNext, ConnsCalls
<1>5. QED BY <1>1, <1>2, <1>3, <1>4

-----------------------------------------------------------------------------
(* The theorems.                                                           *)

\* A pool just constructed satisfies the invariant.
LEMMA RecvInit == ConnsInit => RecvInv
<1> SUFFICES ASSUME ConnsInit PROVE RecvInv
  OBVIOUS
<1>1. \A i \in Slots : conns[i] = FreshConnection
  BY DEF ConnsInit
<1>2. \A i \in Slots : conns[i].data_len = 0 /\ conns[i].state = "FREE"
  BY <1>1 DEF FreshConnection
<1>3. IdleEmpty /\ SpanInBuffer /\ PeerNamed
  BY <1>2 DEF IdleEmpty, SpanInBuffer, PeerNamed, Active
<1>4. InboxSorted
  <2>1. \A f \in Fds : inbox[f] = <<>> /\ Len(inbox[f]) = 0
    BY DEF ConnsInit
  <2>2. QED BY <2>1 DEF InboxSorted
<1>5. PollAnswersHold /\ DestructorChain /\ DoubleFreeMeansBackLink
  BY DEF ConnsInit, PollAnswersHold, DestructorChain, DoubleFreeMeansBackLink
<1>6. QED BY <1>3, <1>4, <1>5 DEF RecvInv

\* Every step preserves it.
LEMMA RecvNext == SafeInv /\ RecvInv /\ [ConnsNext]_connVars => RecvInv'
  BY InboxNext, DataNext, PollNext, ChainNext, DoubleFreeNext DEF RecvInv

\* The invariant holds in every state of the table.
LEMMA RecvAlways == ConnsSpec => []RecvInv
  BY RecvInit, RecvNext, SafeAlways, PTL DEF ConnsSpec

\* The span get_data returns on a connection without an error lies in a live block
\* that is large enough, whatever lengths FIONREAD announced before the reads.
THEOREM SpanCorrect == ConnsSpec => []SpanInBuffer
<1>1. RecvInv => SpanInBuffer
  BY DEF RecvInv
<1>2. QED BY <1>1, RecvAlways, PTL

\* On a connected socket get_from names the sender of what get_data returns,
\* whether recv or recv_from read it.
THEOREM SenderCorrect == ConnsSpec => []FromIsSender
<1>1. RecvInv => FromIsSender
  BY DEF RecvInv, PeerNamed, FromIsSender, Usable, Active
<1>2. QED BY <1>1, RecvAlways, PTL

\* recv_from_all acts on answers of poll that still hold, although datagrams arrive
\* and other ids are read in between.
THEOREM PollCorrect == ConnsSpec => []PollAnswersHold
<1>1. RecvInv => PollAnswersHold
  BY DEF RecvInv
<1>2. QED BY <1>1, RecvAlways, PTL

\* A block is freed twice only when the destructor has passed a slot and a
\* connection behind it has that slot's number as its descriptor.
THEOREM DoubleFreeCorrect == ConnsSpec => []DoubleFreeMeansBackLink
<1>1. RecvInv => DoubleFreeMeansBackLink
  BY DEF RecvInv
<1>2. QED BY <1>1, RecvAlways, PTL
=============================================================================
