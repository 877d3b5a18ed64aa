--------------------------- MODULE UDPConnsProofs ---------------------------
(***************************************************************************)
(* Proofs about the connection table, for every number of slots and        *)
(* descriptors and every bound.                                            *)
(***************************************************************************)
EXTENDS UDPConns, FiniteSetTheorems, TLAPS

\* What the type of the variables rests on: which calls have frames, that a
\* frame that called close has a slot, and where the loops stand.
CallShape ==
  /\ pc \in {"close", "dtor_close"} => stack # <<>>
  /\ pc \in {"idle", "dtor_next", "dtor_free", "recv_all"} => stack = <<>> /\ ~returning
  /\ returning => stack # <<>>
  /\ \A k \in 1 .. Len(stack) : k < Len(stack) \/ returning => stack[k] \in Slots
  /\ pc \in {"dtor_close", "dtor_free"} => cursor < MAX_CONNECTIONS
  /\ Len(poll.ready) <= Len(poll.ids)
  /\ pc = "recv_all" => poll.i >= 1

TypeInv == ConnsTypeOK /\ CallShape

-----------------------------------------------------------------------------
(* Sequences.                                                              *)

\* Popping a sequence that is not empty.
LEMMA PopType ==
  ASSUME NEW S, NEW s \in Seq(S), s # <<>>
  PROVE  /\ Last(s) \in S
         /\ Last(s) = s[Len(s)]
         /\ Front(s) \in Seq(S)
         /\ Len(Front(s)) = Len(s) - 1
         /\ Len(s) \in Nat \ {0}
         /\ \A k \in 1 .. Len(s) - 1 : Front(s)[k] = s[k]
<1>1. Len(s) \in Nat \ {0}
  OBVIOUS
<1>2. Front(s) \in Seq(S) /\ Len(Front(s)) = Len(s) - 1
  <2>1. \A k \in 1 .. Len(s) - 1 : s[k] \in S
    BY <1>1
  <2>2. Front(s) = [k \in 1 .. Len(s) - 1 |-> s[k]]
    BY <1>1 DEF Front
  <2>3. QED BY <1>1, <2>1, <2>2
<1>3. \A k \in 1 .. Len(s) - 1 : Front(s)[k] = s[k]
  BY <1>1 DEF Front
<1>4. Last(s) \in S /\ Last(s) = s[Len(s)]
  BY <1>1 DEF Last
<1>5. QED BY <1>1, <1>2, <1>3, <1>4

\* The lists of ids given to recv_from_all are sequences.
LEMMA IdListType == ASSUME NEW ids \in IdLists PROVE ids \in Seq(Slots)
  BY ConnsAssumption DEF IdLists, BoundedSeq, SeqOf

\* There are at most as many usable ids as ids.
LEMMA PolledBound ==
  ASSUME NEW ids \in Seq(Slots), NEW P \in SUBSET (1 .. Len(ids))
  PROVE  Cardinality(P) \in Nat /\ Cardinality(P) <= Len(ids)
<1>1. IsFiniteSet(1 .. Len(ids)) /\ Cardinality(1 .. Len(ids)) = Len(ids)
  <2>1. Len(ids) \in Nat
    OBVIOUS
  <2>2. /\ IsFiniteSet(1 .. Len(ids))
        /\ Cardinality(1 .. Len(ids)) = IF 1 > Len(ids) THEN 0 ELSE Len(ids) - 1 + 1
    <3>1. 1 \in Int /\ Len(ids) \in Int
      BY <2>1
    <3>2. QED BY <3>1, FS_Interval, Zenon
  <2>3. QED BY <2>1, <2>2
<1>2. QED BY <1>1, FS_Subset, FS_CardinalityType

\* As many elements are picked as there are positions.
LEMMA PickedLen ==
  ASSUME NEW s, NEW P, Cardinality(P) \in Nat
  PROVE  /\ Len(Picked(s, P)) = Cardinality(P)
         /\ \A k \in 1 .. Cardinality(P) : Picked(s, P)[k] = s[Nth(P, k)]
  BY DEF Picked

-----------------------------------------------------------------------------
(* Types.                                                                  *)

\* A slot that was reset is well typed.
LEMMA FreshType == FreshConnection \in ConnectionData
  BY ConnsAssumption DEF FreshConnection, ConnectionData, Errors

\* A pool just constructed is well typed.
LEMMA TypeInit == ConnsInit => TypeInv
<1> SUFFICES ASSUME ConnsInit PROVE TypeInv
  OBVIOUS
<1> USE ConnsAssumption DEF ConnsInit
<1>1. conns \in [Slots -> ConnectionData]
  BY FreshType
<1>2. free_indices \in Seq(Slots)
  BY DEF Slots
<1>3. poll \in [ids : Seq(Slots), ready : Seq(BOOLEAN), i : Nat]
  BY DEF NoPoll
<1>4. ConnsTypeOK
  <2>1. cursor \in 0 .. MAX_CONNECTIONS
    OBVIOUS
  <2>2. peer \in [Fds -> Addrs \cup {NULL}] /\ inbox \in [Fds -> Seq(Datagrams)]
    OBVIOUS
  <2>3. pc \in Pcs /\ stack \in Seq(Slots \cup Fds \cup {-1})
    BY DEF Pcs
  <2>4. heap \subseteq Bufs /\ open \subseteq Fds /\ foreign \subseteq Fds /\ blocking \subseteq Fds
    OBVIOUS
  <2>6. returning \in BOOLEAN
    OBVIOUS
  <2>5. QED BY <1>1, <1>2, <1>3, <2>1, <2>2, <2>3, <2>4, <2>6 DEF ConnsTypeOK
<1>5. CallShape
  BY DEF CallShape, NoPoll
<1>6. QED BY <1>4, <1>5 DEF TypeInv

\* A record that differs from a connection in some fields is a connection.
LEMMA BufferUpdate ==
  ASSUME NEW c \in ConnectionData, NEW b \in Bufs \cup {NULL}, NEW n \in Nat
  PROVE  [c EXCEPT !.recv_buffer = b, !.max_packet_size = n] \in ConnectionData
  BY DEF ConnectionData

\* The same for an assignment to error.
LEMMA ErrorUpdate ==
  ASSUME NEW c \in ConnectionData, NEW e \in Errors
  PROVE  [c EXCEPT !.error = e] \in ConnectionData
  BY DEF ConnectionData

\* The same for a create or serve that fails with a socket in hand.
LEMMA SocketUpdate ==
  ASSUME NEW c \in ConnectionData, NEW f \in Fds \cup {-1}, NEW e \in Errors
  PROVE  [c EXCEPT !.socket = f, !.error = e] \in ConnectionData
  BY DEF ConnectionData

\* The same for a create or serve that succeeds.
LEMMA ActiveUpdate ==
  ASSUME NEW c \in ConnectionData, NEW f \in Fds, NEW a \in Addrs \cup {NULL}
  PROVE  [c EXCEPT !.socket = f, !.state = "ACTIVE",
                   !.from = IF a = NULL THEN @ ELSE a] \in ConnectionData
  BY DEF ConnectionData

\* alloc_slot and malloc.
LEMMA TakeSlotType ==
  ASSUME TypeInv, NEW i \in Slots, NEW b, TakeSlot(i, b)
  PROVE  /\ free_indices' \in Seq(Slots)
         /\ heap' \subseteq Bufs
         /\ WithBuffer(i, b) \in ConnectionData
         /\ pc = "idle"
         /\ stack = <<>> /\ ~returning
<1>1. free_indices' \in Seq(Slots)
  BY PopType DEF TypeInv, ConnsTypeOK, TakeSlot
<1>2. heap' \subseteq Bufs /\ b \in Bufs \cup {NULL}
  BY DEF TypeInv, ConnsTypeOK, TakeSlot
<1>3. conns[i] \in ConnectionData
  BY DEF TypeInv, ConnsTypeOK
<1>4. WithBuffer(i, b) \in ConnectionData
  BY <1>2, <1>3, BufferUpdate, ConnsAssumption DEF WithBuffer
<1>5. QED BY <1>1, <1>2, <1>4 DEF TypeInv, CallShape, TakeSlot

\* A step that gives slot i the record c, leaves the call's variables alone and
\* keeps the other types preserves the types.
LEMMA TableStepType ==
  ASSUME TypeInv, NEW i \in Slots, NEW c \in ConnectionData,
         conns' = [conns EXCEPT ![i] = c],
         free_indices' \in Seq(Slots), heap' \subseteq Bufs, open' \subseteq Fds,
         blocking' \subseteq Fds, peer' \in [Fds -> Addrs \cup {NULL}],
         inbox' \in [Fds -> Seq(Datagrams)],
         UNCHANGED <<foreign, pc, callVars>>
  PROVE  TypeInv'
<1> USE DEF callVars
<1>1. conns' \in [Slots -> ConnectionData]
  BY DEF TypeInv, ConnsTypeOK
<1>2. ConnsTypeOK'
  BY <1>1 DEF TypeInv, ConnsTypeOK
<1>3. CallShape'
  BY DEF TypeInv, CallShape
<1>4. QED BY <1>2, <1>3 DEF TypeInv

\* The calls of create and serve that fail.
LEMMA CreateFailsType ==
  ASSUME TypeInv, NEW i \in Slots, NEW b, NEW f \in Fds,
         NEW e \in {"CONNECT_FAILED", "BIND_FAILED"},
         \/ CreateUnresolved(i, b)
         \/ CreateNoSocket(i, b)
         \/ CreateRefused(i, b, f, e)
  PROVE  TypeInv'
<1> USE DEF kernelVars, callVars
<1>1. TakeSlot(i, b)
  BY DEF CreateUnresolved, CreateNoSocket, CreateRefused
<1>2. /\ free_indices' \in Seq(Slots)
      /\ heap' \subseteq Bufs
      /\ WithBuffer(i, b) \in ConnectionData
  BY <1>1, TakeSlotType
<1>3. CASE CreateUnresolved(i, b)
  <2> DEFINE c == [WithBuffer(i, b) EXCEPT !.error = "INVALID_ADDR"]
  <2>1. c \in ConnectionData
    BY <1>2, ErrorUpdate DEF Errors
  <2>2. conns' = [conns EXCEPT ![i] = c] /\ UNCHANGED <<kernelVars, callVars, pc>>
    BY <1>3 DEF CreateUnresolved
  <2> HIDE DEF c
  <2>3. QED BY <1>2, <2>1, <2>2, TableStepType DEF TypeInv, ConnsTypeOK
<1>4. CASE CreateNoSocket(i, b)
  <2> DEFINE c == [WithBuffer(i, b) EXCEPT !.socket = -1, !.error = "SOCKET_CREATION_FAILED"]
  <2>1. c \in ConnectionData
    BY <1>2, SocketUpdate DEF Errors
  <2>2. conns' = [conns EXCEPT ![i] = c] /\ UNCHANGED <<kernelVars, callVars, pc>>
    BY <1>4 DEF CreateNoSocket
  <2> HIDE DEF c
  <2>3. QED BY <1>2, <2>1, <2>2, TableStepType DEF TypeInv, ConnsTypeOK
<1>5. CASE CreateRefused(i, b, f, e)
  <2> DEFINE c == [WithBuffer(i, b) EXCEPT !.socket = f, !.error = e]
  <2>1. c \in ConnectionData
    BY <1>2, SocketUpdate DEF Errors
  <2>2. conns' = [conns EXCEPT ![i] = c] /\ UNCHANGED <<foreign, peer, inbox, callVars, pc>>
    BY <1>5 DEF CreateRefused
  <2>3. open' \subseteq Fds /\ blocking' \subseteq Fds
    BY <1>5 DEF CreateRefused, TypeInv, ConnsTypeOK
  <2> HIDE DEF c
  <2>4. QED BY <1>2, <2>1, <2>2, <2>3, TableStepType DEF TypeInv, ConnsTypeOK
<1>6. QED BY <1>3, <1>4, <1>5

\* create and serve with success: init_socket may mark another slot, or write
\* outside the table.
LEMMA CreateActiveType ==
  ASSUME TypeInv, NEW i \in Slots, NEW b, NEW f \in Fds, NEW a \in Addrs \cup {NULL},
         NEW connect \in BOOLEAN, NEW getfl \in BOOLEAN,
         CreateActive(i, b, f, a, connect, getfl)
  PROVE  TypeInv'
<1> USE DEF callVars
<1> DEFINE c    == [WithBuffer(i, b) EXCEPT !.socket = f, !.state = "ACTIVE",
                                            !.from = IF a = NULL THEN @ ELSE a]
           made == [conns EXCEPT ![i] = c]
<1>1. TakeSlot(i, b)
  BY DEF CreateActive
<1>2. /\ free_indices' \in Seq(Slots)
      /\ heap' \subseteq Bufs
      /\ WithBuffer(i, b) \in ConnectionData
      /\ pc = "idle"
  BY <1>1, TakeSlotType
<1>3. c \in ConnectionData
  BY <1>2, ActiveUpdate
<1>4. /\ open' \subseteq Fds
      /\ peer' \in [Fds -> Addrs \cup {NULL}]
      /\ blocking' \subseteq Fds
      /\ pc' \in {"idle", "out_of_bounds"}
      /\ UNCHANGED <<foreign, inbox, stack, returning, cursor, poll>>
  <2>1. open' = open \cup {f} /\ peer' = [peer EXCEPT ![f] = IF connect THEN a ELSE NULL]
    BY DEF CreateActive
  <2>2. blocking' \in {blocking, blocking \cup {f}} /\ pc' \in {pc, "out_of_bounds"}
    BY DEF CreateActive
  <2>3. UNCHANGED <<foreign, inbox, stack, returning, cursor, poll>>
    BY DEF CreateActive
  <2>4. QED BY <1>2, <2>1, <2>2, <2>3 DEF TypeInv, ConnsTypeOK
<1>5. conns' \in {made, InitSocketError(made, f)}
  BY DEF CreateActive
<1> HIDE DEF c
<1>6. made \in [Slots -> ConnectionData]
  BY <1>3 DEF TypeInv, ConnsTypeOK
<1>7. conns' \in [Slots -> ConnectionData]
  <2>1. CASE f \in Slots
    <3>1. [made[f] EXCEPT !.error = "ASYNCIFY_FAILED"] \in ConnectionData
      BY <1>6, <2>1, ErrorUpdate DEF Errors
    <3>2. InitSocketError(made, f) = [made EXCEPT ![f] = [made[f] EXCEPT !.error = "ASYNCIFY_FAILED"]]
      BY <2>1, <1>6 DEF InitSocketError
    <3> HIDE DEF made
    <3>3. QED BY <1>5, <1>6, <3>1, <3>2
  <2>2. CASE f \notin Slots
    BY <2>2, <1>5, <1>6 DEF InitSocketError
  <2>3. QED BY <2>1, <2>2
<1>8. ConnsTypeOK'
  BY <1>2, <1>4, <1>7 DEF TypeInv, ConnsTypeOK, Pcs, Ended
<1>9. CallShape'
  BY <1>2, <1>4 DEF TypeInv, CallShape
<1>10. QED BY <1>8, <1>9 DEF TypeInv

\* The rest of the process and the network.
LEMMA EnvironmentType ==
  ASSUME TypeInv, Environment
  PROVE  TypeInv'
<1>1. CASE ForeignOpen
  BY <1>1, ConnsAssumption DEF ForeignOpen, TypeInv, ConnsTypeOK, CallShape
<1>2. CASE ForeignClose
  BY <1>2 DEF ForeignClose, TypeInv, ConnsTypeOK, CallShape
<1>3. CASE Arrive
  <2>1. inbox' \in [Fds -> Seq(Datagrams)]
    <3>1. PICK f \in Fds, d \in Datagrams : inbox' = [inbox EXCEPT ![f] = Append(@, d)]
      BY <1>3 DEF Arrive, TypeInv, ConnsTypeOK
    <3>2. inbox \in [Fds -> Seq(Datagrams)] /\ Append(inbox[f], d) \in Seq(Datagrams)
      BY DEF TypeInv, ConnsTypeOK
    <3>3. QED BY <3>1, <3>2
  <2>2. UNCHANGED <<conns, free_indices, heap, open, foreign, peer, blocking, pc, stack,
                    returning, cursor, poll>>
    BY <1>3 DEF Arrive
  <2>3. QED BY <2>1, <2>2 DEF TypeInv, ConnsTypeOK, CallShape
<1>4. QED BY <1>1, <1>2, <1>3 DEF Environment

\* The calls that start free_slot, and the destructor's own steps.
LEMMA CloseType ==
  ASSUME TypeInv,
         (\E i \in Slots : Close(i)) \/ SendOneshot \/ Destroy \/ DestroyNext \/ DestroyFree
  PROVE  TypeInv'
<1> USE ConnsAssumption DEF tableVars, kernelVars
<1>1. CASE \E i \in Slots : Close(i)
  <2>1. PICK i \in Slots : pc = "idle" /\ pc' = "close" /\ stack' = <<i>>
    BY <1>1 DEF Close
  <2>2. UNCHANGED <<tableVars, kernelVars, returning, cursor, poll>>
    BY <1>1 DEF Close
  <2>3. ConnsTypeOK'
    BY <2>1, <2>2 DEF TypeInv, ConnsTypeOK, Pcs
  <2>4. CallShape'
    BY <2>1, <2>2 DEF TypeInv, CallShape
  <2>5. QED BY <2>3, <2>4 DEF TypeInv
<1>2. CASE SendOneshot
  <2>1. PICK f \in Fds : /\ open' = open \cup {f}
                         /\ blocking' = blocking \cup {f}
                         /\ stack' = <<f>>
    BY <1>2 DEF SendOneshot
  <2>2. pc = "idle" /\ pc' = "close" /\ UNCHANGED <<tableVars, foreign, peer, inbox, returning, cursor, poll>>
    BY <1>2 DEF SendOneshot
  <2>3. ConnsTypeOK'
    BY <2>1, <2>2 DEF TypeInv, ConnsTypeOK, Pcs
  <2>4. CallShape'
    BY <2>1, <2>2 DEF TypeInv, CallShape
  <2>5. QED BY <2>3, <2>4 DEF TypeInv
<1>3. CASE Destroy
  BY <1>3 DEF Destroy, TypeInv, ConnsTypeOK, CallShape, Pcs
<1>4. CASE DestroyNext
  <2> USE DEF DestroyNext
  <2>1. CASE cursor = MAX_CONNECTIONS
    BY <1>4, <2>1 DEF TypeInv, ConnsTypeOK, CallShape, Pcs, Ended
  <2>2. CASE cursor # MAX_CONNECTIONS /\ conns[cursor].state = "FREE"
    BY <1>4, <2>2 DEF TypeInv, ConnsTypeOK, CallShape
  <2>3. CASE cursor # MAX_CONNECTIONS /\ conns[cursor].state # "FREE"
    <3>1. cursor \in Slots /\ conns[cursor].socket \in Fds \cup {-1}
      BY <2>3 DEF TypeInv, ConnsTypeOK, Slots, ConnectionData
    <3>2. pc = "dtor_next" /\ pc' = "dtor_close" /\ stack' = <<conns[cursor].socket>>
      BY <1>4, <2>3
    <3>3. UNCHANGED <<tableVars, kernelVars, returning, cursor, poll>>
      BY <1>4, <2>3
    <3>4. ConnsTypeOK'
      BY <3>1, <3>2, <3>3 DEF TypeInv, ConnsTypeOK, Pcs
    <3>5. CallShape'
      BY <3>1, <3>2, <3>3 DEF TypeInv, CallShape, Slots
    <3>6. QED BY <3>4, <3>5 DEF TypeInv
  <2>4. QED BY <2>1, <2>2, <2>3
<1>5. CASE DestroyFree
  BY <1>5 DEF DestroyFree, TypeInv, ConnsTypeOK, CallShape, Pcs, Ended
<1>6. QED BY <1>1, <1>2, <1>3, <1>4, <1>5

\* A free_slot frame returns to the one below it or to the caller.
LEMMA PopFrameType ==
  ASSUME TypeInv, InFreeSlot, PopFrame, UNCHANGED <<cursor, poll>>
  PROVE  /\ stack' \in Seq(Slots \cup Fds \cup {-1})
         /\ returning' \in BOOLEAN
         /\ pc' \in Pcs
         /\ CallShape'
<1>1. stack \in Seq(Slots \cup Fds \cup {-1}) /\ stack # <<>>
  BY DEF TypeInv, ConnsTypeOK, InFreeSlot
<1>2. /\ stack' \in Seq(Slots \cup Fds \cup {-1})
      /\ Len(stack) \in Nat \ {0}
      /\ Len(stack') = Len(stack) - 1
      /\ \A k \in 1 .. Len(stack) - 1 : stack'[k] = stack[k]
  BY <1>1, PopType DEF PopFrame
<1>3. returning' \in BOOLEAN
  BY DEF PopFrame
<1>4. pc' \in Pcs
  BY DEF PopFrame, Pcs, InFreeSlot
<1>5. \A k \in 1 .. Len(stack') : stack'[k] \in Slots
  BY <1>2 DEF TypeInv, CallShape
<1>6. CASE Len(stack) > 1
  <2>1. stack' # <<>>
    BY <1>2, <1>6
  <2>2. returning' /\ pc' = pc
    BY <1>6, Zenon DEF PopFrame
  <2>3. CallShape'
    BY <1>5, <2>1, <2>2 DEF TypeInv, CallShape, InFreeSlot
  <2>4. QED BY <1>2, <1>3, <1>4, <2>3
<1>7. CASE ~(Len(stack) > 1)
  <2>1. stack' = <<>>
    <3>1. Len(stack') = 0
      BY <1>2, <1>7
    <3>2. QED BY <1>2, <3>1
  <2>2. ~returning'
    BY <1>7, Zenon DEF PopFrame
  <2>3. pc' = IF pc = "close" THEN "idle" ELSE "dtor_free"
    BY <1>7 DEF PopFrame
  <2>4. pc \in {"close", "dtor_close"}
    BY DEF InFreeSlot
  <2>5. CallShape'
    BY <1>5, <2>1, <2>2, <2>3, <2>4 DEF TypeInv, CallShape
  <2>6. QED BY <1>2, <1>3, <1>4, <2>5
<1>8. QED BY <1>6, <1>7

\* free_slot.
LEMMA FreeSlotType ==
  ASSUME TypeInv, FreeSlot
  PROVE  TypeInv'
<1> USE DEF tableVars, kernelVars, callVars
<1>0. /\ InFreeSlot
      /\ stack \in Seq(Slots \cup Fds \cup {-1}) /\ stack # <<>>
      /\ Last(stack) = stack[Len(stack)]
      /\ Len(stack) \in Nat \ {0}
  <2>1. InFreeSlot
    BY DEF FreeSlot, FreeSlotOutOfBounds, FreeSlotSkip, FreeSlotRecurse, FreeSlotDoubleFree,
           FreeSlotRelease
  <2>2. QED BY <2>1, PopType DEF InFreeSlot, TypeInv, ConnsTypeOK
<1>1. CASE FreeSlotOutOfBounds
  BY <1>1 DEF FreeSlotOutOfBounds, TypeInv, ConnsTypeOK, CallShape, Pcs, Ended
<1>2. CASE FreeSlotSkip
  <2>1. PopFrame /\ UNCHANGED <<tableVars, kernelVars, cursor, poll>>
    BY <1>2 DEF FreeSlotSkip
  <2>2. QED BY <1>0, <2>1, PopFrameType DEF TypeInv, ConnsTypeOK
<1>3. CASE FreeSlotRecurse
  <2> DEFINE s == conns[Last(stack)].socket
  <2>1. Last(stack) \in Slots /\ s \in Fds \cup {-1} /\ ~returning
    BY <1>3 DEF FreeSlotRecurse, TypeInv, ConnsTypeOK, ConnectionData
  <2>2. UNCHANGED <<tableVars, kernelVars, returning, cursor, poll>>
    BY <1>3 DEF FreeSlotRecurse
  <2>3. CASE s \in ToSet(stack)
    <3>1. pc' = "stack_overflow" /\ stack' = stack
      BY <1>3, <2>3 DEF FreeSlotRecurse
    <3>2. QED BY <2>2, <3>1 DEF TypeInv, ConnsTypeOK, CallShape, Pcs, Ended
  <2>4. CASE s \notin ToSet(stack)
    <3>1. pc' = pc /\ stack' = Append(stack, s)
      BY <1>3, <2>4 DEF FreeSlotRecurse
    <3> HIDE DEF s
    <3>2. /\ stack' \in Seq(Slots \cup Fds \cup {-1})
          /\ stack' # <<>>
          /\ Len(stack') = Len(stack) + 1
          /\ \A k \in 1 .. Len(stack) : stack'[k] = stack[k]
      BY <1>0, <2>1, <3>1
    <3>3. ConnsTypeOK'
      BY <2>2, <3>1, <3>2 DEF TypeInv, ConnsTypeOK
    <3>4. \A k \in 1 .. Len(stack') : k < Len(stack') \/ returning' => stack'[k] \in Slots
      BY <1>0, <2>1, <2>2, <3>2 DEF TypeInv, CallShape
    <3>5. CallShape'
      BY <1>0, <2>1, <2>2, <3>1, <3>2, <3>4 DEF TypeInv, CallShape, InFreeSlot
    <3>6. QED BY <3>3, <3>5 DEF TypeInv
  <2>5. QED BY <2>3, <2>4
<1>4. CASE FreeSlotDoubleFree
  BY <1>4 DEF FreeSlotDoubleFree, TypeInv, ConnsTypeOK, CallShape, Pcs, Ended
<1>5. CASE FreeSlotRelease
  <2>1. PopFrame /\ UNCHANGED <<kernelVars, cursor, poll>>
    BY <1>5 DEF FreeSlotRelease
  <2>2. Last(stack) \in Slots
    BY <1>0, <1>5 DEF FreeSlotRelease, TypeInv, CallShape
  <2>3. conns' \in [Slots -> ConnectionData]
    BY <1>5, <2>2, FreshType DEF FreeSlotRelease, TypeInv, ConnsTypeOK
  <2>4. free_indices' \in Seq(Slots) /\ heap' \subseteq Bufs
    BY <1>5, <2>2 DEF FreeSlotRelease, TypeInv, ConnsTypeOK
  <2>5. QED BY <1>0, <2>1, <2>3, <2>4, PopFrameType DEF TypeInv, ConnsTypeOK
<1>6. QED BY <1>1, <1>2, <1>3, <1>4, <1>5 DEF FreeSlot

\* What reading from a connection does to the table and the kernel.
LEMMA ReceiveType ==
  ASSUME TypeInv, NEW i \in Slots, NEW with_from \in BOOLEAN, Receive(i, with_from)
  PROVE  /\ conns' \in [Slots -> ConnectionData]
         /\ heap' \subseteq Bufs
         /\ inbox' \in [Fds -> Seq(Datagrams)]
         /\ UNCHANGED <<free_indices, open, foreign, peer, blocking>>
<1>0. /\ conns \in [Slots -> ConnectionData] /\ conns[i] \in ConnectionData
      /\ heap \subseteq Bufs /\ inbox \in [Fds -> Seq(Datagrams)]
  BY DEF TypeInv, ConnsTypeOK
<1>1. UNCHANGED <<free_indices, open, foreign, peer, blocking>>
  BY DEF Receive
<1>2. CASE ReceiveNoLength(i)
  BY <1>0, <1>1, <1>2 DEF ReceiveNoLength, ConnectionData, Errors
<1>3. CASE ReceiveNothing(i)
  BY <1>0, <1>1, <1>3 DEF ReceiveNothing, ConnectionData
<1>4. \A n \in Available(conns[i].socket) \ {0} : n \in Nat /\ conns[i].socket \in Fds /\ inbox[conns[i].socket] # <<>>
  BY ConnsAssumption DEF Available, TypeInv, ConnsTypeOK
<1>5. CASE ReceiveNoMemory(i)
  <2>1. PICK n \in Nat : conns' = [conns EXCEPT ![i] =
            [conns[i] EXCEPT !.data_len = n, !.error = "FAILED_TO_READ_IO_LEN"]]
    BY <1>0, <1>4, <1>5 DEF ReceiveNoMemory
  <2>2. [conns[i] EXCEPT !.data_len = n, !.error = "FAILED_TO_READ_IO_LEN"] \in ConnectionData
    BY <1>0 DEF ConnectionData, Errors
  <2>3. UNCHANGED <<heap, inbox>>
    BY <1>5 DEF ReceiveNoMemory
  <2>4. QED BY <1>0, <1>1, <2>1, <2>2, <2>3
<1>6. ASSUME NEW n \in Available(conns[i].socket) \ {0}, NEW b \in Bufs \cup {NULL}
      PROVE  Grown(conns[i], n) \in Nat /\ heap \cup ({b} \ {NULL}) \subseteq Bufs
  BY <1>0, <1>4 DEF Grown, ConnectionData
<1>7. ASSUME NEW f, inbox[f] # <<>>
      PROVE  [inbox EXCEPT ![f] = Tail(@)] \in [Fds -> Seq(Datagrams)]
  <2>1. CASE f \in Fds
    <3>1. inbox[f] \in Seq(Datagrams)
      BY <1>0, <2>1
    <3>2. Tail(inbox[f]) \in Seq(Datagrams)
      BY <1>7, <3>1
    <3>3. QED BY <1>0, <3>2
  <2>2. CASE f \notin Fds
    BY <1>0, <2>2
  <2>3. QED BY <2>1, <2>2
<1>8. CASE ReceiveFails(i, with_from)
  <2>1. PICK n \in Available(conns[i].socket) \ {0}, b \in Bufs \cup {NULL} :
          /\ heap' = heap \cup ({b} \ {NULL})
          /\ conns' = [conns EXCEPT ![i] =
                         [conns[i] EXCEPT !.recv_buffer = b, !.max_packet_size = Grown(conns[i], n),
                                   !.from = IF with_from THEN "garbled" ELSE @,
                                   !.error = "RECV_FAILED", !.data_len = 0]]
          /\ \/ UNCHANGED inbox
             \/ inbox' = [inbox EXCEPT ![conns[i].socket] = Tail(@)]
    BY <1>8 DEF ReceiveFails
  <2>2. Grown(conns[i], n) \in Nat
    BY <1>6
  <2>3. conns' \in [Slots -> ConnectionData]
    <3> DEFINE g == Grown(conns[i], n)
               c == [conns[i] EXCEPT !.recv_buffer = b, !.max_packet_size = g,
                                     !.from = IF with_from THEN "garbled" ELSE @,
                                     !.error = "RECV_FAILED", !.data_len = 0]
    <3>1. g \in Nat
      BY <2>2
    <3>2. conns' = [conns EXCEPT ![i] = c]
      BY <2>1, Zenon
    <3> HIDE DEF g
    <3>3. c \in ConnectionData
      BY <1>0, <3>1 DEF ConnectionData, Errors
    <3> HIDE DEF c
    <3>4. QED BY <1>0, <3>2, <3>3
  <2>4. heap' \subseteq Bufs
    BY <1>6, <2>1
  <2>5. inbox' \in [Fds -> Seq(Datagrams)]
    BY <1>0, <1>4, <1>7, <2>1
  <2>6. QED BY <1>1, <2>3, <2>4, <2>5
<1>9. CASE ReceiveData(i, with_from)
  <2>1. PICK n \in Available(conns[i].socket) \ {0}, b \in Bufs \cup {NULL} :
          LET d == Head(inbox[conns[i].socket]) IN
          /\ heap' = heap \cup ({b} \ {NULL})
          /\ conns' = [conns EXCEPT ![i] =
                         [conns[i] EXCEPT !.recv_buffer = b, !.max_packet_size = Grown(conns[i], n),
                                   !.from = IF with_from THEN d.src ELSE @,
                                   !.content = d.src, !.data_len = d.len]]
          /\ inbox' = [inbox EXCEPT ![conns[i].socket] = Tail(@)]
    BY <1>9 DEF ReceiveData
  <2>2. Grown(conns[i], n) \in Nat /\ conns[i].socket \in Fds /\ inbox[conns[i].socket] # <<>>
    BY <1>4, <1>6
  <2> DEFINE g == Grown(conns[i], n)
             d == Head(inbox[conns[i].socket])
             c == [conns[i] EXCEPT !.recv_buffer = b, !.max_packet_size = g,
                                   !.from = IF with_from THEN d.src ELSE @,
                                   !.content = d.src, !.data_len = d.len]
  <2>3. g \in Nat
    BY <2>2
  <2>4. conns' = [conns EXCEPT ![i] = c]
    BY <2>1, Zenon
  <2>5. d \in Datagrams
    BY <1>0, <2>2
  <2>6. d.src \in Addrs /\ d.len \in Nat
    BY <2>5, ConnsAssumption DEF Datagrams
  <2> HIDE DEF g, d
  <2>7. c \in ConnectionData
    BY <1>0, <2>3, <2>6 DEF ConnectionData
  <2> HIDE DEF c
  <2>8. conns' \in [Slots -> ConnectionData]
    BY <1>0, <2>4, <2>7
  <2>9. heap' \subseteq Bufs
    BY <1>6, <2>1
  <2>10. inbox' \in [Fds -> Seq(Datagrams)]
    BY <1>7, <2>1, <2>2
  <2>11. QED BY <1>1, <2>8, <2>9, <2>10
<1>10. QED BY <1>2, <1>3, <1>5, <1>8, <1>9 DEF Receive

\* recv, recv_from, recv_from_all.
LEMMA RecvType ==
  ASSUME TypeInv,
         \/ \E i \in Slots : Recv(i) \/ RecvFrom(i)
         \/ \E ids \in IdLists : RecvFromAll(ids) \/ RecvFromAllPollFails(ids)
         \/ RecvFromAllNext \/ RecvFromAllDone
  PROVE  TypeInv'
<1> USE DEF tableVars, kernelVars, callVars
<1>1. CASE \E i \in Slots : Recv(i) \/ RecvFrom(i)
  <2>1. PICK i \in Slots, with_from \in BOOLEAN : Receive(i, with_from)
    BY <1>1 DEF Recv, RecvFrom
  <2>2. UNCHANGED <<pc, callVars>>
    BY <1>1 DEF Recv, RecvFrom
  <2>3. QED BY <2>1, <2>2, ReceiveType DEF TypeInv, ConnsTypeOK, CallShape
<1>2. ASSUME NEW ids \in IdLists, RecvFromAll(ids)
      PROVE  TypeInv'
  <2> DEFINE polled == {p \in 1 .. Len(ids) : Usable(ids[p])}
             n == Cardinality(polled)
  <2>1. ids \in Seq(Slots)
    BY IdListType
  <2>2. n \in Nat /\ n <= Len(ids)
    BY <2>1, PolledBound
  <2>3. poll'.ids = ids /\ poll'.i = 1 /\ poll'.ready \in [1 .. n -> BOOLEAN]
    <3>1. Len(Picked(ids, polled)) = n
      BY <2>2, PickedLen
    <3>2. QED BY <1>2, <3>1 DEF RecvFromAll
  <2>4. /\ poll' \in [ids : Seq(Slots), ready : Seq(BOOLEAN), i : Nat]
        /\ Len(poll'.ready) <= Len(poll'.ids)
    <3>1. poll' = [ids |-> poll'.ids, ready |-> poll'.ready, i |-> poll'.i]
      BY <1>2 DEF RecvFromAll
    <3> HIDE DEF n
    <3>2. poll'.ready \in Seq(BOOLEAN) /\ Len(poll'.ready) = n
      BY <2>2, <2>3
    <3>3. QED BY <2>1, <2>2, <2>3, <3>1, <3>2
  <2>5. /\ pc = "idle" /\ pc' = "recv_all"
        /\ UNCHANGED <<tableVars, kernelVars, stack, returning, cursor>>
    BY <1>2 DEF RecvFromAll
  <2>6. ConnsTypeOK'
    BY <2>4, <2>5 DEF TypeInv, ConnsTypeOK, Pcs
  <2>7. CallShape'
    BY <2>3, <2>4, <2>5 DEF TypeInv, CallShape
  <2>8. QED BY <2>6, <2>7 DEF TypeInv
<1>3. ASSUME NEW ids \in IdLists, RecvFromAllPollFails(ids)
      PROVE  TypeInv'
  <2>1. conns' = [i \in Slots |-> IF i \in ToSet(ids)
                                  THEN [conns[i] EXCEPT !.error = "POLL_FAILED"] ELSE conns[i]]
    BY <1>3 DEF RecvFromAllPollFails
  <2>2. \A i \in Slots : [conns[i] EXCEPT !.error = "POLL_FAILED"] \in ConnectionData
    BY ErrorUpdate DEF TypeInv, ConnsTypeOK, Errors
  <2>3. conns' \in [Slots -> ConnectionData]
    BY <2>1, <2>2 DEF TypeInv, ConnsTypeOK
  <2>4. UNCHANGED <<free_indices, heap, kernelVars, pc, callVars>>
    BY <1>3 DEF RecvFromAllPollFails
  <2>5. QED BY <2>3, <2>4 DEF TypeInv, ConnsTypeOK, CallShape
<1>4. CASE RecvFromAllNext
  <2>1. /\ poll.i \in 1 .. Len(poll.ready) /\ pc = "recv_all"
        /\ poll.ids \in Seq(Slots)
        /\ poll' = [poll EXCEPT !.i = @ + 1]
        /\ UNCHANGED <<pc, stack, returning, cursor>>
    BY <1>4 DEF RecvFromAllNext, TypeInv, ConnsTypeOK, CallShape
  <2>2. /\ poll' \in [ids : Seq(Slots), ready : Seq(BOOLEAN), i : Nat]
        /\ Len(poll'.ready) <= Len(poll'.ids)
        /\ poll'.i >= 1
    <3>1. /\ poll \in [ids : Seq(Slots), ready : Seq(BOOLEAN), i : Nat]
          /\ Len(poll.ready) <= Len(poll.ids) /\ poll.i >= 1
      BY <2>1 DEF TypeInv, ConnsTypeOK, CallShape
    <3>2. poll'.ids = poll.ids /\ poll'.ready = poll.ready /\ poll'.i = poll.i + 1
      BY <2>1, <3>1
    <3>3. poll' \in [ids : Seq(Slots), ready : Seq(BOOLEAN), i : Nat]
      BY <2>1, <3>1
    <3>4. QED BY <3>1, <3>2, <3>3
  <2>3. poll.ids[poll.i] \in Slots
    BY <2>1 DEF TypeInv, ConnsTypeOK, CallShape
  <2>4. CASE Receive(poll.ids[poll.i], TRUE)
    BY <2>1, <2>2, <2>3, <2>4, ReceiveType DEF TypeInv, ConnsTypeOK, CallShape
  <2>5. CASE UNCHANGED <<tableVars, kernelVars>>
    BY <2>1, <2>2, <2>5 DEF TypeInv, ConnsTypeOK, CallShape
  <2>6. QED BY <1>4, <2>4, <2>5 DEF RecvFromAllNext
<1>5. CASE RecvFromAllDone
  BY <1>5 DEF RecvFromAllDone, NoPoll, TypeInv, ConnsTypeOK, CallShape, Pcs
<1>6. QED BY <1>1, <1>2, <1>3, <1>4, <1>5

\* What the sending calls do to the table.
LEMMA SendFailsType ==
  ASSUME TypeInv, NEW i \in Slots, SendFails(i)
  PROVE  TypeInv'
<1>1. [conns[i] EXCEPT !.error = "SEND_FAILED"] \in ConnectionData
  BY ErrorUpdate DEF TypeInv, ConnsTypeOK, Errors
<1>2. conns' = [conns EXCEPT ![i] = [conns[i] EXCEPT !.error = "SEND_FAILED"]]
  BY DEF SendFails, TypeInv, ConnsTypeOK
<1>3. QED BY <1>1, <1>2, TableStepType DEF SendFails, kernelVars, TypeInv, ConnsTypeOK

\* Every step of the table preserves the types.
LEMMA TypeNext == TypeInv /\ [ConnsNext]_connVars => TypeInv'
<1> SUFFICES ASSUME TypeInv, [ConnsNext]_connVars PROVE TypeInv'
  OBVIOUS
<1>1. CASE Environment
  BY <1>1, EnvironmentType
<1>2. CASE Create
  <2>1. PICK i \in Slots, b \in Bufs \cup {NULL}, f \in Fds, getfl \in BOOLEAN :
          \/ CreateUnresolved(i, b)
          \/ CreateNoSocket(i, b)
          \/ CreateRefused(i, b, f, "CONNECT_FAILED")
          \/ CreateRefused(i, b, f, "BIND_FAILED")
          \/ \E a \in Addrs, connect \in BOOLEAN : CreateActive(i, b, f, a, connect, getfl)
    BY <1>2 DEF Create
  <2>2. QED BY <2>1, CreateFailsType, CreateActiveType
<1>3. CASE Serve
  <2>1. PICK i \in Slots, b \in Bufs \cup {NULL}, f \in Fds, getfl \in BOOLEAN :
          \/ CreateNoSocket(i, b)
          \/ CreateRefused(i, b, f, "BIND_FAILED")
          \/ CreateActive(i, b, f, NULL, FALSE, getfl)
    BY <1>3 DEF Serve
  <2>2. QED BY <2>1, CreateFailsType, CreateActiveType
<1>4. CASE (\E i \in Slots : Close(i)) \/ SendOneshot \/ Destroy \/ DestroyNext \/ DestroyFree
  BY <1>4, CloseType
<1>5. CASE FreeSlot
  BY <1>5, FreeSlotType
<1>6. CASE \/ \E i \in Slots : Recv(i) \/ RecvFrom(i)
           \/ \E ids \in IdLists : RecvFromAll(ids) \/ RecvFromAllPollFails(ids)
           \/ RecvFromAllNext \/ RecvFromAllDone
  BY <1>6, RecvType
<1>7. CASE \E i \in Slots : SendFails(i)
  BY <1>7, SendFailsType
<1>8. CASE Finished \/ UNCHANGED connVars
  BY <1>8 DEF Finished, connVars, TypeInv, ConnsTypeOK, CallShape
<1>9. QED
  BY <1>1, <1>2, <1>3, <1>4, <1>5, <1>6, <1>7, <1>8 DEF ConnsNext, ConnsCalls

\* The table keeps its types, for every number of slots and descriptors: no step
\* of the recursive close, of the destructor or of the receiving calls leaves them.
THEOREM ConnsTypeCorrect == ConnsSpec => []ConnsTypeOK
<1>1. TypeInv => ConnsTypeOK
  BY DEF TypeInv
<1>2. QED BY <1>1, TypeInit, TypeNext, PTL DEF ConnsSpec

-----------------------------------------------------------------------------
(* The safety invariants, for every number of slots and descriptors.        *)
(* Create and receive calls are first reduced to what they change; the      *)
(* invariants then follow from those summaries and from the steps of        *)
(* free_slot.                                                               *)

\* The errors that can be set on a slot that is not in use.
StrayErrors == {"POLL_FAILED", "ASYNCIFY_FAILED"}

\* All slots but those in S keep socket, block and state, and no error is cleared.
SameBut(S) ==
  \A j \in Slots \ S : /\ conns'[j].socket = conns[j].socket
                       /\ conns'[j].recv_buffer = conns[j].recv_buffer
                       /\ conns'[j].state = conns[j].state
                       /\ conns[j].error # "NONE" => conns'[j].error # "NONE"
                       /\ \/ conns[j].state = "ACTIVE"
                          \/ conns'[j].error \in {conns[j].error} \cup StrayErrors

\* create or serve has given slot i the block b.
SlotTaken(i, b) ==
  /\ TakeSlot(i, b)
  /\ SameBut({i})
  /\ conns'[i].recv_buffer = b
  /\ \/ /\ conns'[i].socket \notin open /\ conns'[i].socket # -1
        /\ open' = open \cup {conns'[i].socket}
     \/ /\ conns'[i].socket \in {conns[i].socket, -1}
        /\ conns'[i].state = conns[i].state
        /\ open' = open
  /\ conns'[i].state = "ACTIVE" \/ conns'[i].error # "NONE"
  /\ conns'[i].state = "ACTIVE" \/ conns'[i].state = conns[i].state
  /\ pc' \in {pc, "out_of_bounds"}
  /\ UNCHANGED <<stack, returning, cursor>>

\* A receiving call has read from slot i.
SlotRead(i) ==
  /\ Active(i)
  /\ SameBut({i})
  /\ conns'[i].socket = conns[i].socket
  /\ conns'[i].state = conns[i].state
  /\ \/ conns'[i].recv_buffer = conns[i].recv_buffer
     \/ conns[i].recv_buffer = NULL /\ conns'[i].recv_buffer \in Bufs \ heap
  /\ \/ heap' = heap \cup ({conns'[i].recv_buffer} \ {NULL})
     \/ heap' = heap /\ conns'[i].recv_buffer = conns[i].recv_buffer
  /\ UNCHANGED <<free_indices, open, stack, returning, cursor>>

\* A create or serve that fails changes one slot, which stays FREE with an error.
LEMMA CreateFailsTakes ==
  ASSUME TypeInv, NEW i \in Slots, NEW b, NEW f \in Fds,
         NEW e \in {"CONNECT_FAILED", "BIND_FAILED"},
         \/ CreateUnresolved(i, b)
         \/ CreateNoSocket(i, b)
         \/ CreateRefused(i, b, f, e)
  PROVE  SlotTaken(i, b)
<1> USE DEF kernelVars, callVars
<1>1. TakeSlot(i, b)
  BY DEF CreateUnresolved, CreateNoSocket, CreateRefused
<1>2. conns \in [Slots -> ConnectionData] /\ WithBuffer(i, b) \in ConnectionData
  BY <1>1, TakeSlotType DEF TypeInv, ConnsTypeOK
<1>3. /\ WithBuffer(i, b).recv_buffer = b
      /\ WithBuffer(i, b).socket = conns[i].socket
      /\ WithBuffer(i, b).state = conns[i].state
  BY <1>2 DEF WithBuffer, ConnectionData
<1>4. UNCHANGED <<pc, stack, returning, cursor>>
  BY DEF CreateUnresolved, CreateNoSocket, CreateRefused
<1>5. CASE CreateUnresolved(i, b)
  <2> DEFINE c == [WithBuffer(i, b) EXCEPT !.error = "INVALID_ADDR"]
  <2>1. c.recv_buffer = b /\ c.socket = conns[i].socket /\ c.state = conns[i].state /\ c.error # "NONE"
    BY <1>2, <1>3 DEF ConnectionData
  <2>2. conns' = [conns EXCEPT ![i] = c] /\ open' = open
    BY <1>5 DEF CreateUnresolved
  <2> HIDE DEF c
  <2>3. QED BY <1>1, <1>2, <1>4, <2>1, <2>2 DEF SlotTaken, SameBut
<1>6. CASE CreateNoSocket(i, b)
  <2> DEFINE c == [WithBuffer(i, b) EXCEPT !.socket = -1, !.error = "SOCKET_CREATION_FAILED"]
  <2>1. c.recv_buffer = b /\ c.socket = -1 /\ c.state = conns[i].state /\ c.error # "NONE"
    BY <1>2, <1>3 DEF ConnectionData
  <2>2. conns' = [conns EXCEPT ![i] = c] /\ open' = open
    BY <1>6 DEF CreateNoSocket
  <2> HIDE DEF c
  <2>3. QED BY <1>1, <1>2, <1>4, <2>1, <2>2 DEF SlotTaken, SameBut
<1>7. CASE CreateRefused(i, b, f, e)
  <2> DEFINE c == [WithBuffer(i, b) EXCEPT !.socket = f, !.error = e]
  <2>1. c.recv_buffer = b /\ c.socket = f /\ c.state = conns[i].state /\ c.error # "NONE"
    BY <1>2, <1>3 DEF ConnectionData
  <2>2. conns' = [conns EXCEPT ![i] = c] /\ open' = open \cup {f} /\ f \notin open /\ f # -1
    BY <1>7, ConnsAssumption DEF CreateRefused, IsLowestFree
  <2> HIDE DEF c
  <2>3. QED BY <1>1, <1>2, <1>4, <2>1, <2>2 DEF SlotTaken, SameBut
<1>8. QED BY <1>5, <1>6, <1>7

\* One that succeeds changes one slot, but for the error init_socket misplaces.
LEMMA CreateActiveTakes ==
  ASSUME TypeInv, NEW i \in Slots, NEW b, NEW f \in Fds, NEW a \in Addrs \cup {NULL},
         NEW connect \in BOOLEAN, NEW getfl \in BOOLEAN,
         CreateActive(i, b, f, a, connect, getfl)
  PROVE  SlotTaken(i, b)
<1> USE DEF callVars
<1> DEFINE c    == [WithBuffer(i, b) EXCEPT !.socket = f, !.state = "ACTIVE",
                                            !.from = IF a = NULL THEN @ ELSE a]
           made == [conns EXCEPT ![i] = c]
<1>1. TakeSlot(i, b)
  BY DEF CreateActive
<1>2. conns \in [Slots -> ConnectionData] /\ WithBuffer(i, b) \in ConnectionData
  BY <1>1, TakeSlotType DEF TypeInv, ConnsTypeOK
<1>3. WithBuffer(i, b).recv_buffer = b
  BY <1>2 DEF WithBuffer, ConnectionData
<1>4. c \in ConnectionData /\ c.recv_buffer = b /\ c.socket = f /\ c.state = "ACTIVE"
  BY <1>2, <1>3, ActiveUpdate DEF ConnectionData
<1>5. /\ open' = open \cup {f} /\ f \notin open /\ f # -1
      /\ pc' \in {pc, "out_of_bounds"}
      /\ UNCHANGED <<stack, returning, cursor>>
  BY ConnsAssumption DEF CreateActive, IsLowestFree
<1>6. conns' \in {made, InitSocketError(made, f)}
  BY DEF CreateActive
<1> HIDE DEF c
<1>7. \A j \in Slots : /\ conns'[j].socket = made[j].socket
                       /\ conns'[j].recv_buffer = made[j].recv_buffer
                       /\ conns'[j].state = made[j].state
                       /\ made[j].error # "NONE" => conns'[j].error # "NONE"
                       /\ conns'[j].error \in {made[j].error, "ASYNCIFY_FAILED"}
  <2>1. made \in [Slots -> ConnectionData]
    BY <1>2, <1>4
  <2> HIDE DEF made
  <2>2. CASE conns' = made
    BY <2>2
  <2>3. CASE conns' = InitSocketError(made, f)
    BY <2>1, <2>3 DEF InitSocketError, ConnectionData
  <2>4. QED BY <1>6, <2>2, <2>3
<1>8. SameBut({i})
  BY <1>2, <1>7 DEF SameBut, StrayErrors
<1>9. QED BY <1>1, <1>2, <1>4, <1>5, <1>7, <1>8 DEF SlotTaken

\* create and serve take a slot.
LEMMA CreateTakes ==
  ASSUME TypeInv, Create \/ Serve
  PROVE  \E i \in Slots, b \in Bufs \cup {NULL} : SlotTaken(i, b)
<1>1. CASE Create
  <2>1. PICK i \in Slots, b \in Bufs \cup {NULL}, f \in Fds, getfl \in BOOLEAN :
          \/ CreateUnresolved(i, b)
          \/ CreateNoSocket(i, b)
          \/ CreateRefused(i, b, f, "CONNECT_FAILED")
          \/ CreateRefused(i, b, f, "BIND_FAILED")
          \/ \E a \in Addrs, connect \in BOOLEAN : CreateActive(i, b, f, a, connect, getfl)
    BY <1>1 DEF Create
  <2>2. SlotTaken(i, b)
    BY <2>1, CreateFailsTakes, CreateActiveTakes
  <2>3. QED BY <2>2
<1>2. CASE Serve
  <2>1. PICK i \in Slots, b \in Bufs \cup {NULL}, f \in Fds, getfl \in BOOLEAN :
          \/ CreateNoSocket(i, b)
          \/ CreateRefused(i, b, f, "BIND_FAILED")
          \/ CreateActive(i, b, f, NULL, FALSE, getfl)
    BY <1>2 DEF Serve
  <2>2. SlotTaken(i, b)
    BY <2>1, CreateFailsTakes, CreateActiveTakes
  <2>3. QED BY <2>2
<1>3. QED BY <1>1, <1>2

\* recv and recv_from change one slot, which keeps its socket and its state.
LEMMA ReceiveReads ==
  ASSUME TypeInv, NEW i \in Slots, NEW with_from \in BOOLEAN, Receive(i, with_from),
         UNCHANGED <<stack, returning, cursor>>
  PROVE  SlotRead(i)
<1>1. Active(i) /\ conns \in [Slots -> ConnectionData] /\ conns[i] \in ConnectionData
  BY DEF Receive, Usable, Active, TypeInv, ConnsTypeOK
<1>2. UNCHANGED <<free_indices, open, stack, returning, cursor>>
  BY DEF Receive
<1>3. CASE ReceiveNoLength(i) \/ ReceiveNothing(i) \/ ReceiveNoMemory(i)
  <2>1. /\ conns'[i].socket = conns[i].socket
        /\ conns'[i].recv_buffer = conns[i].recv_buffer
        /\ conns'[i].state = conns[i].state
    <3>1. CASE ReceiveNoLength(i)
      BY <1>1, <3>1 DEF ReceiveNoLength, ConnectionData
    <3>2. CASE ReceiveNothing(i)
      BY <1>1, <3>2 DEF ReceiveNothing, ConnectionData
    <3>3. CASE ReceiveNoMemory(i)
      BY <1>1, <3>3 DEF ReceiveNoMemory, ConnectionData
    <3>4. QED BY <1>3, <3>1, <3>2, <3>3
  <2>2. \A j \in Slots \ {i} : conns'[j] = conns[j]
    BY <1>1, <1>3 DEF ReceiveNoLength, ReceiveNothing, ReceiveNoMemory
  <2>3. heap' = heap
    BY <1>3 DEF ReceiveNoLength, ReceiveNothing, ReceiveNoMemory
  <2>4. QED BY <1>1, <1>2, <2>1, <2>2, <2>3 DEF SlotRead, SameBut
<1>4. CASE ReceiveFails(i, with_from) \/ ReceiveData(i, with_from)
  <2>1. PICK n \in Nat, b \in Bufs \cup {NULL} :
          /\ Reallocated(conns[i], n, b)
          /\ heap' = heap \cup ({b} \ {NULL})
          /\ conns'[i].recv_buffer = b
          /\ conns'[i].socket = conns[i].socket
          /\ conns'[i].state = conns[i].state
    <3>1. \A n \in Available(conns[i].socket) \ {0} : n \in Nat
      BY ConnsAssumption DEF Available
    <3>2. CASE ReceiveFails(i, with_from)
      BY <1>1, <3>1, <3>2 DEF ReceiveFails, ConnectionData
    <3>3. CASE ReceiveData(i, with_from)
      BY <1>1, <3>1, <3>3 DEF ReceiveData, ConnectionData
    <3>4. QED BY <1>4, <3>2, <3>3
  <2>2. \A j \in Slots \ {i} : conns'[j] = conns[j]
    BY <1>1, <1>4 DEF ReceiveFails, ReceiveData
  <2>3. \/ conns[i].recv_buffer = NULL /\ b \in Bufs \ heap
        \/ b = conns[i].recv_buffer
    BY <2>1 DEF Reallocated
  <2>4. SameBut({i})
    BY <2>2 DEF SameBut
  <2>5. QED BY <1>1, <1>2, <2>1, <2>3, <2>4 DEF SlotRead
<1>5. QED BY <1>3, <1>4 DEF Receive

\* A step of the environment, of a failing poll or send, or of the loop of
\* recv_from_all that reads nothing.
Quiet ==
  /\ SameBut({})
  /\ open \subseteq open'
  /\ pc' = pc \/ {pc, pc'} \subseteq {"idle", "recv_all"}
  /\ UNCHANGED <<free_indices, heap, stack, returning, cursor>>

\* A call of close or send_oneshot begins.
CloseBegins ==
  /\ pc = "idle" /\ pc' = "close"
  /\ Len(stack') = 1
  /\ open \subseteq open'
  /\ UNCHANGED <<conns, free_indices, heap, returning, cursor>>

\* Every step of the table is one of these.
LEMMA StepKinds ==
  ASSUME TypeInv, [ConnsNext]_connVars
  PROVE  \/ \E i \in Slots, b \in Bufs \cup {NULL} : SlotTaken(i, b)
         \/ \E i \in Slots : SlotRead(i) /\ pc' = pc /\ pc \in {"idle", "recv_all"}
         \/ Quiet
         \/ CloseBegins
         \/ FreeSlot
         \/ Destroy \/ DestroyNext \/ DestroyFree
<1> USE DEF tableVars, kernelVars, callVars
<1>1. CASE Environment
  BY <1>1 DEF Environment, ForeignOpen, ForeignClose, Arrive, Quiet, SameBut
<1>2. CASE Create \/ Serve
  BY <1>2, CreateTakes
<1>3. CASE (\E i \in Slots : Close(i)) \/ SendOneshot
  BY <1>3 DEF Close, SendOneshot, CloseBegins
<1>4. CASE \E i \in Slots : Recv(i) \/ RecvFrom(i)
  <2>1. PICK i \in Slots, with_from \in BOOLEAN : Receive(i, with_from)
    BY <1>4 DEF Recv, RecvFrom
  <2>2. pc = "idle" /\ pc' = pc /\ UNCHANGED <<stack, returning, cursor>>
    BY <1>4 DEF Recv, RecvFrom
  <2>3. QED BY <2>1, <2>2, ReceiveReads
<1>5. CASE \E ids \in IdLists : RecvFromAll(ids)
  BY <1>5 DEF RecvFromAll, Quiet, SameBut
<1>6. CASE \E ids \in IdLists : RecvFromAllPollFails(ids)
  <2>1. PICK ids \in IdLists :
          conns' = [i \in Slots |-> IF i \in ToSet(ids)
                                    THEN [conns[i] EXCEPT !.error = "POLL_FAILED"] ELSE conns[i]]
    BY <1>6 DEF RecvFromAllPollFails
  <2>2. SameBut({})
    BY <2>1 DEF SameBut, StrayErrors, TypeInv, ConnsTypeOK, ConnectionData
  <2>3. QED BY <1>6, <2>2 DEF RecvFromAllPollFails, Quiet
<1>7. CASE RecvFromAllNext
  <2>1. /\ pc = "recv_all" /\ pc' = pc /\ UNCHANGED <<stack, returning, cursor>>
        /\ poll.ids[poll.i] \in Slots
    BY <1>7 DEF RecvFromAllNext, TypeInv, ConnsTypeOK, CallShape
  <2>2. CASE Receive(poll.ids[poll.i], TRUE)
    BY <2>1, <2>2, ReceiveReads
  <2>3. CASE UNCHANGED <<tableVars, kernelVars>>
    BY <2>1, <2>3 DEF Quiet, SameBut
  <2>4. QED BY <1>7, <2>2, <2>3 DEF RecvFromAllNext
<1>8. CASE RecvFromAllDone
  BY <1>8 DEF RecvFromAllDone, Quiet, SameBut
<1>9. CASE \E i \in Slots : SendFails(i)
  <2>1. PICK i \in Slots : conns' = [conns EXCEPT ![i].error = "SEND_FAILED"] /\ Usable(i)
    BY <1>9 DEF SendFails
  <2>2. SameBut({})
    BY <2>1 DEF SameBut, Usable, TypeInv, ConnsTypeOK, ConnectionData
  <2>3. QED BY <1>9, <2>2 DEF SendFails, Quiet
<1>10. CASE Finished \/ UNCHANGED connVars
  BY <1>10 DEF Finished, connVars, Quiet, SameBut
<1>11. QED
  BY <1>1, <1>2, <1>3, <1>4, <1>5, <1>6, <1>7, <1>8, <1>9, <1>10 DEF ConnsNext, ConnsCalls

-----------------------------------------------------------------------------
(* The free list and the frames.                                           *)

NoRepeat(s) == \A j, k \in 1 .. Len(s) : s[j] = s[k] => j = k

\* pop_back on a list without repetitions removes its last element.
LEMMA PopSet ==
  ASSUME NEW S, NEW s \in Seq(S), s # <<>>, NoRepeat(s)
  PROVE  NoRepeat(Front(s)) /\ ToSet(Front(s)) = ToSet(s) \ {Last(s)}
<1>1. /\ Len(s) \in Nat \ {0} /\ Last(s) = s[Len(s)]
      /\ Front(s) \in Seq(S) /\ Len(Front(s)) = Len(s) - 1
      /\ \A k \in 1 .. Len(s) - 1 : Front(s)[k] = s[k]
  BY PopType
<1>2. NoRepeat(Front(s))
  BY <1>1 DEF NoRepeat
<1>3. \A x : x \in ToSet(Front(s)) <=> \E k \in 1 .. Len(s) - 1 : s[k] = x
  BY <1>1 DEF ToSet
<1>4. \A x : x \in ToSet(s) <=> \E k \in 1 .. Len(s) : s[k] = x
  BY DEF ToSet
<1>5. \A x : x \in ToSet(Front(s)) <=> x \in ToSet(s) /\ x # Last(s)
  BY <1>1, <1>3, <1>4 DEF NoRepeat
<1>6. QED BY <1>2, <1>5

\* push_back adds its argument.
LEMMA PushSet ==
  ASSUME NEW S, NEW s \in Seq(S), NEW x \in S
  PROVE  /\ ToSet(Append(s, x)) = ToSet(s) \cup {x}
         /\ NoRepeat(s) /\ x \notin ToSet(s) => NoRepeat(Append(s, x))
<1>1. /\ Len(Append(s, x)) = Len(s) + 1 /\ Len(s) \in Nat
      /\ Append(s, x)[Len(s) + 1] = x
      /\ \A k \in 1 .. Len(s) : Append(s, x)[k] = s[k]
      /\ Append(s, x) \in Seq(S)
  OBVIOUS
<1>2. \A y : y \in ToSet(Append(s, x)) <=> \E k \in 1 .. Len(s) + 1 : Append(s, x)[k] = y
  BY <1>1 DEF ToSet
<1>3. \A y : y \in ToSet(s) <=> \E k \in 1 .. Len(s) : s[k] = y
  BY DEF ToSet
<1>4. \A y : y \in ToSet(Append(s, x)) <=> y \in ToSet(s) \/ y = x
  BY <1>1, <1>2, <1>3
<1>5. NoRepeat(s) /\ x \notin ToSet(s) => NoRepeat(Append(s, x))
  BY <1>1, <1>3 DEF NoRepeat
<1>6. QED BY <1>4, <1>5

\* What alloc_slot does to the list.
LEMMA TakenSlot ==
  ASSUME TypeInv, FreeListSound, NEW i \in Slots, NEW b, TakeSlot(i, b)
  PROVE  /\ Listed(i) /\ conns[i].state = "FREE" /\ conns[i].recv_buffer = NULL
         /\ conns[i].socket = -1
         /\ NoRepeat(free_indices')
         /\ ToSet(free_indices') = ToSet(free_indices) \ {i}
<1>1. free_indices \in Seq(Slots) /\ NoRepeat(free_indices)
  BY DEF TypeInv, ConnsTypeOK, FreeListSound, NoRepeat
<1>2. free_indices # <<>> /\ i = Last(free_indices) /\ free_indices' = Front(free_indices)
  BY DEF TakeSlot
<1>3. NoRepeat(free_indices') /\ ToSet(free_indices') = ToSet(free_indices) \ {i}
  BY <1>1, <1>2, PopSet
<1>4. Listed(i)
  <2>1. Last(free_indices) = free_indices[Len(free_indices)] /\ Len(free_indices) \in Nat \ {0}
    BY <1>1, <1>2, PopType
  <2>2. QED BY <1>1, <1>2, <2>1 DEF Listed, ToSet
<1>5. QED BY <1>3, <1>4 DEF FreeListSound

\* The frame that releases a slot works on a connection in use.
LEMMA ReleasedSlot ==
  ASSUME TypeInv, FrameChain, FreeSlotRelease \/ FreeSlotDoubleFree
  PROVE  /\ Last(stack) \in Slots /\ Active(Last(stack))
         /\ Last(stack) = stack[Len(stack)] /\ Len(stack) \in Nat \ {0}
<1>1. stack \in Seq(Slots \cup Fds \cup {-1}) /\ stack # <<>> /\ returning
  BY DEF FreeSlotRelease, FreeSlotDoubleFree, InFreeSlot, TypeInv, ConnsTypeOK
<1>2. Last(stack) = stack[Len(stack)] /\ Len(stack) \in Nat \ {0}
  BY <1>1, PopType
<1>3. QED BY <1>1, <1>2 DEF FrameChain

\* The steps of free_slot other than the release do not touch the table.
LEMMA FreeSlotKinds ==
  ASSUME FreeSlot
  PROVE  /\ InFreeSlot
         /\ UNCHANGED <<kernelVars, cursor>>
         /\ FreeSlotRelease \/ UNCHANGED tableVars
  BY DEF FreeSlot, FreeSlotOutOfBounds, FreeSlotSkip, FreeSlotRecurse, FreeSlotDoubleFree,
         FreeSlotRelease, callVars

\* Every step keeps free_indices_ sound: what is pushed was in use.
LEMMA FreeListNext ==
  ASSUME TypeInv, FreeListSound, FrameChain, [ConnsNext]_connVars
  PROVE  FreeListSound'
<1>1. ASSUME NEW i \in Slots, NEW b, SlotTaken(i, b)
      PROVE  FreeListSound'
  <2>1. NoRepeat(free_indices') /\ ToSet(free_indices') = ToSet(free_indices) \ {i}
    BY <1>1, TakenSlot DEF SlotTaken
  <2>2. QED BY <1>1, <2>1 DEF SlotTaken, SameBut, FreeListSound, Listed, NoRepeat
<1>2. ASSUME NEW i \in Slots, SlotRead(i)
      PROVE  FreeListSound'
  BY <1>2 DEF SlotRead, SameBut, FreeListSound, Listed, Active
<1>3. CASE Quiet
  BY <1>3 DEF Quiet, SameBut, FreeListSound, Listed
<1>4. CASE UNCHANGED <<conns, free_indices>>
  BY <1>4 DEF FreeListSound, Listed
<1>5. CASE FreeSlotRelease
  <2> DEFINE i == Last(stack)
  <2>1. i \in Slots /\ ~Listed(i) /\ free_indices \in Seq(Slots) /\ NoRepeat(free_indices)
    BY <1>5, ReleasedSlot DEF FreeListSound, Active, TypeInv, ConnsTypeOK, NoRepeat
  <2>2. /\ free_indices' = Append(free_indices, i)
        /\ conns' = [conns EXCEPT ![i] = FreshConnection]
        /\ conns \in [Slots -> ConnectionData]
    BY <1>5 DEF FreeSlotRelease, TypeInv, ConnsTypeOK
  <2> HIDE DEF i
  <2>3. NoRepeat(free_indices') /\ ToSet(free_indices') = ToSet(free_indices) \cup {i}
    BY <2>1, <2>2, PushSet DEF Listed
  <2>4. \A j \in Slots : j \in ToSet(free_indices') =>
           /\ conns'[j].state = "FREE" /\ conns'[j].recv_buffer = NULL /\ conns'[j].socket = -1
    BY <2>1, <2>2, <2>3 DEF FreeListSound, Listed, FreshConnection
  <2>5. QED BY <2>3, <2>4 DEF FreeListSound, Listed, NoRepeat
<1>6. CASE CloseBegins \/ Destroy \/ DestroyNext \/ DestroyFree
  BY <1>4, <1>6 DEF CloseBegins, Destroy, DestroyNext, DestroyFree, tableVars
<1>7. CASE FreeSlot
  BY <1>4, <1>5, <1>7, FreeSlotKinds DEF tableVars
<1>8. QED BY <1>1, <1>2, <1>3, <1>6, <1>7, StepKinds

\* With no frame, or one that has not called close, there is nothing to relate.
LEMMA ShortChain ==
  ASSUME stack' = <<>> \/ (Len(stack') = 1 /\ ~returning')
  PROVE  FrameChain'
<1>1. CASE stack' = <<>>
  <2>1. Len(stack') = 0
    BY <1>1
  <2>2. QED BY <2>1 DEF FrameChain
<1>2. CASE Len(stack') = 1 /\ ~returning'
  BY <1>2 DEF FrameChain
<1>3. QED BY <1>1, <1>2

\* Every step keeps the chain of frames: a frame is pushed along a descriptor and
\* popped without touching the slots of the frames below it.
LEMMA FrameChainNext ==
  ASSUME TypeInv, TypeInv', FrameChain, [ConnsNext]_connVars
  PROVE  FrameChain'
<1>1. ASSUME NEW i \in Slots, NEW b, SlotTaken(i, b)
      PROVE  FrameChain'
  BY <1>1, ShortChain DEF SlotTaken, TakeSlot, TypeInv, CallShape
<1>2. ASSUME NEW i \in Slots, SlotRead(i), pc \in {"idle", "recv_all"}
      PROVE  FrameChain'
  BY <1>2, ShortChain DEF SlotRead, TypeInv, CallShape
<1>3. CASE Quiet
  BY <1>3 DEF Quiet, SameBut, FrameChain, Active, TypeInv, CallShape
<1>4. CASE CloseBegins
  BY <1>4, ShortChain DEF CloseBegins, TypeInv, CallShape
<1>5. CASE FreeSlot
  <2>0. /\ stack \in Seq(Slots \cup Fds \cup {-1}) /\ stack # <<>>
        /\ Last(stack) = stack[Len(stack)] /\ Len(stack) \in Nat \ {0}
    BY <1>5, FreeSlotKinds, PopType DEF InFreeSlot, TypeInv, ConnsTypeOK
  <2>1. ASSUME stack' = Front(stack),
               \A k \in 1 .. Len(stack) - 1 : conns'[stack[k]] = conns[stack[k]]
        PROVE  FrameChain'
    <3>1. /\ Len(stack') = Len(stack) - 1
          /\ \A k \in 1 .. Len(stack) - 1 : stack'[k] = stack[k]
      BY <2>0, <2>1, PopType
    <3>2. \A j, k \in 1 .. Len(stack') : stack'[j] = stack'[k] => j = k
      BY <2>0, <3>1 DEF FrameChain
    <3>3. \A k \in 1 .. Len(stack') : stack'[k] \in Slots /\ conns'[stack'[k]].state = "ACTIVE"
      BY <2>0, <2>1, <3>1 DEF FrameChain, Active
    <3>4. \A k \in 1 .. Len(stack') - 1 : conns'[stack'[k]].socket = stack'[k + 1]
      BY <2>0, <2>1, <3>1 DEF FrameChain
    <3>5. QED BY <3>2, <3>3, <3>4 DEF FrameChain, Active
  <2>2. CASE FreeSlotSkip
    BY <2>1, <2>2 DEF FreeSlotSkip, PopFrame, tableVars
  <2>3. CASE FreeSlotRelease
    <3>1. Last(stack) \in Slots /\ conns \in [Slots -> ConnectionData]
      BY <2>3, ReleasedSlot DEF TypeInv, ConnsTypeOK
    <3>2. \A k \in 1 .. Len(stack) - 1 : stack[k] # Last(stack) /\ stack[k] \in Slots
      BY <2>0 DEF FrameChain
    <3>3. conns' = [conns EXCEPT ![Last(stack)] = FreshConnection] /\ stack' = Front(stack)
      BY <2>3 DEF FreeSlotRelease, PopFrame
    <3>4. QED BY <2>1, <3>1, <3>2, <3>3
  <2>4. CASE FreeSlotRecurse
    <3> DEFINE s == conns[Last(stack)].socket
    <3>1. /\ Last(stack) \in Slots /\ Active(Last(stack)) /\ ~returning
          /\ s \in Slots \cup Fds \cup {-1}
      BY <2>4 DEF FreeSlotRecurse, Active, TypeInv, ConnsTypeOK, ConnectionData
    <3>2. UNCHANGED <<conns, returning>>
      BY <2>4 DEF FreeSlotRecurse, tableVars
    <3>3. CASE s \in ToSet(stack)
      <4>1. stack' = stack
        BY <2>4, <3>3 DEF FreeSlotRecurse
      <4>2. QED BY <3>2, <4>1 DEF FrameChain, Active
    <3>4. CASE s \notin ToSet(stack)
      <4>1. stack' = Append(stack, s)
        BY <2>4, <3>4 DEF FreeSlotRecurse
      <4>2. \A k \in 1 .. Len(stack) : stack[k] # s
        BY <2>0, <3>4 DEF ToSet
      <4> HIDE DEF s
      <4>3. /\ Len(stack') = Len(stack) + 1
            /\ stack'[Len(stack) + 1] = s
            /\ \A k \in 1 .. Len(stack) : stack'[k] = stack[k]
        BY <2>0, <3>1, <4>1
      <4>4. \A j, k \in 1 .. Len(stack') : stack'[j] = stack'[k] => j = k
        BY <2>0, <4>2, <4>3 DEF FrameChain
      <4>5. \A k \in 1 .. Len(stack') : k < Len(stack') \/ returning' =>
               stack'[k] \in Slots /\ conns'[stack'[k]].state = "ACTIVE"
        BY <2>0, <3>1, <3>2, <4>3 DEF FrameChain, Active
      <4>6. \A k \in 1 .. Len(stack') - 1 : conns'[stack'[k]].socket = stack'[k + 1]
        BY <2>0, <3>2, <4>3 DEF FrameChain, s
      <4>7. QED BY <4>4, <4>5, <4>6 DEF FrameChain, Active
    <3>5. QED BY <3>3, <3>4
  <2>5. CASE FreeSlotOutOfBounds \/ FreeSlotDoubleFree
    <3>1. UNCHANGED <<conns, stack, returning>>
      BY <2>5 DEF FreeSlotOutOfBounds, FreeSlotDoubleFree, tableVars, callVars
    <3>2. QED BY <3>1 DEF FrameChain, Active
  <2>6. QED BY <1>5, <2>2, <2>3, <2>4, <2>5 DEF FreeSlot
<1>6. CASE Destroy \/ DestroyFree
  BY <1>6, ShortChain DEF Destroy, DestroyFree, TypeInv, CallShape
<1>7. CASE DestroyNext
  <2>1. stack' = <<>> \/ Len(stack') = 1
    BY <1>7 DEF DestroyNext, TypeInv, CallShape
  <2>2. ~returning'
    BY <1>7 DEF DestroyNext, TypeInv, CallShape
  <2>3. QED BY <2>1, <2>2, ShortChain
<1>8. QED BY <1>1, <1>2, <1>3, <1>4, <1>5, <1>6, <1>7, StepKinds

-----------------------------------------------------------------------------
(* Accounting of slots and descriptors.                                    *)

\* Every step accounts for every slot: errors are cleared only by a reset, which
\* lists the slot.
LEMMA AccountingNext ==
  ASSUME TypeInv, FreeListSound, FrameChain, SlotAccounting, [ConnsNext]_connVars
  PROVE  SlotAccounting'
<1>1. ASSUME NEW i \in Slots, NEW b, SlotTaken(i, b)
      PROVE  SlotAccounting'
  <2>1. ToSet(free_indices') = ToSet(free_indices) \ {i}
    BY <1>1, TakenSlot DEF SlotTaken
  <2>2. \A j \in Slots \ {i} : Listed(j) => conns[j].state = "FREE"
    BY DEF FreeListSound
  <2>3. QED BY <1>1, <2>1, <2>2 DEF SlotTaken, SameBut, SlotAccounting, Active, Listed, StrayErrors
<1>2. ASSUME NEW i \in Slots, SlotRead(i)
      PROVE  SlotAccounting'
  <2>1. \A j \in Slots : Listed(j) => conns[j].state = "FREE"
    BY DEF FreeListSound
  <2>2. QED BY <1>2, <2>1 DEF SlotRead, SameBut, SlotAccounting, Active, Listed, StrayErrors
<1>3. CASE Quiet
  <2>1. \A j \in Slots : Listed(j) => conns[j].state = "FREE"
    BY DEF FreeListSound
  <2>2. QED BY <1>3, <2>1 DEF Quiet, SameBut, SlotAccounting, Active, Listed, StrayErrors
<1>4. CASE UNCHANGED <<conns, free_indices>>
  BY <1>4 DEF SlotAccounting, Active, Listed
<1>5. CASE FreeSlotRelease
  <2>1. Last(stack) \in Slots /\ free_indices \in Seq(Slots) /\ conns \in [Slots -> ConnectionData]
    BY <1>5, ReleasedSlot DEF TypeInv, ConnsTypeOK
  <2>2. ToSet(free_indices') = ToSet(free_indices) \cup {Last(stack)}
    BY <1>5, <2>1, PushSet DEF FreeSlotRelease
  <2>3. conns' = [conns EXCEPT ![Last(stack)] = FreshConnection]
    BY <1>5 DEF FreeSlotRelease
  <2>4. FreshConnection.error = "NONE"
    BY DEF FreshConnection
  <2>5. QED BY <2>1, <2>2, <2>3, <2>4 DEF SlotAccounting, Active, Listed
<1>6. CASE CloseBegins \/ Destroy \/ DestroyNext \/ DestroyFree
  BY <1>4, <1>6 DEF CloseBegins, Destroy, DestroyNext, DestroyFree, tableVars
<1>7. CASE FreeSlot
  BY <1>4, <1>5, <1>7, FreeSlotKinds DEF tableVars
<1>8. QED BY <1>1, <1>2, <1>3, <1>6, <1>7, StepKinds

\* Every socket number in the table is open and belongs to one slot, and a
\* connection in use has one: a descriptor kept by a failed create counts too.
SocketsOwned ==
  \A i \in Slots :
    /\ conns[i].socket \in open \cup {-1}
    /\ Active(i) => conns[i].socket # -1
    /\ \A j \in Slots : conns[j].socket = conns[i].socket => i = j \/ conns[i].socket = -1

\* Every step keeps sockets distinct: socket() never returns an open descriptor.
LEMMA SocketsNext ==
  ASSUME TypeInv, FreeListSound, FrameChain, SocketsOwned, [ConnsNext]_connVars
  PROVE  SocketsOwned'
<1>0. -1 \notin open
  BY ConnsAssumption DEF TypeInv, ConnsTypeOK
<1>1. ASSUME NEW i \in Slots, NEW b, SlotTaken(i, b)
      PROVE  SocketsOwned'
  <2>1. conns[i].state = "FREE" /\ conns[i].socket = -1
    BY <1>1, TakenSlot DEF SlotTaken
  <2>2. QED BY <1>0, <1>1, <2>1 DEF SlotTaken, SameBut, SocketsOwned, Active
<1>2. ASSUME NEW i \in Slots, SlotRead(i)
      PROVE  SocketsOwned'
  BY <1>2 DEF SlotRead, SameBut, SocketsOwned, Active
<1>3. CASE Quiet
  BY <1>3 DEF Quiet, SameBut, SocketsOwned, Active
<1>4. CASE conns' = conns /\ open \subseteq open'
  BY <1>4 DEF SocketsOwned, Active
<1>5. CASE FreeSlotRelease
  <2>1. /\ Last(stack) \in Slots /\ conns \in [Slots -> ConnectionData]
        /\ conns' = [conns EXCEPT ![Last(stack)] = FreshConnection] /\ open' = open
    BY <1>5, ReleasedSlot DEF FreeSlotRelease, TypeInv, ConnsTypeOK, kernelVars
  <2>2. FreshConnection.socket = -1 /\ FreshConnection.state = "FREE"
    BY DEF FreshConnection
  <2>3. QED BY <1>0, <2>1, <2>2 DEF SocketsOwned, Active
<1>6. CASE CloseBegins \/ Destroy \/ DestroyNext \/ DestroyFree
  BY <1>4, <1>6 DEF CloseBegins, Destroy, DestroyNext, DestroyFree, tableVars, kernelVars
<1>7. CASE FreeSlot
  BY <1>4, <1>5, <1>7, FreeSlotKinds DEF tableVars, kernelVars
<1>8. QED BY <1>1, <1>2, <1>3, <1>6, <1>7, StepKinds

-----------------------------------------------------------------------------
(* Heap blocks and the destructor.                                         *)

\* The destructor's loop: it has not begun while other calls run; the slots it
\* has passed have no live block if they are in use; the slot it is at is in use
\* or was released by the recursion.
DestructorLoop ==
  /\ pc \in {"idle", "close", "recv_all"} => cursor = 0
  /\ \A i \in Slots : i < cursor /\ Active(i) => conns[i].recv_buffer \notin heap
  /\ pc \in {"dtor_close", "dtor_free"} =>
       Active(cursor) \/ conns[cursor].recv_buffer = NULL
  /\ pc = "destroyed" => cursor = MAX_CONNECTIONS

\* Every step keeps the ownership of blocks and the destructor's progress.
LEMMA BlocksNext ==
  ASSUME TypeInv, FreeListSound, FrameChain, BlockOwnership, DestructorLoop,
         [ConnsNext]_connVars
  PROVE  BlockOwnership' /\ DestructorLoop'
<1>0. /\ NULL \notin heap /\ conns \in [Slots -> ConnectionData]
      /\ cursor \in 0 .. MAX_CONNECTIONS /\ MAX_CONNECTIONS \in Nat
      /\ Slots = 0 .. MAX_CONNECTIONS - 1
      /\ \A i \in Slots : conns[i].state \in {"FREE", "ACTIVE"}
  BY ConnsAssumption DEF TypeInv, ConnsTypeOK, Slots, ConnectionData
<1>1. ASSUME NEW i \in Slots, NEW b, SlotTaken(i, b)
      PROVE  BlockOwnership' /\ DestructorLoop'
  <2>1. conns[i].recv_buffer = NULL
    BY <1>1, TakenSlot DEF SlotTaken
  <2>2. /\ cursor = 0 /\ cursor' = 0 /\ pc' \in {"idle", "out_of_bounds"}
        /\ b \in Bufs \ heap \/ b = NULL
        /\ heap' = heap \cup ({b} \ {NULL})
    BY <1>1 DEF SlotTaken, TakeSlot, DestructorLoop
  <2>3. \A j \in Slots : conns[j].recv_buffer \in heap \cup {NULL}
    BY <1>0, <2>2 DEF BlockOwnership
  <2>4. BlockOwnership'
    BY <1>0, <1>1, <2>1, <2>2, <2>3 DEF SlotTaken, SameBut, BlockOwnership
  <2>5. DestructorLoop'
    BY <1>0, <2>2 DEF DestructorLoop
  <2>6. QED BY <2>4, <2>5
<1>2. ASSUME NEW i \in Slots, SlotRead(i), pc' = pc, pc \in {"idle", "recv_all"}
      PROVE  BlockOwnership' /\ DestructorLoop'
  <2>1. cursor = 0 /\ cursor' = 0
    BY <1>2 DEF SlotRead, DestructorLoop
  <2>2. \A j \in Slots : conns[j].recv_buffer \in heap \cup {NULL}
    BY <1>0, <2>1 DEF BlockOwnership
  <2>3. BlockOwnership'
    <3>1. CASE conns'[i].recv_buffer = conns[i].recv_buffer
      <4>1. heap' = heap
        BY <1>2, <2>2, <3>1 DEF SlotRead
      <4>2. \A j \in Slots : conns'[j].recv_buffer = conns[j].recv_buffer
        BY <1>2, <3>1 DEF SlotRead, SameBut
      <4>3. QED BY <2>2, <4>1, <4>2 DEF BlockOwnership
    <3>2. CASE conns[i].recv_buffer = NULL /\ conns'[i].recv_buffer \in Bufs \ heap
      <4> DEFINE b == conns'[i].recv_buffer
      <4>1. b \notin heap /\ b # NULL /\ heap' = heap \cup {b}
        BY <1>2, <3>2, ConnsAssumption DEF SlotRead
      <4>2. \A j \in Slots \ {i} : conns'[j].recv_buffer = conns[j].recv_buffer
        BY <1>2 DEF SlotRead, SameBut
      <4>3. conns'[i].recv_buffer = b
        OBVIOUS
      <4> HIDE DEF b
      <4>4. QED BY <1>0, <2>2, <3>2, <4>1, <4>2, <4>3 DEF BlockOwnership
    <3>3. QED BY <1>2, <3>1, <3>2 DEF SlotRead
  <2>4. DestructorLoop'
    BY <1>0, <1>2, <2>1 DEF DestructorLoop
  <2>5. QED BY <2>3, <2>4
<1>3. CASE Quiet
  BY <1>0, <1>3 DEF Quiet, SameBut, BlockOwnership, DestructorLoop, Active, TypeInv, CallShape
<1>4. CASE CloseBegins
  BY <1>4 DEF CloseBegins, BlockOwnership, DestructorLoop, Active
<1>5. CASE FreeSlot
  <2>0. /\ cursor' = cursor /\ pc \in {"close", "dtor_close"}
        /\ pc = "dtor_close" => cursor \in Slots
    BY <1>0, <1>5, FreeSlotKinds DEF InFreeSlot, TypeInv, CallShape
  <2>1. /\ pc' \in {pc, "idle", "dtor_free"} \cup (Ended \ {"destroyed"})
        /\ pc' = "idle" => pc = "close"
        /\ pc' = "dtor_free" => pc = "dtor_close"
    BY <1>5, <2>0 DEF FreeSlot, FreeSlotOutOfBounds, FreeSlotSkip, FreeSlotRecurse, FreeSlotDoubleFree,
           FreeSlotRelease, PopFrame, Ended
  <2>2. CASE FreeSlotRelease
    <3> DEFINE i == Last(stack)
               b == conns[i].recv_buffer
    <3>1. i \in Slots /\ Active(i)
      BY <2>2, ReleasedSlot
    <3>2. /\ b = NULL \/ b \in heap
          /\ heap' = heap \ {b}
          /\ conns' = [conns EXCEPT ![i] = FreshConnection]
      BY <2>2 DEF FreeSlotRelease, DoubleFree
    <3>3. FreshConnection.recv_buffer = NULL /\ FreshConnection.state = "FREE"
      BY DEF FreshConnection
    <3>4. /\ conns'[i].recv_buffer = NULL /\ conns'[i].state = "FREE"
          /\ \A j \in Slots \ {i} : conns'[j] = conns[j]
      BY <1>0, <3>1, <3>2, <3>3
    <3>5. \A j \in Slots \ {i} : conns[j].recv_buffer = b => b = NULL
      BY <3>1 DEF BlockOwnership
    <3> HIDE DEF i
    <3>6. BlockOwnership'
      <4>1. \A x \in heap' : \E j \in Slots : conns'[j].recv_buffer = x
        <5>1. TAKE x \in heap'
        <5>2. PICK j \in Slots : conns[j].recv_buffer = x
          BY <3>2 DEF BlockOwnership
        <5>3. j # i
          BY <3>2, <5>1, <5>2
        <5>4. QED BY <3>4, <5>2, <5>3
      <4>2. \A j, k \in Slots : conns'[j].recv_buffer = conns'[k].recv_buffer
                                  => j = k \/ conns'[j].recv_buffer = NULL
        BY <3>4 DEF BlockOwnership
      <4>3. \A j \in Slots : \/ conns'[j].recv_buffer \in heap' \cup {NULL}
                             \/ j < cursor' /\ conns'[j].state = "ACTIVE"
        <5> HIDE DEF b
        <5>1. ASSUME NEW j \in Slots \ {i}, conns[j].recv_buffer \in heap \cup {NULL}
              PROVE  conns'[j].recv_buffer \in heap' \cup {NULL}
          BY <3>2, <3>4, <3>5, <5>1
        <5>2. ASSUME NEW j \in Slots \ {i}, j < cursor, conns[j].state = "ACTIVE"
              PROVE  j < cursor' /\ conns'[j].state = "ACTIVE"
          BY <2>0, <3>4, <5>2
        <5>3. \A j \in Slots : \/ conns[j].recv_buffer \in heap \cup {NULL}
                               \/ j < cursor /\ conns[j].state = "ACTIVE"
          BY DEF BlockOwnership, Active
        <5>4. QED BY <3>4, <5>1, <5>2, <5>3
      <4>4. QED BY <4>1, <4>2, <4>3 DEF BlockOwnership, Active
    <3>7. DestructorLoop'
      BY <2>0, <2>1, <3>1, <3>2, <3>4 DEF DestructorLoop, Active, Ended
    <3>8. QED BY <3>6, <3>7
  <2>3. CASE UNCHANGED tableVars
    BY <1>0, <2>0, <2>1, <2>3 DEF tableVars, BlockOwnership, DestructorLoop, Active, Ended
  <2>4. QED BY <1>5, <2>2, <2>3, FreeSlotKinds
<1>6. CASE Destroy
  BY <1>0, <1>6 DEF Destroy, tableVars, BlockOwnership, DestructorLoop, Active
<1>7. CASE DestroyNext
  <2>1. /\ pc = "dtor_next" /\ UNCHANGED <<conns, heap>>
        /\ \/ cursor = MAX_CONNECTIONS /\ pc' = "destroyed" /\ cursor' = cursor
           \/ /\ cursor \in Slots /\ ~Active(cursor)
              /\ pc' = pc /\ cursor' = cursor + 1
           \/ /\ cursor \in Slots /\ Active(cursor)
              /\ pc' = "dtor_close" /\ cursor' = cursor
    BY <1>0, <1>7 DEF DestroyNext, tableVars, Active
  <2>2. BlockOwnership'
    BY <1>0, <2>1 DEF BlockOwnership, Active
  <2>3. DestructorLoop'
    BY <1>0, <2>1 DEF DestructorLoop, Active
  <2>4. QED BY <2>2, <2>3
<1>8. CASE DestroyFree
  <2>1. pc = "dtor_free" /\ conns' = conns /\ cursor \in Slots
    BY <1>0, <1>8 DEF DestroyFree, TypeInv, CallShape
  <2>2. Active(cursor) \/ conns[cursor].recv_buffer = NULL
    BY <2>1 DEF DestructorLoop
  <2>3. CASE DoubleFree(conns[cursor].recv_buffer)
    BY <1>8, <2>1, <2>3 DEF DestroyFree, BlockOwnership, DestructorLoop, Active
  <2>4. CASE ~DoubleFree(conns[cursor].recv_buffer)
    <3>1. /\ heap' = heap \ {conns[cursor].recv_buffer}
          /\ cursor' = cursor + 1 /\ pc' = "dtor_next"
      BY <1>8, <2>4 DEF DestroyFree
    <3>2. \A j \in Slots : j < cursor' <=> j < cursor \/ j = cursor
      BY <1>0, <2>1, <3>1
    <3>3. BlockOwnership'
      BY <1>0, <2>1, <2>2, <3>1, <3>2 DEF BlockOwnership, Active
    <3>4. DestructorLoop'
      BY <1>0, <2>1, <3>1, <3>2 DEF DestructorLoop, Active
    <3>5. QED BY <3>3, <3>4
  <2>5. QED BY <2>3, <2>4
<1>9. QED BY <1>1, <1>2, <1>3, <1>4, <1>5, <1>6, <1>7, <1>8, StepKinds

-----------------------------------------------------------------------------
(* How close can end, and what it can reach.                               *)

\* The recursion meets a frame again only along a cycle of connections.
LEMMA OverflowNext ==
  ASSUME TypeInv, FrameChain, OverflowMeansCycle, [ConnsNext]_connVars
  PROVE  OverflowMeansCycle'
<1> SUFFICES ASSUME pc' = "stack_overflow"
             PROVE  \E C \in SUBSET Slots :
                      /\ C # {}
                      /\ \A i \in C : conns'[i].state = "ACTIVE" /\ conns'[i].socket \in C
  BY DEF OverflowMeansCycle, Active
<1>1. CASE FreeSlotRecurse
  <2> DEFINE n == Len(stack)
             s == conns[Last(stack)].socket
  <2>1. /\ stack \in Seq(Slots \cup Fds \cup {-1}) /\ n \in Nat \ {0}
        /\ Last(stack) = stack[n]
    BY <1>1, PopType DEF FreeSlotRecurse, InFreeSlot, TypeInv, ConnsTypeOK
  <2>2. /\ stack[n] \in Slots /\ conns' = conns
        /\ conns[stack[n]].state = "ACTIVE"
        /\ s \in ToSet(stack)
    <3>1. pc # "stack_overflow"
      BY <1>1 DEF FreeSlotRecurse, InFreeSlot
    <3>2. QED
      BY <1>1, <2>1, <3>1
      DEF FreeSlotRecurse, tableVars, TypeInv, ConnsTypeOK, ConnectionData
  <2>3. PICK m \in 1 .. n : stack[m] = conns[stack[n]].socket
    BY <2>1, <2>2 DEF ToSet
  <2> DEFINE C == {stack[k] : k \in m .. n}
  <2>4. \A k \in 1 .. n : stack[k] \in Slots /\ conns[stack[k]].state = "ACTIVE"
    BY <2>1, <2>2 DEF FrameChain, Active
  <2>5. \A k \in m .. n : conns[stack[k]].socket \in C
    <3>1. TAKE k \in m .. n
    <3>2. CASE k = n
      BY <2>1, <2>3, <3>2
    <3>3. CASE k # n
      <4>1. conns[stack[k]].socket = stack[k + 1] /\ k + 1 \in m .. n
        BY <2>1, <3>3 DEF FrameChain
      <4>2. QED BY <4>1
    <3>4. QED BY <3>2, <3>3
  <2>6. C \in SUBSET Slots /\ C # {}
    BY <2>1, <2>4
  <2>7. \A i \in C : conns'[i].state = "ACTIVE" /\ conns'[i].socket \in C
    BY <2>2, <2>4, <2>5
  <2> HIDE DEF C
  <2>8. QED BY <2>6, <2>7
<1>2. CASE pc = "stack_overflow" /\ conns' = conns
  BY <1>2 DEF OverflowMeansCycle, Active
<1>3. FreeSlotRecurse \/ (pc = "stack_overflow" /\ conns' = conns)
  <2> USE DEF tableVars, kernelVars, callVars, Ended
  <2>1. CASE Create \/ Serve
    BY <2>1, CreateTakes DEF SlotTaken, TakeSlot
  <2>2. CASE Environment
    BY <2>2 DEF Environment, ForeignOpen, ForeignClose, Arrive
  <2>3. CASE FreeSlot
    BY <2>3 DEF FreeSlot, FreeSlotOutOfBounds, FreeSlotSkip, FreeSlotDoubleFree,
                FreeSlotRelease, PopFrame, InFreeSlot
  <2>4. CASE \/ \E i \in Slots : Close(i) \/ Recv(i) \/ RecvFrom(i) \/ SendFails(i)
             \/ SendOneshot
             \/ Destroy \/ DestroyNext \/ DestroyFree
    BY <2>4 DEF Close, Recv, RecvFrom, SendFails, SendOneshot, Destroy, DestroyNext, DestroyFree
  <2>5. CASE \/ \E ids \in IdLists : RecvFromAll(ids) \/ RecvFromAllPollFails(ids)
             \/ RecvFromAllNext \/ RecvFromAllDone
    BY <2>5 DEF RecvFromAll, RecvFromAllPollFails, RecvFromAllNext, RecvFromAllDone
  <2>6. CASE Finished \/ UNCHANGED connVars
    BY <2>6 DEF Finished, connVars
  <2>7. QED BY <2>1, <2>2, <2>3, <2>4, <2>5, <2>6 DEF ConnsNext, ConnsCalls
<1>4. QED BY <1>1, <1>2, <1>3

\* A step that takes a connection out of use is a release by the innermost frame.
LEMMA ReachNext ==
  ASSUME TypeInv, FrameChain, [ConnsNext]_connVars,
         NEW i \in Slots, Active(i), ~Active(i)'
  PROVE  \/ stack # <<>> /\ i = stack[1]
         \/ \E j \in Slots : Active(j) /\ conns[j].socket = i
<1>1. FreeSlotRelease
  <2>1. ~Quiet /\ ~CloseBegins /\ ~(\E k \in Slots : SlotRead(k))
    BY DEF Quiet, CloseBegins, SlotRead, SameBut, Active
  <2>2. ~(\E k \in Slots, b \in Bufs \cup {NULL} : SlotTaken(k, b))
    BY DEF SlotTaken, SameBut, Active
  <2>3. ~Destroy /\ ~DestroyNext /\ ~DestroyFree
    BY DEF Destroy, DestroyNext, DestroyFree, tableVars, Active
  <2>4. FreeSlot
    BY <2>1, <2>2, <2>3, StepKinds
  <2>5. QED BY <2>4, FreeSlotKinds DEF tableVars, Active
<1>2. /\ Last(stack) \in Slots /\ Len(stack) \in Nat \ {0}
      /\ Last(stack) = stack[Len(stack)]
  BY <1>1, ReleasedSlot
<1>3. i = stack[Len(stack)]
  <2>1. conns' = [conns EXCEPT ![Last(stack)] = FreshConnection]
    BY <1>1 DEF FreeSlotRelease
  <2>2. QED BY <1>2, <2>1 DEF Active, TypeInv, ConnsTypeOK
<1>4. CASE Len(stack) = 1
  <2>1. stack # <<>>
    BY <1>1 DEF FreeSlotRelease, InFreeSlot
  <2>2. QED BY <1>3, <1>4, <2>1
<1>5. CASE Len(stack) # 1
  <2>1. Len(stack) - 1 \in 1 .. Len(stack) /\ Len(stack) - 1 < Len(stack)
    BY <1>2, <1>5
  <2>2. /\ stack[Len(stack) - 1] \in Slots /\ Active(stack[Len(stack) - 1])
        /\ conns[stack[Len(stack) - 1]].socket = stack[Len(stack)]
    BY <1>2, <2>1 DEF FrameChain
  <2>3. QED BY <1>3, <2>2
<1>6. QED BY <1>4, <1>5

-----------------------------------------------------------------------------
(* The theorems.                                                           *)

\* The inductive invariant: each of its parts needs others to be preserved.
SafeInv ==
  /\ TypeInv
  /\ FreeListSound
  /\ FrameChain
  /\ SlotAccounting
  /\ SocketsOwned
  /\ BlockOwnership
  /\ DestructorLoop
  /\ OverflowMeansCycle

\* A pool just constructed satisfies it.
LEMMA SafeInit == ConnsInit => SafeInv
<1> SUFFICES ASSUME ConnsInit PROVE SafeInv
  OBVIOUS
<1>1. TypeInv
  BY TypeInit
<1>2. /\ Slots = 0 .. MAX_CONNECTIONS - 1 /\ MAX_CONNECTIONS \in Nat \ {0}
      /\ free_indices = [k \in 1 .. MAX_CONNECTIONS |-> MAX_CONNECTIONS - k]
      /\ Len(free_indices) = MAX_CONNECTIONS
  BY <1>1, ConnsAssumption DEF ConnsInit, Slots, TypeInv, ConnsTypeOK
<1>3. \A i \in Slots : conns[i] = FreshConnection
  BY DEF ConnsInit
<1>4. \A i \in Slots : /\ conns[i].state = "FREE" /\ conns[i].recv_buffer = NULL
                       /\ conns[i].socket = -1
  BY <1>3 DEF FreshConnection
<1>5. \A i \in Slots : Listed(i)
  <2>1. TAKE i \in Slots
  <2>2. MAX_CONNECTIONS - i \in 1 .. MAX_CONNECTIONS /\ free_indices[MAX_CONNECTIONS - i] = i
    BY <1>2
  <2>3. QED BY <1>2, <2>2 DEF Listed, ToSet
<1>6. FreeListSound
  BY <1>2, <1>4 DEF FreeListSound
<1>7. SlotAccounting /\ SocketsOwned /\ BlockOwnership
  <2>1. \A i \in Slots : conns[i].error = "NONE"
    BY <1>3 DEF FreshConnection
  <2>2. QED BY <1>4, <1>5, <2>1 DEF SlotAccounting, SocketsOwned, BlockOwnership, Active, ConnsInit
<1>8. Len(stack) = 0 /\ cursor = 0 /\ pc = "idle"
  BY DEF ConnsInit
<1>9. FrameChain /\ DestructorLoop /\ OverflowMeansCycle
  BY <1>2, <1>8 DEF FrameChain, DestructorLoop, OverflowMeansCycle
<1>10. QED BY <1>1, <1>6, <1>7, <1>9 DEF SafeInv

\* Every step preserves it.
LEMMA SafeNext == SafeInv /\ [ConnsNext]_connVars => SafeInv'
<1> SUFFICES ASSUME SafeInv, [ConnsNext]_connVars PROVE SafeInv'
  OBVIOUS
<1>1. TypeInv'
  BY TypeNext DEF SafeInv
<1>2. FreeListSound' /\ FrameChain' /\ SlotAccounting' /\ SocketsOwned'
  BY <1>1, FreeListNext, FrameChainNext, AccountingNext, SocketsNext DEF SafeInv
<1>3. BlockOwnership' /\ DestructorLoop' /\ OverflowMeansCycle'
  BY BlocksNext, OverflowNext DEF SafeInv
<1>4. QED BY <1>1, <1>2, <1>3 DEF SafeInv

\* The invariant holds in every state of the table.
LEMMA SafeAlways == ConnsSpec => []SafeInv
  BY SafeInit, SafeNext, PTL DEF ConnsSpec

\* alloc_slot never hands out a slot that is in use, and free_slot never lists a
\* slot twice, however the recursion through close interleaves with the table.
THEOREM FreeListCorrect == ConnsSpec => []FreeListSound
<1>1. SafeInv => FreeListSound
  BY DEF SafeInv
<1>2. QED BY <1>1, SafeAlways, PTL

\* A slot is in use, free to hand out, or lost with an error the caller can see.
THEOREM AccountingCorrect == ConnsSpec => []SlotAccounting
<1>1. SafeInv => SlotAccounting
  BY DEF SafeInv
<1>2. QED BY <1>1, SafeAlways, PTL

\* No two slots share a heap block, and none is live without a slot that names it.
THEOREM BlocksCorrect == ConnsSpec => []BlockOwnership
<1>1. SafeInv => BlockOwnership
  BY DEF SafeInv
<1>2. QED BY <1>1, SafeAlways, PTL

\* No two connections share a socket, although none is ever given back.
THEOREM DescriptorsCorrect == ConnsSpec => []DescriptorsDistinct
<1>1. SafeInv => DescriptorsDistinct
  BY DEF SafeInv, SocketsOwned, DescriptorsDistinct
<1>2. QED BY <1>1, SafeAlways, PTL

\* The nested frames of free_slot follow the descriptors and never repeat a slot.
THEOREM FramesCorrect == ConnsSpec => []FrameChain
<1>1. SafeInv => FrameChain
  BY DEF SafeInv
<1>2. QED BY <1>1, SafeAlways, PTL

\* The destructor frees the block of every connection that was in use.
THEOREM DestructorCorrect == ConnsSpec => []DestructorFrees
<1>1. SafeInv => DestructorFrees
  <2> SUFFICES ASSUME SafeInv, pc = "destroyed", NEW i \in Slots, conns[i].recv_buffer \in heap
               PROVE  ~Active(i) /\ ~Listed(i)
    BY DEF DestructorFrees
  <2>1. i < cursor /\ NULL \notin heap
    BY ConnsAssumption DEF SafeInv, DestructorLoop, Slots, TypeInv, ConnsTypeOK
  <2>2. QED BY <2>1 DEF SafeInv, DestructorLoop, FreeListSound
<1>2. QED BY <1>1, SafeAlways, PTL

\* close recurses without end only along a cycle of connections, each of which
\* has the next one's slot number as its descriptor.
THEOREM OverflowCorrect == ConnsSpec => []OverflowMeansCycle
<1>1. SafeInv => OverflowMeansCycle
  BY DEF SafeInv
<1>2. QED BY <1>1, SafeAlways, PTL

\* Closing one connection takes another out of use only when its slot number is
\* the descriptor of a connection in use.
THEOREM ReachCorrect == ConnsSpec => CloseReach
<1>1. SafeInv /\ [ConnsNext]_connVars =>
        [\A i \in Slots : Active(i) /\ ~Active(i)' =>
           \/ stack # <<>> /\ i = stack[1]
           \/ \E j \in Slots : Active(j) /\ conns[j].socket = i]_connVars
  BY ReachNext DEF SafeInv
<1>2. QED BY <1>1, SafeAlways, PTL DEF ConnsSpec, CloseReach
=============================================================================
