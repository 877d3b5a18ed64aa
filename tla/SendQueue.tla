------------------------------ MODULE SendQueue ------------------------------
(***************************************************************************)
(* What UDPPool promises of the packets given to send and send_to, without *)
(* the ring: a queue that keeps the newest Capacity packets, is sent from  *)
(* its front and nowhere else, and says what becomes of each packet.       *)
(*                                                                         *)
(* A packet is the number of its call.  calls says of each call how long   *)
(* its packet is, what it returned, whether it took a place in the queue   *)
(* and whether the kernel failed it for good; wire is the packets sent, in *)
(* their order.  A place keeps the length modulo Limit, and one whose      *)
(* length is then 0 is passed over: such a packet is never sent, although  *)
(* the call answers BUFFERED.  No other packet is dropped but by the       *)
(* Capacity-th call that takes a place after it.                           *)
(***************************************************************************)
EXTENDS Naturals, Sequences, FiniteSets

CONSTANTS Capacity, Limit, Sizes

VARIABLES queue, wire, calls

Init == queue = <<>> /\ wire = <<>> /\ calls = <<>>

\* The first k packets leave, the others stay.
Sent(k) == SubSeq(queue, 1, k)
Rest(k) == SubSeq(queue, k + 1, Len(queue))

\* The oldest packet is given up once Capacity calls after it have taken a place.
Later(m, cs) == {j \in m + 1 .. Len(cs) : cs[j].queued}
Kept(q, cs)  ==
  IF q # <<>> /\ Cardinality(Later(q[1], cs)) >= Capacity THEN Tail(q) ELSE q

Called(size, result, queued, failed) ==
  calls' = Append(calls, [size |-> size, result |-> result, queued |-> queued,
                          failed |-> failed])

\* What a place keeps of the length is 0: the packet is empty, or a multiple of Limit.
Vanishes(size) == size % Limit = 0

Flush(k) == wire' = wire \o Sent(k) /\ queue' = Rest(k) /\ UNCHANGED calls

\* The packet waits behind the others.
Buffer(k, size, failed) ==
  /\ ~Vanishes(size)
  /\ wire' = wire \o Sent(k)
  /\ Called(size, "BUFFERED", TRUE, failed)
  /\ queue' = Kept(Append(Rest(k), Len(calls')), calls')

\* The call takes a place and leaves nothing to send in it: the length vanishes, or
\* there is no memory for the packet, and only then the answer is FAILED.
Waste(k, size, result, failed) ==
  /\ \/ result = "BUFFERED" /\ Vanishes(size)
     \/ result = "FAILED" /\ size > 0
  /\ wire' = wire \o Sent(k)
  /\ Called(size, result, TRUE, failed)
  /\ queue' = Kept(Rest(k), calls')

\* The packet is sent in the call, ahead of packets that wait only when the
\* kernel has failed one of those in the same call.  A datagram is below Limit.
Direct(k, size, failed) ==
  /\ size < Limit
  /\ Rest(k) = <<>> \/ failed
  /\ wire' = (wire \o Sent(k)) \o <<Len(calls')>>
  /\ Called(size, "OK", FALSE, failed)
  /\ queue' = Rest(k)

\* The packet is not sent and not kept.
Refuse(k, size) ==
  /\ wire' = wire \o Sent(k)
  /\ Called(size, "FAILED", FALSE, TRUE)
  /\ queue' = Rest(k)

Next ==
  \E k \in 0 .. Len(queue) :
    \/ Flush(k)
    \/ \E size \in Sizes :
         \/ Refuse(k, size)
         \/ \E failed \in BOOLEAN :
              \/ Direct(k, size, failed)
              \/ Buffer(k, size, failed)
              \/ \E result \in {"BUFFERED", "FAILED"} : Waste(k, size, result, failed)

Spec == Init /\ [][Next]_<<queue, wire, calls>>
=============================================================================
