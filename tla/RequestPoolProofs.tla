------------------------- MODULE RequestPoolProofs -------------------------
(***************************************************************************)
(* Proofs about the pool of requests, for every number of slots, every set *)
(* of results and every bound.                                             *)
(***************************************************************************)
EXTENDS RequestPool, SequenceTheorems, FiniteSetTheorems, TLAPS

MAX == MAX_CONCURRENT_REQUESTS

Request ==
  [state : {"FREE", "PENDING", "COMPLETE", "ERROR"},
   error : {"NONE"} \cup {curl_to_error(code) : code \in Codes},
   data_length : Nat, curl : Indices \cup {NULL}]

Easy ==
  [writedata : Indices \cup {NULL}, options : SUBSET {"headers", "post"},
   phase : {"idle", "running", "done"}, result : Codes \cup {NULL}]

Chunk == [req : Indices, n : Nat]

\* The type of the variables.
TypeOK ==
  /\ requests \in [Indices -> Request]
  /\ free_indices \in Seq(Indices)
  /\ responses \in Seq(Chunk)
  /\ generation \in Nat
  /\ active_count \in Int
  /\ next_curl_handle \in Indices
  /\ easy \in [Indices -> Easy]
  /\ msgs \in Seq(Indices)
  /\ pc \in {"idle", "perform", "read"} \cup Ended
  /\ handles \subseteq [index : Indices, generation : Nat]
  /\ starts \in [Indices -> Nat]
  /\ again \in Nat
  /\ log \in Seq(Chunk)

\* The slots handed out so far.
Used == MAX - Len(free_indices)

\* No slot is ever given back, so slots and easy handles are handed out in the same
\* order, and slot i has the easy handle i.
SlotsInOrder ==
  /\ Len(free_indices) <= MAX
  /\ \A k \in 1 .. Len(free_indices) : free_indices[k] = MAX - k
  /\ next_curl_handle = IF Used = MAX THEN 0 ELSE Used
  /\ \A i \in Indices : Created(i) <=> i < Used
  /\ \A i \in Indices : requests[i].curl = IF Created(i) THEN i ELSE NULL
  /\ \A i \in Indices : Created(i) => easy[i].writedata = i
  /\ \A c \in Indices : easy[c].phase # "idle" => Created(c)

\* The first generation lasts until create finds no slot.
FirstGeneration ==
  /\ generation = IF pc = "undefined" THEN 1 ELSE 0
  /\ pc = "undefined" => Used = MAX
  /\ IsFiniteSet(handles)
  /\ Cardinality(handles) = Used
  /\ \A h \in handles : h.generation = 0 /\ Created(h.index)

\* The unread messages are those of the transfers that are done.
MessagesMatch ==
  /\ pc \notin {"perform", "read"} => msgs = <<>>
  /\ \A k \in 1 .. Len(msgs) : easy[msgs[k]].phase = "done"
  /\ \A j, k \in 1 .. Len(msgs) : msgs[j] = msgs[k] => j = k
  /\ \A c \in Indices : easy[c].phase = "done" =>
       easy[c].result \in Codes /\ \E k \in 1 .. Len(msgs) : msgs[k] = c

\* Every span lies in the shared vector.
SpansInside == \A i \in Indices : requests[i].data_length <= Len(responses)

SlotsInv == TypeOK /\ SlotsInOrder /\ FirstGeneration /\ MessagesMatch /\ SpansInside

\* The outcome of request i is that of its own last transfer; an error is from a
\* transfer that ended, and a new transfer from one more start.
OutcomeAt(i) ==
  /\ requests[i].state = "PENDING" => requests[i].error = "NONE"
  /\ easy[i].phase # "idle" => starts[i] >= 1
  /\ Created(i) /\ requests[i].error # "NONE" => starts[i] >= 1
  /\ Created(i) /\ requests[i].error # "NONE" /\ easy[i].phase # "idle" => starts[i] >= 2
  /\ Created(i) /\ requests[i].state # "PENDING" /\ easy[i].phase # "done" =>
       /\ requests[i].state = "COMPLETE" <=> easy[i].result = "CURLE_OK"
       /\ requests[i].state = "ERROR" => requests[i].error = curl_to_error(easy[i].result)
       /\ requests[i].state = "COMPLETE" /\ requests[i].error # "NONE" => starts[i] > 1

OutcomeInv == \A i \in Indices : OutcomeAt(i)

\* What is delivered is delivered to a request that was created, and recorded.
DeliveryLogged ==
  /\ \A k \in 1 .. Len(log) : Created(log[k].req)
  /\ \A i \in Indices : requests[i].data_length > 0 =>
       \E k \in 1 .. Len(log) : log[k].req = i

\* LatestIntact, of the vector itself.
LatestInFront ==
  OneAfterTheOther /\ log # <<>> =>
    LET i == Last(log).req IN
    \A n \in 1 .. requests[i].data_length : responses[n] = [req |-> i, n |-> n]

DataInv == DeliveryLogged /\ ResponsesAccounted /\ LatestInFront

-----------------------------------------------------------------------------
(* Lemmas on the operators.                                                *)

\* The indices are finite in number.
LEMMA IndicesFinite == IsFiniteSet(Indices) /\ Cardinality(Indices) = MAX /\ MAX \in Nat \ {0}
<1>1. MAX \in Nat \ {0}
  BY RequestAssumption DEF MAX
<1>2. /\ IsFiniteSet(0 .. MAX - 1)
      /\ Cardinality(0 .. MAX - 1) = IF 0 > MAX - 1 THEN 0 ELSE MAX - 1 - 0 + 1
  <2>1. 0 \in Int /\ MAX - 1 \in Int
    BY <1>1
  <2>2. QED BY <2>1, FS_Interval, Zenon
<1>3. QED BY <1>1, <1>2 DEF Indices, MAX

\* Taking the last element of a list.
LEMMA LastFront ==
  ASSUME NEW S, NEW s \in Seq(S), s # <<>>
  PROVE  /\ Len(s) \in Nat \ {0}
         /\ Last(s) = s[Len(s)]
         /\ Last(s) \in S
         /\ Front(s) \in Seq(S)
         /\ Len(Front(s)) = Len(s) - 1
         /\ \A k \in 1 .. Len(s) - 1 : Front(s)[k] = s[k]
<1>1. Len(s) \in Nat \ {0}
  BY EmptySeq
<1>2. Front(s) = [k \in 1 .. Len(s) - 1 |-> s[k]]
  BY <1>1 DEF Front
<1>3. \A k \in 1 .. Len(s) - 1 : s[k] \in S
  BY <1>1
<1>4. Front(s) \in Seq(S) /\ Len(Front(s)) = Len(s) - 1
  BY <1>1, <1>2, <1>3
<1>5. QED BY <1>1, <1>2, <1>4 DEF Last

\* Once no slot is FREE, alloc_slot has none to list.
LEMMA NothingListed ==
  ASSUME free_indices = <<>>, \A i \in Indices : requests[i].state # "FREE"
  PROVE  Listed = <<>>
<1>1. {i \in Indices : requests[i].state = "FREE"} = {}
  OBVIOUS
<1>2. Listed = CHOOSE list \in [1 .. Cardinality({}) -> {}] :
                 \A j, k \in DOMAIN list : j < k => list[j] < list[k]
  BY <1>1 DEF Listed
<1>3. Cardinality({}) = 0
  BY FS_EmptySet
<1>4. \E list \in [1 .. 0 -> {}] : \A j, k \in DOMAIN list : j < k => list[j] < list[k]
  <2>1. <<>> \in [1 .. 0 -> {}]
    OBVIOUS
  <2>2. QED BY <2>1
<1>5. Listed \in [1 .. 0 -> {}]
  BY <1>2, <1>3, <1>4
<1>6. QED BY <1>5

\* alloc_slot while a slot is listed.
LEMMA SlotTaken ==
  ASSUME SlotsInv, Listed # <<>>
  PROVE  /\ Listed = free_indices
         /\ Used \in 0 .. MAX - 1
         /\ Last(Listed) = Used
         /\ next_curl_handle = Used
         /\ NextGeneration = generation
         /\ Front(Listed) \in Seq(Indices)
         /\ Len(Front(Listed)) = Len(free_indices) - 1
         /\ \A k \in 1 .. Len(free_indices) - 1 : Front(Listed)[k] = MAX - k
<1>0. free_indices \in Seq(Indices) /\ Len(free_indices) \in Nat /\ MAX \in Nat \ {0}
  BY LenProperties, IndicesFinite DEF SlotsInv, TypeOK
<1>1. free_indices # <<>>
  <2>1. SUFFICES ASSUME free_indices = <<>> PROVE FALSE
    OBVIOUS
  <2>2. Used = MAX
    BY <1>0, <2>1 DEF Used
  <2>3. \A i \in Indices : requests[i].state # "FREE"
    BY <2>2, <1>0 DEF SlotsInv, SlotsInOrder, Created, Indices, MAX
  <2>4. QED BY <2>1, <2>3, NothingListed
<1>2. Listed = free_indices /\ NextGeneration = generation
  BY <1>1 DEF Listed, NextGeneration
<1>3. /\ Len(free_indices) \in Nat \ {0}
      /\ Last(free_indices) = free_indices[Len(free_indices)]
      /\ Front(free_indices) \in Seq(Indices)
      /\ Len(Front(free_indices)) = Len(free_indices) - 1
      /\ \A k \in 1 .. Len(free_indices) - 1 : Front(free_indices)[k] = free_indices[k]
  BY <1>0, <1>1, LastFront
<1>4. Used \in 0 .. MAX - 1
  BY <1>0, <1>3 DEF Used, SlotsInv, SlotsInOrder
<1>5. QED BY <1>0, <1>2, <1>3, <1>4 DEF Used, SlotsInv, SlotsInOrder

-----------------------------------------------------------------------------
(* What the operations do.                                                 *)

\* create.
LEMMA CreateEffect ==
  ASSUME SlotsInv, Create
  PROVE  /\ Used \in Indices /\ Used < MAX
         /\ requests' \in [Indices -> Request]
         /\ requests'[Used] = [state |-> "PENDING", error |-> "NONE",
                               data_length |-> 0, curl |-> Used]
         /\ \A i \in Indices : i # Used => requests'[i] = requests[i]
         /\ easy' \in [Indices -> Easy]
         /\ easy'[Used].writedata = Used
         /\ \A c \in Indices : /\ easy'[c].phase = easy[c].phase
                               /\ easy'[c].result = easy[c].result
                               /\ c # Used => easy'[c] = easy[c]
         /\ handles' = handles \cup {[index |-> Used, generation |-> generation]}
         /\ free_indices' \in Seq(Indices)
         /\ Len(free_indices') = Len(free_indices) - 1
         /\ \A k \in 1 .. Len(free_indices') : free_indices'[k] = MAX - k
         /\ next_curl_handle' = IF Used + 1 = MAX THEN 0 ELSE Used + 1
         /\ Used' = Used + 1
         /\ UNCHANGED <<generation, responses, active_count, msgs, pc, starts, again, log>>
<1>0. MAX \in Nat \ {0} /\ Indices = 0 .. MAX - 1 /\ Len(free_indices) \in Nat
  BY IndicesFinite, LenProperties DEF Indices, MAX, SlotsInv, TypeOK
<1>1. Listed # <<>>
  BY DEF Create
<1>2. PICK u : u = Used
  OBVIOUS
<1>3. /\ u \in Indices /\ u < MAX
      /\ Last(Listed) = u /\ next_curl_handle = u /\ NextGeneration = generation
      /\ Front(Listed) \in Seq(Indices)
      /\ Len(Front(Listed)) = Len(free_indices) - 1
      /\ \A k \in 1 .. Len(free_indices) - 1 : Front(Listed)[k] = MAX - k
  BY <1>0, <1>1, <1>2, SlotTaken
<1>4. PICK r : r = [state |-> "PENDING", error |-> "NONE", data_length |-> 0, curl |-> u]
  OBVIOUS
<1>5. r \in Request
  BY <1>3, <1>4 DEF Request
<1>6. /\ requests' = [requests EXCEPT ![u] = r]
      /\ easy' = [easy EXCEPT ![u].writedata = u, ![u].options = {}]
      /\ handles' = handles \cup {[index |-> u, generation |-> generation]}
      /\ free_indices' = Front(Listed)
      /\ generation' = generation
      /\ next_curl_handle' = NextCurlHandle
      /\ UNCHANGED <<responses, active_count, msgs, pc, starts, again, log>>
  BY <1>3, <1>4 DEF Create, InitCurlHandle
<1>7. requests \in [Indices -> Request] /\ easy \in [Indices -> Easy]
  BY DEF SlotsInv, TypeOK
<1>8. PICK e : e = [easy[u] EXCEPT !.writedata = u, !.options = {}]
  OBVIOUS
<1>9. /\ e \in Easy /\ e.writedata = u
      /\ e.phase = easy[u].phase /\ e.result = easy[u].result
  <2>1. easy[u] \in Easy
    BY <1>3, <1>7
  <2>2. e \in Easy
    BY <1>3, <1>8, <2>1 DEF Easy
  <2>3. e.writedata = u /\ e.phase = easy[u].phase /\ e.result = easy[u].result
    BY <1>8, <2>1 DEF Easy
  <2>4. QED BY <2>2, <2>3
<1>10. easy' = [easy EXCEPT ![u] = e]
  BY <1>3, <1>6, <1>7, <1>8 DEF Easy
<1>11. /\ easy' \in [Indices -> Easy]
       /\ easy'[u].writedata = u
       /\ \A c \in Indices : /\ easy'[c].phase = easy[c].phase
                             /\ easy'[c].result = easy[c].result
                             /\ c # u => easy'[c] = easy[c]
  BY <1>3, <1>7, <1>9, <1>10
<1>12. /\ requests' \in [Indices -> Request] /\ requests'[u] = r
       /\ \A i \in Indices : i # u => requests'[i] = requests[i]
  BY <1>3, <1>5, <1>6, <1>7
<1>13. next_curl_handle' = IF u + 1 = MAX THEN 0 ELSE u + 1
  BY <1>0, <1>3, <1>6 DEF NextCurlHandle, MAX
<1>14. Used' = u + 1
  BY <1>0, <1>2, <1>3, <1>6 DEF Used
<1>15. /\ free_indices' \in Seq(Indices)
       /\ Len(free_indices') = Len(free_indices) - 1
       /\ \A k \in 1 .. Len(free_indices') : free_indices'[k] = MAX - k
  BY <1>3, <1>6
<1>16. QED BY <1>2, <1>3, <1>4, <1>6, <1>11, <1>12, <1>13, <1>14, <1>15

\* The handles that start and start_batch add to libcurl.
Added(hs) ==
  {c \in {requests[hs[k].index].curl : k \in {k \in 1 .. Len(hs) : valid_handle(hs[k])}} :
     easy[c].phase = "idle"}

\* start and start_batch.
LEMMA StartsEffect ==
  ASSUME SlotsInv, NEW hs \in Seq(handles), Starts(hs)
  PROVE  /\ Added(hs) \subseteq Indices /\ IsFiniteSet(Added(hs))
         /\ \A c \in Added(hs) : Created(c) /\ easy[c].phase = "idle"
         /\ easy' \in [Indices -> Easy]
         /\ \A c \in Indices :
              /\ easy'[c].writedata = easy[c].writedata
              /\ easy'[c].result = easy[c].result
              /\ easy'[c].phase = IF c \in Added(hs) THEN "running" ELSE easy[c].phase
         /\ starts' \in [Indices -> Nat]
         /\ \A c \in Indices : starts'[c] >= starts[c]
         /\ \A c \in Added(hs) : starts'[c] >= starts[c] + 1
         /\ active_count' \in Int /\ again' \in Nat
         /\ active_count' - again' = active_count - again + Cardinality(Added(hs))
<1> DEFINE valid == {k \in 1 .. Len(hs) : valid_handle(hs[k])}
           curls == {requests[hs[k].index].curl : k \in valid}
           times(i) == Cardinality({k \in valid : hs[k].index = i})
<1>0. /\ requests \in [Indices -> Request] /\ easy \in [Indices -> Easy]
      /\ starts \in [Indices -> Nat] /\ active_count \in Int /\ again \in Nat
      /\ Len(hs) \in Nat
  BY LenProperties DEF SlotsInv, TypeOK
<1>1. \A k \in valid : /\ hs[k] \in handles /\ hs[k].index \in Indices
                       /\ Created(hs[k].index)
                       /\ requests[hs[k].index].curl = hs[k].index
  <2>1. \A k \in valid : hs[k] \in handles
    OBVIOUS
  <2>2. \A k \in valid : hs[k].index \in Indices /\ Created(hs[k].index)
    BY <2>1 DEF SlotsInv, TypeOK, FirstGeneration
  <2>3. QED BY <2>1, <2>2 DEF SlotsInv, SlotsInOrder
<1>2. IsFiniteSet(valid) /\ Cardinality(valid) \in Nat
  <2>1. IsFiniteSet(1 .. Len(hs))
    <3>1. 1 \in Int /\ Len(hs) \in Int
      BY <1>0
    <3>2. QED BY <3>1, FS_Interval, Zenon
  <2>2. valid \subseteq 1 .. Len(hs)
    OBVIOUS
  <2>3. QED BY <2>1, <2>2, FS_Subset, FS_CardinalityType
<1>3. curls \subseteq Indices /\ \A c \in curls : Created(c)
  BY <1>1
<1>4. Added(hs) \subseteq curls /\ \A c \in Added(hs) : easy[c].phase = "idle"
  BY DEF Added
<1>5. IsFiniteSet(curls) /\ Cardinality(curls) <= Cardinality(valid)
  <2>1. PICK f : f = [k \in valid |-> requests[hs[k].index].curl]
    OBVIOUS
  <2>2. f \in Surjection(valid, curls)
    BY <2>1 DEF Surjection
  <2>3. QED BY <1>2, <2>2, FS_Surjection
<1>6. /\ IsFiniteSet(Added(hs)) /\ Cardinality(Added(hs)) \in Nat
      /\ Cardinality(Added(hs)) <= Cardinality(curls)
  BY <1>4, <1>5, FS_Subset, FS_CardinalityType
<1>7. Cardinality(curls) \in Nat
  BY <1>5, FS_CardinalityType
<1>8. /\ active_count' = active_count + Cardinality(valid)
      /\ again' = again + Cardinality(valid) - Cardinality(Added(hs))
      /\ easy' = [c \in Indices |-> IF c \in Added(hs)
                                    THEN [easy[c] EXCEPT !.phase = "running"] ELSE easy[c]]
      /\ starts' = [i \in Indices |-> starts[i] + times(i)]
  BY DEF Starts, Added
<1>9. /\ active_count' \in Int /\ again' \in Nat
      /\ active_count' - again' = active_count - again + Cardinality(Added(hs))
  <2> HIDE DEF valid, curls
  <2>1. QED BY <1>0, <1>2, <1>5, <1>6, <1>7, <1>8
<1>10. /\ easy' \in [Indices -> Easy]
       /\ \A c \in Indices :
            /\ easy'[c].writedata = easy[c].writedata
            /\ easy'[c].result = easy[c].result
            /\ easy'[c].phase = IF c \in Added(hs) THEN "running" ELSE easy[c].phase
  <2>1. ASSUME NEW e \in Easy
        PROVE  /\ [e EXCEPT !.phase = "running"] \in Easy
               /\ [e EXCEPT !.phase = "running"].writedata = e.writedata
               /\ [e EXCEPT !.phase = "running"].result = e.result
               /\ [e EXCEPT !.phase = "running"].phase = "running"
    BY DEF Easy
  <2>2. \A c \in Indices : easy[c] \in Easy
    BY <1>0
  <2>3. QED BY <1>8, <2>1, <2>2
<1>11. \A i \in Indices : /\ IsFiniteSet({k \in valid : hs[k].index = i})
                          /\ times(i) \in Nat
  <2>1. \A i \in Indices : {k \in valid : hs[k].index = i} \in SUBSET valid
    OBVIOUS
  <2>2. QED BY <1>2, <2>1, FS_Subset, FS_CardinalityType
<1>12. starts' \in [Indices -> Nat] /\ \A c \in Indices : starts'[c] >= starts[c]
  <2>1. /\ starts' = [i \in Indices |-> starts[i] + times(i)]
        /\ \A i \in Indices : times(i) \in Nat
    BY <1>8, <1>11
  <2> HIDE DEF valid, times
  <2>2. \A i \in Indices : starts[i] \in Nat
    BY <1>0
  <2>3. \A i \in Indices : starts'[i] = starts[i] + times(i)
    BY <2>1, Zenon
  <2>4. QED BY <2>1, <2>2, <2>3
<1>13. \A c \in Added(hs) : starts'[c] >= starts[c] + 1
  <2>1. SUFFICES ASSUME NEW c \in Added(hs) PROVE starts'[c] >= starts[c] + 1
    OBVIOUS
  <2>2. PICK k \in valid : requests[hs[k].index].curl = c
    BY <1>4
  <2>3. k \in {j \in valid : hs[j].index = c} /\ c \in Indices
    BY <1>1, <2>2
  <2>4. times(c) # 0
    <3>1. {j \in valid : hs[j].index = c} # {}
      BY <2>3
    <3>2. QED BY <1>11, <2>3, <3>1, FS_EmptySet
  <2>5. QED
    <3>1. starts'[c] = starts[c] + times(c) /\ times(c) \in Nat
      BY <1>8, <1>11, <2>3
    <3>2. starts[c] \in Nat
      BY <1>0, <2>3
    <3> HIDE DEF valid, times
    <3>3. QED BY <2>4, <3>1, <3>2
<1>14. QED BY <1>3, <1>4, <1>6, <1>9, <1>10, <1>12, <1>13

\* Inserting into a sequence.
LEMMA InsertEffect ==
  ASSUME NEW S, NEW s \in Seq(S), NEW p \in 1 .. Len(s) + 1, NEW e \in S
  PROVE  /\ InsertAt(s, p, e) \in Seq(S)
         /\ Len(InsertAt(s, p, e)) = Len(s) + 1
         /\ \A k \in 1 .. Len(s) + 1 :
              InsertAt(s, p, e)[k] = IF k < p THEN s[k] ELSE IF k = p THEN e ELSE s[k - 1]
<1>0. Len(s) \in Nat /\ \A k \in 1 .. Len(s) : s[k] \in S
  BY LenProperties
<1>1. PICK a, b : a = SubSeq(s, 1, p - 1) /\ b = SubSeq(s, p, Len(s))
  OBVIOUS
<1>2. /\ a \in Seq(S) /\ Len(a) = p - 1
      /\ \A k \in 1 .. p - 1 : a[k] = s[k]
  <2>1. 1 \in Int /\ p - 1 \in Int /\ \A k \in 1 .. p - 1 : s[k] \in S
    BY <1>0
  <2>2. /\ SubSeq(s, 1, p - 1) \in Seq(S)
        /\ Len(SubSeq(s, 1, p - 1)) = IF 1 <= p - 1 THEN p - 1 - 1 + 1 ELSE 0
        /\ \A k \in 1 .. p - 1 - 1 + 1 : SubSeq(s, 1, p - 1)[k] = s[1 + k - 1]
    BY <2>1, SubSeqProperties
  <2>3. QED BY <1>0, <1>1, <2>2
<1>3. /\ b \in Seq(S) /\ Len(b) = Len(s) - p + 1
      /\ \A k \in 1 .. Len(s) - p + 1 : b[k] = s[p + k - 1]
  <2>1. p \in Int /\ Len(s) \in Int /\ \A k \in p .. Len(s) : s[k] \in S
    BY <1>0
  <2>2. /\ SubSeq(s, p, Len(s)) \in Seq(S)
        /\ Len(SubSeq(s, p, Len(s))) = IF p <= Len(s) THEN Len(s) - p + 1 ELSE 0
        /\ \A k \in 1 .. Len(s) - p + 1 : SubSeq(s, p, Len(s))[k] = s[p + k - 1]
    BY <2>1, SubSeqProperties
  <2>3. QED BY <1>0, <1>1, <2>2
<1>4. PICK m : m = Append(a, e)
  OBVIOUS
<1>5. /\ m \in Seq(S) /\ Len(m) = p
      /\ \A k \in 1 .. p - 1 : m[k] = a[k]
      /\ m[p] = e
  BY <1>2, <1>4, AppendProperties
<1>6. InsertAt(s, p, e) = m \o b
  <2>1. a \o <<e>> = m
    BY <1>2, <1>4, AppendIsConcat
  <2>2. QED BY <1>1, <2>1 DEF InsertAt
<1>7. /\ m \o b \in Seq(S)
      /\ Len(m \o b) = Len(m) + Len(b)
      /\ \A k \in 1 .. Len(m) + Len(b) :
           (m \o b)[k] = IF k <= Len(m) THEN m[k] ELSE b[k - Len(m)]
  BY <1>3, <1>5, ConcatProperties
<1>8. Len(m) + Len(b) = Len(s) + 1
  BY <1>0, <1>3, <1>5
<1>9. ASSUME NEW k \in 1 .. Len(s) + 1
      PROVE  (m \o b)[k] = IF k < p THEN s[k] ELSE IF k = p THEN e ELSE s[k - 1]
  <2>1. CASE k < p
    <3>1. k \in 1 .. p - 1 /\ k <= Len(m) /\ k \in 1 .. Len(m) + Len(b)
      BY <1>0, <1>5, <1>8, <2>1
    <3>2. (m \o b)[k] = m[k]
      BY <1>7, <3>1
    <3>3. QED BY <1>2, <1>5, <2>1, <3>1, <3>2
  <2>2. CASE k = p
    BY <1>5, <1>7, <1>8, <2>2
  <2>3. CASE k > p
    <3>1. (m \o b)[k] = b[k - p]
      BY <1>5, <1>7, <1>8, <2>3
    <3>2. k - p \in 1 .. Len(s) - p + 1 /\ p + (k - p) - 1 = k - 1
      BY <1>0, <2>3
    <3>3. QED BY <1>3, <2>3, <3>1, <3>2
  <2>4. k < p \/ k = p \/ k > p
    BY <1>0
  <2>5. QED BY <2>1, <2>2, <2>3, <2>4
<1>10. QED BY <1>6, <1>7, <1>8, <1>9

\* write_cb.
LEMMA WriteEffect ==
  ASSUME SlotsInv, NEW c \in Indices, WriteCb(c)
  PROVE  LET d     == requests[c].data_length
             chunk == [req |-> c, n |-> d + 1]
         IN
         /\ Created(c) /\ d \in 0 .. Len(responses) /\ chunk \in Chunk
         /\ requests' \in [Indices -> Request]
         /\ requests'[c] = [requests[c] EXCEPT !.data_length = d + 1]
         /\ \A i \in Indices : i # c => requests'[i] = requests[i]
         /\ responses' \in Seq(Chunk)
         /\ Len(responses') = Len(responses) + 1
         /\ \A k \in 1 .. Len(responses) + 1 :
              responses'[k] = IF k < d + 1 THEN responses[k]
                              ELSE IF k = d + 1 THEN chunk ELSE responses[k - 1]
         /\ log' = Append(log, chunk)
<1> DEFINE d     == requests[c].data_length
           chunk == [req |-> c, n |-> d + 1]
<1>0. requests \in [Indices -> Request] /\ responses \in Seq(Chunk)
  BY DEF SlotsInv, TypeOK
<1>1. Created(c) /\ easy[c].writedata = c
  BY DEF SlotsInv, SlotsInOrder, WriteCb
<1>2. d \in Nat /\ d \in 0 .. Len(responses)
  <2>1. requests[c] \in Request
    BY <1>0
  <2>2. d \in Nat
    BY <2>1 DEF Request
  <2>3. QED BY <2>2, <1>0, LenProperties DEF SlotsInv, SpansInside
<1>3. chunk \in Chunk
  BY <1>2 DEF Chunk
<1>4. /\ requests' = [requests EXCEPT ![c].data_length = d + 1]
      /\ responses' = InsertAt(responses, d + 1, chunk)
      /\ log' = Append(log, chunk)
  BY <1>1 DEF WriteCb
<1>5. PICK r : r = [requests[c] EXCEPT !.data_length = d + 1]
  OBVIOUS
<1>6. r \in Request
  <2>1. requests[c] \in Request
    BY <1>0
  <2>2. QED BY <1>2, <1>5, <2>1 DEF Request
<1>7. requests' = [requests EXCEPT ![c] = r]
  BY <1>4, <1>5
<1>8. /\ requests' \in [Indices -> Request]
      /\ requests'[c] = r
      /\ \A i \in Indices : i # c => requests'[i] = requests[i]
  BY <1>0, <1>6, <1>7
<1>9. /\ responses' \in Seq(Chunk)
      /\ Len(responses') = Len(responses) + 1
      /\ \A k \in 1 .. Len(responses) + 1 :
           responses'[k] = IF k < d + 1 THEN responses[k]
                           ELSE IF k = d + 1 THEN chunk ELSE responses[k - 1]
  <2>1. d + 1 \in 1 .. Len(responses) + 1
    BY <1>0, <1>2, LenProperties
  <2> HIDE DEF d, chunk
  <2>2. PICK s, q, e : s = responses /\ q = d + 1 /\ e = chunk
    OBVIOUS
  <2>3. /\ InsertAt(s, q, e) \in Seq(Chunk)
        /\ Len(InsertAt(s, q, e)) = Len(s) + 1
        /\ \A k \in 1 .. Len(s) + 1 :
             InsertAt(s, q, e)[k] = IF k < q THEN s[k] ELSE IF k = q THEN e ELSE s[k - 1]
    <3>1. s \in Seq(Chunk) /\ q \in 1 .. Len(s) + 1 /\ e \in Chunk
      BY <1>0, <1>3, <2>1, <2>2
    <3>2. QED BY <3>1, InsertEffect
  <2>4. QED BY <1>4, <2>2, <2>3
<1>10. QED BY <1>1, <1>2, <1>3, <1>4, <1>5, <1>8, <1>9

\* A transfer ends.
LEMMA EndsEffect ==
  ASSUME SlotsInv, NEW c \in Indices, TransferEnds(c)
  PROVE  \E code \in Codes :
         /\ easy[c].phase = "running"
         /\ easy' \in [Indices -> Easy]
         /\ easy'[c].phase = "done" /\ easy'[c].result = code
         /\ easy'[c].writedata = easy[c].writedata
         /\ \A e \in Indices : e # c => easy'[e] = easy[e]
<1>0. easy \in [Indices -> Easy] /\ easy[c] \in Easy
  BY DEF SlotsInv, TypeOK
<1>1. PICK code \in Codes : easy' = [easy EXCEPT ![c].phase = "done", ![c].result = code]
  BY DEF TransferEnds
<1>2. PICK e : e = [easy[c] EXCEPT !.phase = "done", !.result = code]
  OBVIOUS
<1>3. e \in Easy
  BY <1>0, <1>2 DEF Easy
<1>4. e.phase = "done" /\ e.result = code /\ e.writedata = easy[c].writedata
  BY <1>0, <1>2 DEF Easy
<1>5. easy' = [easy EXCEPT ![c] = e]
  BY <1>0, <1>1, <1>2 DEF Easy
<1>6. QED BY <1>0, <1>3, <1>4, <1>5 DEF TransferEnds

\* The result of a transfer is recorded.
LEMMA OutcomeType ==
  ASSUME NEW r \in Request, NEW code \in Codes
  PROVE  /\ Outcome(r, code) \in Request
         /\ Outcome(r, code).curl = r.curl
         /\ Outcome(r, code).data_length = r.data_length
         /\ code = "CURLE_OK" =>
              Outcome(r, code).state = "COMPLETE" /\ Outcome(r, code).error = r.error
         /\ code # "CURLE_OK" =>
              Outcome(r, code).state = "ERROR" /\ Outcome(r, code).error = curl_to_error(code)
<1>1. CASE code = "CURLE_OK"
  BY <1>1 DEF Outcome, Request
<1>2. CASE code # "CURLE_OK"
  BY <1>2 DEF Outcome, Request
<1>3. QED BY <1>1, <1>2

\* update reads a message: the request that has the handle is the one it is for.
LEMMA ReadEffect ==
  ASSUME SlotsInv, ReadMessage
  PROVE  LET c == Head(msgs) IN
         /\ c \in Indices /\ Created(c) /\ easy[c].phase = "done" /\ easy[c].result \in Codes
         /\ requests' \in [Indices -> Request]
         /\ requests'[c] = Outcome(requests[c], easy[c].result)
         /\ \A i \in Indices : i # c => requests'[i] = requests[i]
         /\ easy' \in [Indices -> Easy]
         /\ easy'[c].phase = "idle"
         /\ \A e \in Indices : /\ easy'[e].writedata = easy[e].writedata
                               /\ easy'[e].result = easy[e].result
                               /\ e # c => easy'[e] = easy[e]
         /\ msgs' \in Seq(Indices)
         /\ Len(msgs') = Len(msgs) - 1
         /\ \A k \in 1 .. Len(msgs') : k + 1 \in 1 .. Len(msgs) /\ msgs'[k] = msgs[k + 1]
         /\ c = msgs[1] /\ 1 \in 1 .. Len(msgs)
         /\ active_count' = active_count - 1
<1>0. /\ requests \in [Indices -> Request] /\ easy \in [Indices -> Easy]
      /\ msgs \in Seq(Indices) /\ msgs # <<>> /\ active_count \in Int
  BY DEF SlotsInv, TypeOK, ReadMessage
<1>1. PICK c : c = Head(msgs)
  OBVIOUS
<1>2. /\ c \in Indices /\ c = msgs[1] /\ 1 \in 1 .. Len(msgs)
      /\ Tail(msgs) \in Seq(Indices) /\ Len(Tail(msgs)) = Len(msgs) - 1
      /\ \A k \in 1 .. Len(Tail(msgs)) :
           k + 1 \in 1 .. Len(msgs) /\ Tail(msgs)[k] = msgs[k + 1]
  <2>1. /\ Head(msgs) \in Indices
        /\ Tail(msgs) \in Seq(Indices)
        /\ Len(Tail(msgs)) = Len(msgs) - 1
        /\ \A k \in 1 .. Len(Tail(msgs)) : Tail(msgs)[k] = msgs[k + 1]
    BY <1>0, HeadTailProperties
  <2>2. Len(msgs) \in Nat \ {0}
    BY <1>0, EmptySeq
  <2>3. Head(msgs) = msgs[1]
    BY <1>0
  <2>4. QED BY <1>1, <2>1, <2>2, <2>3
<1>3. easy[c].phase = "done" /\ Created(c) /\ easy[c].result \in Codes
  BY <1>2 DEF SlotsInv, MessagesMatch, SlotsInOrder
<1>4. {i \in Indices : requests[i].curl = c} = {c}
  BY <1>2, <1>3, RequestAssumption DEF SlotsInv, SlotsInOrder, Indices
<1>5. {i \in {c} : \A j \in {c} : i <= j} = {c}
  BY <1>2 DEF Indices
<1>6. /\ msgs' = Tail(msgs)
      /\ requests' = [i \in Indices |-> IF i \in {c} THEN Outcome(requests[i], easy[c].result)
                                                     ELSE requests[i]]
      /\ easy' = [easy EXCEPT ![c].phase = "idle"]
      /\ active_count' = active_count - Cardinality({c})
  BY <1>1, <1>4, <1>5 DEF ReadMessage
<1>7. PICK r : r = Outcome(requests[c], easy[c].result)
  OBVIOUS
<1>8. r \in Request
  BY <1>0, <1>2, <1>3, <1>7, OutcomeType
<1>9. /\ requests' \in [Indices -> Request] /\ requests'[c] = r
      /\ \A i \in Indices : i # c => requests'[i] = requests[i]
  <2>1. \A i \in Indices : requests'[i] = IF i = c THEN r ELSE requests[i]
    BY <1>6, <1>7
  <2>2. requests' = [i \in Indices |-> requests'[i]]
    BY <1>6
  <2>3. QED BY <1>0, <1>2, <1>8, <2>1, <2>2
<1>10. PICK e : e = [easy[c] EXCEPT !.phase = "idle"]
  OBVIOUS
<1>11. /\ e \in Easy /\ e.phase = "idle"
       /\ e.writedata = easy[c].writedata /\ e.result = easy[c].result
  <2>1. easy[c] \in Easy
    BY <1>0, <1>2
  <2>2. QED BY <1>10, <2>1 DEF Easy
<1>12. easy' = [easy EXCEPT ![c] = e]
  BY <1>6, <1>10
<1>13. /\ easy' \in [Indices -> Easy]
       /\ easy'[c].phase = "idle"
       /\ \A f \in Indices : /\ easy'[f].writedata = easy[f].writedata
                             /\ easy'[f].result = easy[f].result
                             /\ f # c => easy'[f] = easy[f]
  BY <1>0, <1>2, <1>11, <1>12
<1>14. active_count' = active_count - 1
  <2>1. Cardinality({c}) = 1
    BY FS_Singleton
  <2>2. QED BY <1>6, <2>1
<1>15. QED BY <1>1, <1>2, <1>3, <1>6, <1>7, <1>9, <1>13, <1>14

\* The lists given to start_batch are lists of handles.
LEMMA HandleListType == ASSUME NEW hs \in HandleLists PROVE hs \in Seq(handles)
<1>1. PICK h \in handles, k \in handles : hs = <<h, k>>
  BY DEF HandleLists
<1>2. QED BY <1>1

-----------------------------------------------------------------------------
(* Slots, handles and messages, step by step.                              *)

\* A pool just constructed.
LEMMA SlotsInit == Init => SlotsInv
<1> SUFFICES ASSUME Init PROVE SlotsInv
  OBVIOUS
<1>0. MAX \in Nat \ {0} /\ Indices = 0 .. MAX - 1
  BY IndicesFinite DEF Indices, MAX
<1>1. free_indices \in Seq(Indices) /\ Len(free_indices) = MAX
      /\ \A k \in 1 .. MAX : free_indices[k] = MAX - k
  BY <1>0 DEF Init, MAX
<1>2. requests \in [Indices -> Request]
  <2>1. [state |-> "FREE", error |-> "NONE", data_length |-> 0, curl |-> NULL] \in Request
    BY DEF Request
  <2>2. QED BY <2>1 DEF Init
<1>3. easy \in [Indices -> Easy]
  <2>1. [writedata |-> NULL, options |-> {}, phase |-> "idle", result |-> NULL] \in Easy
    BY DEF Easy
  <2>2. QED BY <2>1 DEF Init
<1>4. TypeOK
  <2>1. /\ responses \in Seq(Chunk) /\ msgs \in Seq(Indices) /\ log \in Seq(Chunk)
        /\ generation \in Nat /\ active_count \in Int /\ again \in Nat
        /\ starts \in [Indices -> Nat]
        /\ pc \in {"idle", "perform", "read"} \cup Ended
        /\ handles \subseteq [index : Indices, generation : Nat]
    BY DEF Init
  <2>2. next_curl_handle \in Indices
    BY <1>0 DEF Init
  <2>3. QED BY <1>1, <1>2, <1>3, <2>1, <2>2 DEF TypeOK
<1>5. Used = 0
  BY <1>0, <1>1 DEF Used
<1>6. SlotsInOrder
  <2>1. \A i \in Indices : /\ requests[i].state = "FREE" /\ requests[i].curl = NULL
                           /\ easy[i].phase = "idle"
    BY DEF Init
  <2>2. next_curl_handle = 0
    BY DEF Init
  <2>3. QED BY <1>0, <1>1, <1>5, <2>1, <2>2 DEF SlotsInOrder, Created
<1>7. FirstGeneration
  BY <1>5, FS_EmptySet DEF FirstGeneration, Init
<1>8. MessagesMatch /\ SpansInside
  BY DEF Init, MessagesMatch, SpansInside
<1>9. QED BY <1>4, <1>6, <1>7, <1>8 DEF SlotsInv

\* create takes the next slot and the easy handle of the same number.
LEMMA SlotsCreate == ASSUME SlotsInv, Create PROVE SlotsInv'
<1>0. /\ TypeOK /\ MAX \in Nat \ {0} /\ Indices = 0 .. MAX - 1
      /\ Len(free_indices) \in Nat /\ Len(free_indices) <= MAX
      /\ pc = "idle" /\ generation = 0
  BY IndicesFinite, LenProperties
  DEF Indices, MAX, SlotsInv, TypeOK, SlotsInOrder, FirstGeneration, Create
<1>1. PICK u : u = Used
  OBVIOUS
<1>2. /\ u \in Indices /\ u < MAX
      /\ requests' \in [Indices -> Request]
      /\ requests'[u] = [state |-> "PENDING", error |-> "NONE", data_length |-> 0, curl |-> u]
      /\ \A i \in Indices : i # u => requests'[i] = requests[i]
      /\ easy' \in [Indices -> Easy]
      /\ easy'[u].writedata = u
      /\ \A c \in Indices : /\ easy'[c].phase = easy[c].phase
                            /\ easy'[c].result = easy[c].result
                            /\ c # u => easy'[c] = easy[c]
      /\ handles' = handles \cup {[index |-> u, generation |-> 0]}
      /\ free_indices' \in Seq(Indices)
      /\ Len(free_indices') = Len(free_indices) - 1
      /\ \A k \in 1 .. Len(free_indices') : free_indices'[k] = MAX - k
      /\ next_curl_handle' = IF u + 1 = MAX THEN 0 ELSE u + 1
      /\ Used' = u + 1
      /\ UNCHANGED <<generation, responses, active_count, msgs, pc, starts, again, log>>
  BY <1>0, <1>1, CreateEffect
<1>3. TypeOK'
  <2>1. next_curl_handle' \in Indices
    BY <1>0, <1>2
  <2>2. handles' \subseteq [index : Indices, generation : Nat]
    <3>1. handles \subseteq [index : Indices, generation : Nat]
      BY <1>0 DEF TypeOK
    <3>2. handles' = handles \cup {[index |-> u, generation |-> 0]} /\ u \in Indices
      BY <1>2
    <3>3. QED BY <3>1, <3>2
  <2>3. QED BY <1>0, <1>2, <2>1, <2>2 DEF TypeOK
<1>4. \A i \in Indices : Created(i)' <=> (Created(i) \/ i = u)
  BY <1>2 DEF Created
<1>5. SlotsInOrder'
  <2>1. Len(free_indices') <= MAX
    BY <1>0, <1>2
  <2>2. \A i \in Indices : Created(i)' <=> i < u + 1
    BY <1>0, <1>1, <1>2, <1>4 DEF SlotsInv, SlotsInOrder
  <2>3. \A i \in Indices : requests'[i].curl = IF Created(i)' THEN i ELSE NULL
    <3>1. requests'[u].curl = u
      BY <1>2
    <3>2. QED BY <1>2, <1>4, <3>1 DEF SlotsInv, SlotsInOrder
  <2>4. \A i \in Indices : Created(i)' => easy'[i].writedata = i
    BY <1>2, <1>4 DEF SlotsInv, SlotsInOrder
  <2>5. \A c \in Indices : easy'[c].phase # "idle" => Created(c)'
    BY <1>2, <1>4 DEF SlotsInv, SlotsInOrder
  <2>6. QED BY <1>2, <2>1, <2>2, <2>3, <2>4, <2>5 DEF SlotsInOrder
<1>6. FirstGeneration'
  <2>1. ~Created(u)
    BY <1>0, <1>1, <1>2 DEF SlotsInv, SlotsInOrder
  <2>2. [index |-> u, generation |-> 0] \notin handles
    BY <2>1 DEF SlotsInv, FirstGeneration
  <2>3. IsFiniteSet(handles) /\ Cardinality(handles) = u
    BY <1>1 DEF SlotsInv, FirstGeneration
  <2>4. IsFiniteSet(handles') /\ Cardinality(handles') = u + 1
    BY <1>2, <2>2, <2>3, FS_AddElement
  <2>5. \A h \in handles' : h.generation = 0 /\ Created(h.index)'
    <3>1. \A h \in handles : h.generation = 0 /\ Created(h.index) /\ h.index \in Indices
      BY DEF SlotsInv, FirstGeneration, TypeOK
    <3>2. QED BY <1>2, <1>4, <3>1
  <2>6. QED BY <1>0, <1>2, <2>4, <2>5 DEF FirstGeneration
<1>7. MessagesMatch'
  <2>1. msgs = <<>> /\ msgs' = <<>> /\ Len(msgs) = 0
    BY <1>0, <1>2 DEF SlotsInv, MessagesMatch
  <2>2. \A c \in Indices : easy[c].phase # "done"
    BY <2>1 DEF SlotsInv, MessagesMatch
  <2>3. \A c \in Indices : easy'[c].phase # "done"
    BY <1>2, <2>2
  <2>4. QED BY <2>1, <2>3 DEF MessagesMatch
<1>8. SpansInside'
  <2>1. requests'[u].data_length <= Len(responses)
    BY <1>0, <1>2, LenProperties DEF TypeOK
  <2>2. QED BY <1>2, <2>1 DEF SlotsInv, SpansInside
<1>9. QED BY <1>3, <1>5, <1>6, <1>7, <1>8 DEF SlotsInv

\* A step that leaves the table as it is, and moves handles from one phase to another.
LEMMA SlotsKept ==
  ASSUME SlotsInv,
         UNCHANGED <<free_indices, generation, next_curl_handle, handles>>,
         pc' # "undefined", pc # "undefined",
         TypeOK',
         \A i \in Indices : /\ requests'[i].curl = requests[i].curl
                            /\ Created(i)' <=> Created(i),
         \A c \in Indices : easy'[c].writedata = easy[c].writedata,
         \A c \in Indices : easy'[c].phase # "idle" => Created(c)
  PROVE  SlotsInOrder' /\ FirstGeneration'
<1>1. Used' = Used
  BY DEF Used
<1>2. SlotsInOrder'
  BY <1>1 DEF SlotsInv, SlotsInOrder
<1>3. FirstGeneration'
  <2>1. \A h \in handles : h.index \in Indices
    BY DEF SlotsInv, TypeOK
  <2>2. QED BY <1>1, <2>1 DEF SlotsInv, FirstGeneration
<1>4. QED BY <1>2, <1>3

\* Every step keeps the table, the handles and the messages in order.
LEMMA SlotsNext == ASSUME SlotsInv, [Next]_vars PROVE SlotsInv'
<1>0. /\ TypeOK /\ SlotsInOrder /\ FirstGeneration /\ MessagesMatch /\ SpansInside
      /\ requests \in [Indices -> Request] /\ easy \in [Indices -> Easy]
      /\ msgs \in Seq(Indices) /\ log \in Seq(Chunk)
      /\ \A c \in Indices : easy[c].phase # "idle" => Created(c)
  BY DEF SlotsInv, TypeOK, SlotsInOrder
<1>1. CASE Create
  BY <1>1, SlotsCreate
<1>2. CASE CreateUndefined
  <2>1. /\ Listed = <<>> /\ pc = "idle" /\ pc' = "undefined" /\ generation' = NextGeneration
        /\ UNCHANGED <<requests, free_indices, responses, active_count, next_curl_handle,
                       easy, msgs, handles, starts, again, log>>
    BY <1>2 DEF CreateUndefined, histVars
  <2>2. free_indices = <<>>
    BY <2>1 DEF Listed
  <2>3. generation' = 1
    BY <1>0, <2>1, <2>2 DEF NextGeneration, FirstGeneration
  <2>4. Used = MAX /\ Used' = Used
    <3>1. Len(free_indices) = 0
      BY <2>2
    <3>2. QED BY <2>1, <3>1, IndicesFinite DEF Used
  <2>5. TypeOK'
    BY <1>0, <2>1, <2>3 DEF TypeOK, Ended
  <2>6. SlotsInOrder'
    BY <1>0, <2>1, <2>4 DEF SlotsInOrder, Created
  <2>7. FirstGeneration'
    BY <1>0, <2>1, <2>3, <2>4 DEF FirstGeneration, Created
  <2>8. MessagesMatch' /\ SpansInside'
    BY <1>0, <2>1 DEF MessagesMatch, SpansInside
  <2>9. QED BY <2>5, <2>6, <2>7, <2>8 DEF SlotsInv
<1>3. ASSUME NEW h \in handles, NEW option \in {"headers", "post"}, SetOption(h, option)
      PROVE  SlotsInv'
  <2>1. PICK c : c = requests[h.index].curl
    OBVIOUS
  <2>2. c \in Indices
    BY <1>0, <2>1 DEF TypeOK, FirstGeneration, SlotsInOrder
  <2>3. /\ easy' = [easy EXCEPT ![c].options = @ \cup {option}] /\ pc = "idle"
        /\ UNCHANGED <<requests, free_indices, responses, generation, active_count,
                       next_curl_handle, msgs, pc, handles, starts, again, log>>
    BY <1>3, <2>1 DEF SetOption, poolVars, histVars
  <2>4. PICK e : e = [easy[c] EXCEPT !.options = @ \cup {option}]
    OBVIOUS
  <2>5. /\ e \in Easy /\ e.writedata = easy[c].writedata /\ e.phase = easy[c].phase
        /\ e.result = easy[c].result
    <3>1. easy[c] \in Easy
      BY <1>0, <2>2
    <3>2. easy[c].options \cup {option} \in SUBSET {"headers", "post"}
      BY <3>1 DEF Easy
    <3>3. QED BY <2>4, <3>1, <3>2 DEF Easy
  <2>6. easy' = [easy EXCEPT ![c] = e]
    BY <2>3, <2>4
  <2>7. /\ easy' \in [Indices -> Easy]
        /\ \A d \in Indices : /\ easy'[d].writedata = easy[d].writedata
                              /\ easy'[d].phase = easy[d].phase
                              /\ easy'[d].result = easy[d].result
    BY <1>0, <2>2, <2>5, <2>6
  <2>8. TypeOK'
    BY <1>0, <2>3, <2>7 DEF TypeOK
  <2>9. SlotsInOrder' /\ FirstGeneration'
    <3>1. \A i \in Indices : Created(i)' <=> Created(i)
      BY <2>3 DEF Created
    <3>2. pc # "undefined" /\ pc' # "undefined"
      BY <2>3
    <3>3. QED BY <1>0, <2>3, <2>7, <2>8, <3>1, <3>2, SlotsKept
  <2>10. MessagesMatch' /\ SpansInside'
    <3>1. \A k \in 1 .. Len(msgs) : msgs[k] \in Indices
      BY <1>0
    <3>2. QED BY <1>0, <2>3, <2>7, <3>1 DEF MessagesMatch, SpansInside
  <2>11. QED BY <2>8, <2>9, <2>10 DEF SlotsInv
<1>4. ASSUME NEW hs \in Seq(handles), Starts(hs) PROVE SlotsInv'
  <2>1. /\ Added(hs) \subseteq Indices
        /\ \A c \in Added(hs) : Created(c) /\ easy[c].phase = "idle"
        /\ easy' \in [Indices -> Easy]
        /\ \A c \in Indices :
             /\ easy'[c].writedata = easy[c].writedata
             /\ easy'[c].result = easy[c].result
             /\ easy'[c].phase = IF c \in Added(hs) THEN "running" ELSE easy[c].phase
        /\ starts' \in [Indices -> Nat]
        /\ active_count' \in Int /\ again' \in Nat
    BY <1>4, StartsEffect
  <2>2. /\ pc = "idle"
        /\ UNCHANGED <<requests, free_indices, responses, generation, next_curl_handle,
                       msgs, pc, handles, log>>
    BY <1>4 DEF Starts
  <2>3. TypeOK'
    BY <1>0, <2>1, <2>2 DEF TypeOK
  <2>4. SlotsInOrder' /\ FirstGeneration'
    <3>1. \A i \in Indices : Created(i)' <=> Created(i)
      BY <2>2 DEF Created
    <3>2. pc # "undefined" /\ pc' # "undefined"
      BY <2>2
    <3>3. QED BY <1>0, <2>1, <2>2, <2>3, <3>1, <3>2, SlotsKept
  <2>5. MessagesMatch' /\ SpansInside'
    <3>1. msgs = <<>> /\ msgs' = <<>> /\ Len(msgs) = 0
      BY <1>0, <2>2 DEF MessagesMatch
    <3>2. \A c \in Indices : easy'[c].phase # "done"
      BY <1>0, <2>1, <3>1 DEF MessagesMatch
    <3>3. QED BY <1>0, <2>2, <3>1, <3>2 DEF MessagesMatch, SpansInside
  <2>6. QED BY <2>3, <2>4, <2>5 DEF SlotsInv
<1>5. CASE Update \/ PerformReturns \/ UpdateReturns
  <2>1. /\ UNCHANGED <<requests, free_indices, responses, generation, active_count,
                       next_curl_handle, easy, msgs, handles, starts, again, log>>
        /\ pc \in {"idle", "perform", "read"} /\ pc' \in {"idle", "perform", "read"}
        /\ pc' = "idle" => msgs = <<>>
    BY <1>5 DEF Update, PerformReturns, UpdateReturns, poolVars, histVars
  <2>2. TypeOK'
    BY <1>0, <2>1 DEF TypeOK
  <2>3. SlotsInOrder' /\ FirstGeneration'
    <3>1. \A i \in Indices : Created(i)' <=> Created(i)
      BY <2>1 DEF Created
    <3>2. pc # "undefined" /\ pc' # "undefined"
      BY <2>1
    <3>3. QED BY <1>0, <2>1, <2>2, <3>1, <3>2, SlotsKept
  <2>4. MessagesMatch' /\ SpansInside'
    BY <1>0, <2>1 DEF MessagesMatch, SpansInside
  <2>5. QED BY <2>2, <2>3, <2>4 DEF SlotsInv
<1>6. ASSUME NEW c \in Indices, WriteCb(c) PROVE SlotsInv'
  <2>1. PICK d : d = requests[c].data_length
    OBVIOUS
  <2>2. /\ Created(c) /\ d \in 0 .. Len(responses) /\ [req |-> c, n |-> d + 1] \in Chunk
        /\ requests' \in [Indices -> Request]
        /\ requests'[c] = [requests[c] EXCEPT !.data_length = d + 1]
        /\ \A i \in Indices : i # c => requests'[i] = requests[i]
        /\ responses' \in Seq(Chunk)
        /\ Len(responses') = Len(responses) + 1
        /\ log' = Append(log, [req |-> c, n |-> d + 1])
    BY <1>6, <2>1, WriteEffect
  <2>3. /\ UNCHANGED <<free_indices, generation, active_count, next_curl_handle, easy, msgs, pc,
                       handles, starts, again>>
        /\ pc = "perform"
    BY <1>6 DEF WriteCb
  <2>4. /\ requests'[c].state = requests[c].state /\ requests'[c].curl = requests[c].curl
        /\ requests'[c].data_length = d + 1
    <3>1. requests[c] \in Request
      BY <1>0
    <3>2. QED BY <2>2, <3>1 DEF Request
  <2>5. TypeOK'
    <3>1. log' \in Seq(Chunk)
      BY <1>0, <2>2, AppendProperties
    <3>2. QED BY <1>0, <2>2, <2>3, <3>1 DEF TypeOK
  <2>6. SlotsInOrder' /\ FirstGeneration'
    <3>1. \A i \in Indices : requests'[i].curl = requests[i].curl /\ (Created(i)' <=> Created(i))
      BY <2>2, <2>4 DEF Created
    <3>2. pc # "undefined" /\ pc' # "undefined"
      BY <2>3
    <3>3. QED BY <1>0, <2>3, <2>5, <3>1, <3>2, SlotsKept
  <2>7. MessagesMatch'
    BY <1>0, <2>3 DEF MessagesMatch
  <2>8. SpansInside'
    <3>1. \A i \in Indices : requests[i].data_length \in Nat
      BY <1>0 DEF Request
    <3>2. Len(responses) \in Nat
      BY <1>0, LenProperties DEF TypeOK
    <3>3. SUFFICES ASSUME NEW i \in Indices PROVE requests'[i].data_length <= Len(responses')
      BY DEF SpansInside
    <3>4. CASE i = c
      <4>1. requests'[c].data_length = d + 1 /\ d \in 0 .. Len(responses)
        BY <2>2, <2>4
      <4>2. Len(responses') = Len(responses) + 1
        BY <2>2
      <4>3. d + 1 <= Len(responses) + 1
        BY <3>2, <4>1
      <4>4. QED BY <3>4, <4>1, <4>2, <4>3
    <3>5. CASE i # c
      <4>1. requests'[i].data_length = requests[i].data_length
        BY <2>2, <3>5
      <4>2. requests[i].data_length <= Len(responses)
        BY <1>0 DEF SpansInside
      <4>3. QED BY <2>2, <3>1, <3>2, <4>1, <4>2
    <3>6. QED BY <3>4, <3>5
  <2>9. QED BY <2>5, <2>6, <2>7, <2>8 DEF SlotsInv
<1>7. ASSUME NEW c \in Indices, TransferEnds(c) PROVE SlotsInv'
  <2>1. PICK code \in Codes :
        /\ easy[c].phase = "running"
        /\ easy' \in [Indices -> Easy]
        /\ easy'[c].phase = "done" /\ easy'[c].result = code
        /\ easy'[c].writedata = easy[c].writedata
        /\ \A e \in Indices : e # c => easy'[e] = easy[e]
    BY <1>7, EndsEffect
  <2>2. /\ pc = "perform" /\ msgs' = Append(msgs, c)
        /\ UNCHANGED <<requests, free_indices, responses, generation, active_count,
                       next_curl_handle, pc, handles, starts, again, log>>
    BY <1>7 DEF TransferEnds, poolVars, histVars
  <2>3. /\ msgs' \in Seq(Indices)
        /\ Len(msgs') = Len(msgs) + 1 /\ Len(msgs) \in Nat
        /\ \A k \in 1 .. Len(msgs) : msgs'[k] = msgs[k] /\ msgs[k] \in Indices
        /\ msgs'[Len(msgs) + 1] = c
    BY <1>0, <2>2, AppendProperties, LenProperties
  <2>4. TypeOK'
    BY <1>0, <2>1, <2>2, <2>3 DEF TypeOK
  <2>5. SlotsInOrder' /\ FirstGeneration'
    <3>1. \A i \in Indices : Created(i)' <=> Created(i)
      BY <2>2 DEF Created
    <3>2. pc # "undefined" /\ pc' # "undefined"
      BY <2>2
    <3>3. \A e \in Indices : /\ easy'[e].writedata = easy[e].writedata
                             /\ easy'[e].phase # "idle" => Created(e)
      BY <1>0, <2>1
    <3>4. QED BY <2>2, <2>4, <3>1, <3>2, <3>3, SlotsKept
  <2>6. MessagesMatch'
    <3>1. \A k \in 1 .. Len(msgs) : msgs[k] # c
      BY <1>0, <2>1 DEF MessagesMatch
    <3>2. \A k \in 1 .. Len(msgs') : easy'[msgs'[k]].phase = "done"
      BY <1>0, <2>1, <2>3, <3>1 DEF MessagesMatch
    <3>3. \A j, k \in 1 .. Len(msgs') : msgs'[j] = msgs'[k] => j = k
      BY <1>0, <2>3, <3>1 DEF MessagesMatch
    <3>4. \A e \in Indices : easy'[e].phase = "done" =>
            easy'[e].result \in Codes /\ \E k \in 1 .. Len(msgs') : msgs'[k] = e
      <4>1. SUFFICES ASSUME NEW e \in Indices, easy'[e].phase = "done"
                     PROVE  easy'[e].result \in Codes /\ \E k \in 1 .. Len(msgs') : msgs'[k] = e
        OBVIOUS
      <4>2. CASE e = c
        BY <2>1, <2>3, <4>2
      <4>3. CASE e # c
        <5>1. easy[e].result \in Codes /\ \E k \in 1 .. Len(msgs) : msgs[k] = e
          BY <1>0, <2>1, <4>1, <4>3 DEF MessagesMatch
        <5>2. QED BY <2>1, <2>3, <4>3, <5>1
      <4>4. QED BY <4>2, <4>3
    <3>5. QED BY <2>2, <3>2, <3>3, <3>4 DEF MessagesMatch
  <2>7. SpansInside'
    BY <1>0, <2>2 DEF SpansInside
  <2>8. QED BY <2>4, <2>5, <2>6, <2>7 DEF SlotsInv
<1>8. CASE ReadMessage
  <2>1. PICK c : c = Head(msgs)
    OBVIOUS
  <2>2. /\ c \in Indices /\ Created(c) /\ easy[c].phase = "done" /\ easy[c].result \in Codes
        /\ requests' \in [Indices -> Request]
        /\ requests'[c] = Outcome(requests[c], easy[c].result)
        /\ \A i \in Indices : i # c => requests'[i] = requests[i]
        /\ easy' \in [Indices -> Easy]
        /\ easy'[c].phase = "idle"
        /\ \A e \in Indices : /\ easy'[e].writedata = easy[e].writedata
                              /\ easy'[e].result = easy[e].result
                              /\ e # c => easy'[e] = easy[e]
        /\ msgs' \in Seq(Indices)
        /\ Len(msgs') = Len(msgs) - 1
        /\ \A k \in 1 .. Len(msgs') : k + 1 \in 1 .. Len(msgs) /\ msgs'[k] = msgs[k + 1]
        /\ c = msgs[1] /\ 1 \in 1 .. Len(msgs)
        /\ active_count' = active_count - 1
    BY <1>8, <2>1, ReadEffect
  <2>3. /\ UNCHANGED <<free_indices, responses, generation, next_curl_handle, pc,
                       handles, starts, again, log>>
        /\ pc = "read"
    BY <1>8 DEF ReadMessage, histVars
  <2>4. /\ requests'[c].curl = requests[c].curl
        /\ requests'[c].data_length = requests[c].data_length
        /\ requests'[c].state # "FREE"
    BY <1>0, <2>2, OutcomeType
  <2>5. TypeOK'
    BY <1>0, <2>2, <2>3 DEF TypeOK
  <2>6. SlotsInOrder' /\ FirstGeneration'
    <3>1. \A i \in Indices : requests'[i].curl = requests[i].curl /\ (Created(i)' <=> Created(i))
      BY <2>2, <2>4 DEF Created
    <3>2. pc # "undefined" /\ pc' # "undefined"
      BY <2>3
    <3>3. \A e \in Indices : easy'[e].phase # "idle" => Created(e)
      BY <1>0, <2>2
    <3>4. QED BY <2>2, <2>3, <2>5, <3>1, <3>2, <3>3, SlotsKept
  <2>7. MessagesMatch'
    <3>0. Len(msgs) \in Nat /\ \A k \in 1 .. Len(msgs) : msgs[k] \in Indices
      BY <1>0, LenProperties
    <3>1. \A k \in 1 .. Len(msgs') : msgs'[k] # c
      BY <1>0, <2>2, <3>0 DEF MessagesMatch
    <3>2. \A k \in 1 .. Len(msgs') : easy'[msgs'[k]].phase = "done"
      BY <1>0, <2>2, <3>0, <3>1 DEF MessagesMatch
    <3>3. \A j, k \in 1 .. Len(msgs') : msgs'[j] = msgs'[k] => j = k
      <4>1. SUFFICES ASSUME NEW j \in 1 .. Len(msgs'), NEW k \in 1 .. Len(msgs'),
                            msgs'[j] = msgs'[k]
                     PROVE  j = k
        OBVIOUS
      <4>2. msgs[j + 1] = msgs[k + 1] /\ j + 1 \in 1 .. Len(msgs) /\ k + 1 \in 1 .. Len(msgs)
        BY <2>2, <4>1
      <4>3. j + 1 = k + 1
        BY <1>0, <4>2 DEF MessagesMatch
      <4>4. QED BY <4>3
    <3>4. \A e \in Indices : easy'[e].phase = "done" =>
            easy'[e].result \in Codes /\ \E k \in 1 .. Len(msgs') : msgs'[k] = e
      <4>1. SUFFICES ASSUME NEW e \in Indices, easy'[e].phase = "done"
                     PROVE  easy'[e].result \in Codes /\ \E k \in 1 .. Len(msgs') : msgs'[k] = e
        OBVIOUS
      <4>2. e # c /\ easy[e].phase = "done"
        BY <2>2, <4>1
      <4>3. easy[e].result \in Codes
        BY <1>0, <4>2 DEF MessagesMatch
      <4>4. PICK k \in 1 .. Len(msgs) : msgs[k] = e
        BY <1>0, <4>2 DEF MessagesMatch
      <4>5. k - 1 \in 1 .. Len(msgs') /\ msgs'[k - 1] = e
        BY <2>2, <3>0, <4>2, <4>4
      <4>6. QED BY <2>2, <4>2, <4>3, <4>5
    <3>5. QED BY <2>3, <3>2, <3>3, <3>4 DEF MessagesMatch
  <2>8. SpansInside'
    BY <1>0, <2>2, <2>3, <2>4 DEF SpansInside
  <2>9. QED BY <2>5, <2>6, <2>7, <2>8 DEF SlotsInv
<1>9. CASE Destroy
  <2>1. /\ pc = "idle" /\ pc' = "destroyed"
        /\ easy' = [c \in Indices |-> [easy[c] EXCEPT !.phase = "idle"]]
        /\ UNCHANGED <<requests, free_indices, responses, generation, active_count,
                       next_curl_handle, msgs, handles, starts, again, log>>
    BY <1>9 DEF Destroy, poolVars, histVars
  <2>2. ASSUME NEW e \in Easy
        PROVE  /\ [e EXCEPT !.phase = "idle"] \in Easy
               /\ [e EXCEPT !.phase = "idle"].phase = "idle"
               /\ [e EXCEPT !.phase = "idle"].writedata = e.writedata
    BY DEF Easy
  <2>3. /\ easy' \in [Indices -> Easy]
        /\ \A c \in Indices : easy'[c].phase = "idle" /\ easy'[c].writedata = easy[c].writedata
    BY <1>0, <2>1, <2>2
  <2>4. TypeOK'
    BY <1>0, <2>1, <2>3 DEF TypeOK, Ended
  <2>5. SlotsInOrder' /\ FirstGeneration'
    <3>1. \A i \in Indices : Created(i)' <=> Created(i)
      BY <2>1 DEF Created
    <3>2. pc # "undefined" /\ pc' # "undefined"
      BY <2>1
    <3>3. QED BY <2>1, <2>3, <2>4, <3>1, <3>2, SlotsKept
  <2>6. MessagesMatch' /\ SpansInside'
    <3>1. msgs = <<>> /\ msgs' = <<>> /\ Len(msgs) = 0
      BY <1>0, <2>1 DEF MessagesMatch
    <3>2. QED BY <1>0, <2>1, <2>3, <3>1 DEF MessagesMatch, SpansInside
  <2>7. QED BY <2>4, <2>5, <2>6 DEF SlotsInv
<1>10. CASE UNCHANGED vars
  BY <1>0, <1>10 DEF vars, poolVars, histVars, SlotsInv, TypeOK, SlotsInOrder, FirstGeneration,
                     MessagesMatch, SpansInside, Used, Created
<1>11. QED
  <2>1. ASSUME NEW h \in handles, Start(h) PROVE SlotsInv'
    <3>1. <<h>> \in Seq(handles) /\ Starts(<<h>>)
      BY <2>1 DEF Start
    <3>2. QED BY <1>4, <3>1
  <2>2. ASSUME NEW hs \in HandleLists, StartBatch(hs) PROVE SlotsInv'
    BY <1>4, <2>2, HandleListType DEF StartBatch
  <2>3. QED
    BY <1>1, <1>2, <1>3, <1>5, <1>6, <1>7, <1>8, <1>9, <1>10, <2>1, <2>2
    DEF Next, UpdateBatch, Finished

\* In every reachable state slot i is created before slot i + 1 and has the easy
\* handle i, every handle returned is valid, and the messages are those of the
\* transfers that are done.
LEMMA SlotsAlways == Spec => []SlotsInv
<1>1. QED BY SlotsInit, SlotsNext, PTL DEF Spec

-----------------------------------------------------------------------------
(* The theorems on the table.                                              *)

\* Data and results find their request (write_cb and update find it by the handle).
THEOREM OwnersCorrect == Spec => []OwnersMatch
<1>1. ASSUME SlotsInv PROVE OwnersMatch
  <2>1. \A i \in Indices : i # NULL
    BY RequestAssumption DEF Indices
  <2>2. QED BY <1>1, <2>1 DEF SlotsInv, SlotsInOrder, OwnersMatch
<1>2. QED BY <1>1, SlotsAlways, PTL

\* create runs out of slots only when all were created, and no handle that was
\* returned becomes invalid before.
THEOREM ExhaustedCorrect == Spec => []ExhaustedOnly
<1>1. ASSUME SlotsInv PROVE ExhaustedOnly
  <2>0. /\ Used \in 0 .. MAX /\ MAX \in Nat \ {0} /\ Indices = 0 .. MAX - 1
    BY <1>1, IndicesFinite, LenProperties DEF SlotsInv, TypeOK, SlotsInOrder, Used, Indices, MAX
  <2>1. pc = "undefined" => \A i \in Indices : Created(i)
    BY <1>1, <2>0 DEF SlotsInv, FirstGeneration, SlotsInOrder
  <2>2. pc # "undefined" => \A h \in handles : valid_handle(h)
    <3>1. \A h \in handles : h.index \in Indices /\ h.generation = 0 /\ Created(h.index)
      BY <1>1 DEF SlotsInv, TypeOK, FirstGeneration
    <3>2. QED
      BY <1>1, <2>0, <3>1 DEF SlotsInv, FirstGeneration, valid_handle, Created, MAX
  <2>3. Cardinality({i \in Indices : Created(i)}) = Used
    <3>1. {i \in Indices : Created(i)} = 0 .. Used - 1
      <4>1. \A i \in Indices : Created(i) <=> i < Used
        BY <1>1 DEF SlotsInv, SlotsInOrder
      <4>2. \A i : i \in 0 .. Used - 1 <=> (i \in Indices /\ i < Used)
        BY <2>0
      <4>3. QED BY <4>1, <4>2
    <3>2. 0 \in Int /\ Used - 1 \in Int
      BY <2>0
    <3>3. Cardinality(0 .. Used - 1) = IF 0 > Used - 1 THEN 0 ELSE Used - 1 - 0 + 1
      BY <3>2, FS_Interval, Zenon
    <3>4. Cardinality({i \in Indices : Created(i)}) = IF 0 > Used - 1 THEN 0 ELSE Used - 1 - 0 + 1
      BY <3>1, <3>3
    <3>5. (IF 0 > Used - 1 THEN 0 ELSE Used - 1 - 0 + 1) = Used
      BY <2>0
    <3>6. QED BY <3>4, <3>5
  <2>4. QED BY <1>1, <2>1, <2>2, <2>3 DEF ExhaustedOnly, SlotsInv, FirstGeneration
<1>2. QED BY <1>1, SlotsAlways, PTL

-----------------------------------------------------------------------------
(* The number of transfers.                                                *)

Busy == {c \in Indices : easy[c].phase # "idle"}

\* The easy handles in a transfer are finite in number.
LEMMA BusyFinite == IsFiniteSet(Busy) /\ Cardinality(Busy) \in Nat
<1>1. Busy \subseteq Indices
  BY DEF Busy
<1>2. QED BY <1>1, IndicesFinite, FS_Subset, FS_CardinalityType

\* A step that starts and ends no transfer.
LEMMA ActiveKept ==
  ASSUME ActiveCount, pc # "destroyed", UNCHANGED <<active_count, again>>,
         \A c \in Indices : easy'[c].phase # "idle" <=> easy[c].phase # "idle"
  PROVE  ActiveCount'
<1>1. Busy' = Busy
  BY DEF Busy
<1>2. active_count = Cardinality(Busy) + again
  BY DEF ActiveCount, Busy
<1>3. active_count' = Cardinality(Busy') + again'
  BY <1>1, <1>2
<1>4. QED BY <1>3 DEF ActiveCount, Busy

\* Every step keeps the count right.
LEMMA ActiveNext == ASSUME SlotsInv, ActiveCount, [Next]_vars PROVE ActiveCount'
<1>0. /\ easy \in [Indices -> Easy] /\ active_count \in Int /\ again \in Nat
      /\ pc # "destroyed" => active_count = Cardinality(Busy) + again
      /\ IsFiniteSet(Busy) /\ Cardinality(Busy) \in Nat
  BY BusyFinite DEF SlotsInv, TypeOK, ActiveCount, Busy
<1>1. CASE Create
  <2>1. \A c \in Indices : easy'[c].phase = easy[c].phase
    BY <1>1, CreateEffect
  <2>2. pc # "destroyed" /\ UNCHANGED <<active_count, again>>
    BY <1>1 DEF Create
  <2>3. QED BY <2>1, <2>2, ActiveKept
<1>2. CASE CreateUndefined \/ Update \/ PerformReturns \/ UpdateReturns \/ \E c \in Indices : WriteCb(c)
  <2>1. pc # "destroyed" /\ UNCHANGED <<active_count, again, easy>>
    BY <1>2 DEF CreateUndefined, Update, PerformReturns, UpdateReturns, WriteCb, poolVars, histVars
  <2>2. QED BY <2>1, ActiveKept
<1>3. ASSUME NEW h \in handles, NEW option \in {"headers", "post"}, SetOption(h, option)
      PROVE  ActiveCount'
  <2>1. PICK c : c = requests[h.index].curl
    OBVIOUS
  <2>2. /\ easy' = [easy EXCEPT ![c].options = @ \cup {option}]
        /\ pc # "destroyed" /\ UNCHANGED <<active_count, again>>
    BY <1>3, <2>1 DEF SetOption, poolVars, histVars
  <2>3. \A d \in Indices : easy'[d].phase = easy[d].phase
    <3>1. PICK e : e = [easy[c] EXCEPT !.options = @ \cup {option}]
      OBVIOUS
    <3>2. easy' = [easy EXCEPT ![c] = e]
      BY <2>2, <3>1
    <3>3. c \in Indices => e.phase = easy[c].phase
      <4>1. SUFFICES ASSUME c \in Indices PROVE e.phase = easy[c].phase
        OBVIOUS
      <4>2. easy[c] \in Easy
        BY <1>0, <4>1
      <4>3. QED BY <3>1, <4>2 DEF Easy
    <3>4. QED BY <1>0, <3>2, <3>3
  <2>4. QED BY <2>2, <2>3, ActiveKept
<1>4. ASSUME NEW hs \in Seq(handles), Starts(hs) PROVE ActiveCount'
  <2>1. /\ Added(hs) \subseteq Indices /\ IsFiniteSet(Added(hs))
        /\ \A c \in Added(hs) : easy[c].phase = "idle"
        /\ \A c \in Indices :
             easy'[c].phase = IF c \in Added(hs) THEN "running" ELSE easy[c].phase
        /\ active_count' \in Int /\ again' \in Nat
        /\ active_count' - again' = active_count - again + Cardinality(Added(hs))
    BY <1>4, StartsEffect
  <2>2. Busy' = Busy \cup Added(hs) /\ Busy \cap Added(hs) = {}
    BY <2>1 DEF Busy
  <2>3. /\ Cardinality(Busy \cup Added(hs)) =
             Cardinality(Busy) + Cardinality(Added(hs)) - Cardinality(Busy \cap Added(hs))
        /\ Cardinality(Added(hs)) \in Nat
    BY <1>0, <2>1, FS_Union, FS_CardinalityType
  <2>4. Cardinality({}) = 0
    BY FS_EmptySet
  <2>5. Cardinality(Busy') = Cardinality(Busy) + Cardinality(Added(hs))
    <3>1. Cardinality(Busy \cap Added(hs)) = 0
      BY <2>2, <2>4
    <3>2. Cardinality(Busy') = Cardinality(Busy \cup Added(hs))
      BY <2>2
    <3>3. QED BY <1>0, <2>3, <3>1, <3>2
  <2>6. pc = "idle"
    BY <1>4 DEF Starts
  <2>7. active_count' = Cardinality(Busy') + again'
    BY <1>0, <2>1, <2>3, <2>5, <2>6
  <2>8. QED BY <2>7 DEF ActiveCount, Busy
<1>5. ASSUME NEW c \in Indices, TransferEnds(c) PROVE ActiveCount'
  <2>1. /\ easy[c].phase = "running" /\ easy'[c].phase = "done"
        /\ \A e \in Indices : e # c => easy'[e] = easy[e]
    BY <1>5, EndsEffect
  <2>2. \A e \in Indices : easy'[e].phase # "idle" <=> easy[e].phase # "idle"
    BY <2>1
  <2>3. pc # "destroyed" /\ UNCHANGED <<active_count, again>>
    BY <1>5 DEF TransferEnds, poolVars, histVars
  <2>4. QED BY <2>2, <2>3, ActiveKept
<1>6. CASE ReadMessage
  <2>1. PICK c : c = Head(msgs)
    OBVIOUS
  <2>2. /\ c \in Indices /\ easy[c].phase = "done" /\ easy'[c].phase = "idle"
        /\ \A e \in Indices : e # c => easy'[e] = easy[e]
        /\ active_count' = active_count - 1
    BY <1>6, <2>1, ReadEffect
  <2>3. pc = "read" /\ again' = again
    BY <1>6 DEF ReadMessage, histVars
  <2>4. Busy' = Busy \ {c} /\ c \in Busy
    BY <2>2 DEF Busy
  <2>5. Cardinality(Busy \ {c}) = Cardinality(Busy) - 1
    BY <1>0, <2>4, FS_RemoveElement
  <2>6. active_count' = Cardinality(Busy') + again'
    BY <1>0, <2>2, <2>3, <2>4, <2>5
  <2>7. QED BY <2>6 DEF ActiveCount, Busy
<1>7. CASE Destroy
  BY <1>7 DEF Destroy, ActiveCount
<1>8. CASE UNCHANGED vars
  BY <1>8 DEF vars, poolVars, histVars, ActiveCount
<1>9. QED
  <2>1. ASSUME NEW h \in handles, Start(h) PROVE ActiveCount'
    <3>1. <<h>> \in Seq(handles) /\ Starts(<<h>>)
      BY <2>1 DEF Start
    <3>2. QED BY <1>4, <3>1
  <2>2. ASSUME NEW hs \in HandleLists, StartBatch(hs) PROVE ActiveCount'
    BY <1>4, <2>2, HandleListType DEF StartBatch
  <2>3. QED
    BY <1>1, <1>2, <1>3, <1>5, <1>6, <1>7, <1>8, <2>1, <2>2
    DEF Next, UpdateBatch, Finished

\* active_count is the number of transfers plus the starts of requests that were in
\* one (start counts every call, update only the transfers that end).
THEOREM ActiveCorrect == Spec => []ActiveCount
<1>1. Init => ActiveCount
  <2>1. SUFFICES ASSUME Init PROVE active_count = Cardinality(Busy) + again
    BY DEF ActiveCount, Busy
  <2>2. Busy = {}
    BY <2>1 DEF Init, Busy
  <2>3. QED BY <2>1, <2>2, FS_EmptySet DEF Init
<1>2. QED BY <1>1, ActiveNext, SlotsAlways, PTL DEF Spec

-----------------------------------------------------------------------------
(* The outcome of a request.                                               *)

\* A request that a step leaves alone keeps its outcome.
LEMMA OutcomeKept ==
  ASSUME NEW i \in Indices, OutcomeAt(i),
         requests'[i].state = requests[i].state, requests'[i].error = requests[i].error,
         easy'[i].phase = easy[i].phase, easy'[i].result = easy[i].result,
         starts'[i] = starts[i]
  PROVE  OutcomeAt(i)'
BY DEF OutcomeAt, Created

\* Every step keeps the outcomes right.
LEMMA OutcomeNext == ASSUME SlotsInv, OutcomeInv, [Next]_vars PROVE OutcomeInv'
<1>0. /\ requests \in [Indices -> Request] /\ easy \in [Indices -> Easy]
      /\ starts \in [Indices -> Nat]
  BY DEF SlotsInv, TypeOK
<1>1. CASE Create
  <2>1. PICK u : u = Used
    OBVIOUS
  <2>2. /\ u \in Indices
        /\ requests'[u] = [state |-> "PENDING", error |-> "NONE", data_length |-> 0, curl |-> u]
        /\ \A i \in Indices : i # u => requests'[i] = requests[i]
        /\ \A c \in Indices : /\ easy'[c].phase = easy[c].phase
                              /\ easy'[c].result = easy[c].result
        /\ starts' = starts
    BY <1>1, <2>1, CreateEffect
  <2>3. OutcomeAt(u)'
    <3>1. requests'[u].state = "PENDING" /\ requests'[u].error = "NONE"
      BY <2>2
    <3>2. OutcomeAt(u)
      BY <2>2 DEF OutcomeInv
    <3>3. QED BY <2>2, <3>1, <3>2 DEF OutcomeAt
  <2>4. ASSUME NEW i \in Indices, i # u PROVE OutcomeAt(i)'
    BY <2>2, <2>4, OutcomeKept DEF OutcomeInv
  <2>5. QED BY <2>3, <2>4 DEF OutcomeInv
<1>2. CASE UNCHANGED <<requests, easy, starts>>
  BY <1>2, OutcomeKept DEF OutcomeInv
<1>3. ASSUME NEW h \in handles, NEW option \in {"headers", "post"}, SetOption(h, option)
      PROVE  OutcomeInv'
  <2>1. PICK c : c = requests[h.index].curl
    OBVIOUS
  <2>2. /\ easy' = [easy EXCEPT ![c].options = @ \cup {option}]
        /\ UNCHANGED <<requests, starts>>
    BY <1>3, <2>1 DEF SetOption, poolVars, histVars
  <2>3. \A d \in Indices : easy'[d].phase = easy[d].phase /\ easy'[d].result = easy[d].result
    <3>1. PICK e : e = [easy[c] EXCEPT !.options = @ \cup {option}]
      OBVIOUS
    <3>2. easy' = [easy EXCEPT ![c] = e]
      BY <2>2, <3>1
    <3>3. c \in Indices => e.phase = easy[c].phase /\ e.result = easy[c].result
      <4>1. SUFFICES ASSUME c \in Indices
                     PROVE  e.phase = easy[c].phase /\ e.result = easy[c].result
        OBVIOUS
      <4>2. easy[c] \in Easy
        BY <1>0, <4>1
      <4>3. QED BY <3>1, <4>2 DEF Easy
    <3>4. QED BY <1>0, <3>2, <3>3
  <2>4. QED BY <2>2, <2>3, OutcomeKept DEF OutcomeInv
<1>4. ASSUME NEW hs \in Seq(handles), Starts(hs) PROVE OutcomeInv'
  <2>1. /\ \A c \in Added(hs) : easy[c].phase = "idle"
        /\ \A c \in Indices :
             /\ easy'[c].result = easy[c].result
             /\ easy'[c].phase = IF c \in Added(hs) THEN "running" ELSE easy[c].phase
        /\ starts' \in [Indices -> Nat]
        /\ \A c \in Indices : starts'[c] >= starts[c]
        /\ \A c \in Added(hs) : starts'[c] >= starts[c] + 1
    BY <1>4, StartsEffect
  <2>2. requests' = requests
    BY <1>4 DEF Starts
  <2>3. SUFFICES ASSUME NEW i \in Indices PROVE OutcomeAt(i)'
    BY DEF OutcomeInv
  <2>4. /\ OutcomeAt(i) /\ starts[i] \in Nat /\ starts'[i] \in Nat /\ starts'[i] >= starts[i]
        /\ easy'[i].result = easy[i].result
    BY <1>0, <2>1, <2>3 DEF OutcomeInv
  <2>5. CASE i \in Added(hs)
    <3>1. /\ easy[i].phase = "idle" /\ easy'[i].phase = "running"
          /\ starts'[i] >= starts[i] + 1
      BY <2>1, <2>5
    <3>2. QED BY <2>2, <2>4, <3>1 DEF OutcomeAt, Created
  <2>6. CASE i \notin Added(hs)
    <3>1. easy'[i].phase = easy[i].phase
      BY <2>1, <2>6
    <3>2. QED BY <2>2, <2>4, <3>1 DEF OutcomeAt, Created
  <2>7. QED BY <2>5, <2>6
<1>5. ASSUME NEW c \in Indices, WriteCb(c) PROVE OutcomeInv'
  <2>1. PICK d : d = requests[c].data_length
    OBVIOUS
  <2>2. /\ requests'[c] = [requests[c] EXCEPT !.data_length = d + 1]
        /\ \A i \in Indices : i # c => requests'[i] = requests[i]
    BY <1>5, <2>1, WriteEffect
  <2>3. requests'[c].state = requests[c].state /\ requests'[c].error = requests[c].error
    <3>1. requests[c] \in Request
      BY <1>0
    <3>2. QED BY <2>2, <3>1 DEF Request
  <2>4. UNCHANGED <<easy, starts>>
    BY <1>5 DEF WriteCb
  <2>5. QED BY <2>2, <2>3, <2>4, OutcomeKept DEF OutcomeInv
<1>6. ASSUME NEW c \in Indices, TransferEnds(c) PROVE OutcomeInv'
  <2>1. /\ easy[c].phase = "running" /\ easy'[c].phase = "done"
        /\ \A e \in Indices : e # c => easy'[e] = easy[e]
    BY <1>6, EndsEffect
  <2>2. UNCHANGED <<requests, starts>>
    BY <1>6 DEF TransferEnds, poolVars, histVars
  <2>3. OutcomeAt(c)'
    <3>1. OutcomeAt(c)
      BY DEF OutcomeInv
    <3>2. QED BY <2>1, <2>2, <3>1 DEF OutcomeAt, Created
  <2>4. QED BY <2>1, <2>2, <2>3, OutcomeKept DEF OutcomeInv
<1>7. CASE ReadMessage
  <2>1. PICK c : c = Head(msgs)
    OBVIOUS
  <2>2. /\ c \in Indices /\ Created(c) /\ easy[c].phase = "done" /\ easy[c].result \in Codes
        /\ requests'[c] = Outcome(requests[c], easy[c].result)
        /\ \A i \in Indices : i # c => requests'[i] = requests[i]
        /\ easy'[c].phase = "idle"
        /\ \A e \in Indices : /\ easy'[e].result = easy[e].result
                              /\ e # c => easy'[e] = easy[e]
    BY <1>7, <2>1, ReadEffect
  <2>3. starts' = starts
    BY <1>7 DEF ReadMessage, histVars
  <2>4. OutcomeAt(c)'
    <3>1. /\ requests[c] \in Request /\ starts[c] \in Nat /\ OutcomeAt(c)
          /\ easy'[c].result = easy[c].result
      BY <1>0, <2>2 DEF OutcomeInv
    <3>2. CASE easy[c].result = "CURLE_OK"
      <4>1. requests'[c].state = "COMPLETE" /\ requests'[c].error = requests[c].error
        BY <2>2, <3>1, <3>2, OutcomeType
      <4>2. QED BY <2>2, <2>3, <3>1, <3>2, <4>1 DEF OutcomeAt, Created
    <3>3. CASE easy[c].result # "CURLE_OK"
      <4>1. requests'[c].state = "ERROR" /\ requests'[c].error = curl_to_error(easy[c].result)
        BY <2>2, <3>1, <3>3, OutcomeType
      <4>2. QED BY <2>2, <2>3, <3>1, <3>3, <4>1 DEF OutcomeAt, Created
    <3>4. QED BY <3>2, <3>3
  <2>5. QED BY <2>2, <2>3, <2>4, OutcomeKept DEF OutcomeInv
<1>8. CASE Destroy
  <2>1. /\ pc = "idle" /\ UNCHANGED <<requests, starts>>
        /\ easy' = [c \in Indices |-> [easy[c] EXCEPT !.phase = "idle"]]
    BY <1>8 DEF Destroy, poolVars, histVars
  <2>2. \A c \in Indices : easy[c].phase # "done"
    <3>1. msgs = <<>> /\ Len(msgs) = 0
      BY <2>1 DEF SlotsInv, MessagesMatch
    <3>2. QED BY <3>1 DEF SlotsInv, MessagesMatch
  <2>3. \A c \in Indices : easy'[c].phase = "idle" /\ easy'[c].result = easy[c].result
    <3>1. ASSUME NEW e \in Easy
          PROVE  /\ [e EXCEPT !.phase = "idle"].phase = "idle"
                 /\ [e EXCEPT !.phase = "idle"].result = e.result
      BY DEF Easy
    <3>2. QED BY <1>0, <2>1, <3>1
  <2>4. QED BY <2>1, <2>2, <2>3 DEF OutcomeInv, OutcomeAt, Created
<1>9. QED
  <2>1. ASSUME NEW h \in handles, Start(h) PROVE OutcomeInv'
    <3>1. <<h>> \in Seq(handles) /\ Starts(<<h>>)
      BY <2>1 DEF Start
    <3>2. QED BY <1>4, <3>1
  <2>2. ASSUME NEW hs \in HandleLists, StartBatch(hs) PROVE OutcomeInv'
    BY <1>4, <2>2, HandleListType DEF StartBatch
  <2>3. CreateUndefined \/ Update \/ PerformReturns \/ UpdateReturns \/ UNCHANGED vars
          => UNCHANGED <<requests, easy, starts>>
    BY DEF CreateUndefined, Update, PerformReturns, UpdateReturns, vars, poolVars, histVars
  <2>4. QED
    BY <1>1, <1>2, <1>3, <1>5, <1>6, <1>7, <1>8, <2>1, <2>2, <2>3
    DEF Next, UpdateBatch, Finished

\* The state and the error of a request are those of its own last transfer, whatever
\* the order in which transfers end and messages are read.
THEOREM OutcomeCorrect == Spec => []OutcomeIsOwn
<1>1. Init => OutcomeInv
  <2>1. SUFFICES ASSUME Init, NEW i \in Indices PROVE OutcomeAt(i)
    BY DEF OutcomeInv
  <2>2. requests[i].state = "FREE" /\ requests[i].error = "NONE" /\ easy[i].phase = "idle"
    BY <2>1 DEF Init
  <2>3. QED BY <2>2 DEF OutcomeAt, Created
<1>2. ASSUME SlotsInv, OutcomeInv PROVE OutcomeIsOwn
  <2>1. \A i \in Indices : Created(i) => requests[i].curl = i
    BY <1>2 DEF SlotsInv, SlotsInOrder
  <2>2. QED BY <1>2, <2>1 DEF OutcomeInv, OutcomeAt, OutcomeIsOwn
<1>3. QED BY <1>1, <1>2, OutcomeNext, SlotsAlways, PTL DEF Spec

-----------------------------------------------------------------------------
(* The shared vector.                                                      *)

\* The places of the chunks of request i.
PlacesOf(s, i) == {k \in 1 .. Len(s) : s[k].req = i}

\* t is s with e inserted at place p.
Inserted(s, p, e, t) ==
  /\ Len(t) = Len(s) + 1
  /\ \A k \in 1 .. Len(s) + 1 :
       t[k] = IF k < p THEN s[k] ELSE IF k = p THEN e ELSE s[k - 1]

\* Inserting a chunk moves those behind it up by one place, and adds one to its request.
LEMMA InsertCount ==
  ASSUME NEW s \in Seq(Chunk), NEW t \in Seq(Chunk), NEW p \in 1 .. Len(s) + 1,
         NEW e \in Chunk, Inserted(s, p, e, t), NEW i
  PROVE  /\ e.req = i => Cardinality(PlacesOf(t, i)) = Cardinality(PlacesOf(s, i)) + 1
         /\ e.req # i => Cardinality(PlacesOf(t, i)) = Cardinality(PlacesOf(s, i))
<1> DEFINE old  == {k \in 1 .. Len(s) : s[k].req = i}
           new  == {k \in 1 .. Len(t) : t[k].req = i}
           up(k) == IF k < p THEN k ELSE k + 1
           moved == {up(k) : k \in old}
<1>0. /\ Len(s) \in Nat /\ p \in Int
      /\ Len(t) = Len(s) + 1
      /\ \A k \in 1 .. Len(s) + 1 :
           t[k] = IF k < p THEN s[k] ELSE IF k = p THEN e ELSE s[k - 1]
  BY LenProperties DEF Inserted
<1>1. IsFiniteSet(old)
  <2>1. IsFiniteSet(1 .. Len(s))
    <3>1. 1 \in Int /\ Len(s) \in Int
      BY <1>0
    <3>2. QED BY <3>1, FS_Interval, Zenon
  <2>2. old \subseteq 1 .. Len(s)
    OBVIOUS
  <2>3. QED BY <2>1, <2>2, FS_Subset
<1>2. IsFiniteSet(moved) /\ Cardinality(moved) = Cardinality(old)
  <2>1. PICK f : f = [k \in old |-> up(k)]
    OBVIOUS
  <2>2. f \in Surjection(old, moved)
    BY <2>1 DEF Surjection
  <2>3. f \in Injection(old, moved)
    <3>1. \A j, k \in old : up(j) = up(k) => j = k
      BY <1>0
    <3>2. f \in [old -> moved]
      BY <2>1
    <3>3. \A j, k \in old : f[j] = f[k] => j = k
      BY <2>1, <3>1
    <3>4. QED BY <3>2, <3>3 DEF Injection, IsInjective
  <2>4. f \in Bijection(old, moved)
    BY <2>2, <2>3 DEF Bijection
  <2>5. ExistsBijection(old, moved)
    BY <2>4 DEF ExistsBijection
  <2> HIDE DEF old, moved
  <2>6. QED BY <1>1, <2>5, FS_Bijection
<1>3. p \notin moved
  BY <1>0
<1>4. moved \subseteq new
  <2>1. SUFFICES ASSUME NEW k \in old PROVE up(k) \in new
    OBVIOUS
  <2>2. k \in 1 .. Len(s) /\ s[k].req = i
    OBVIOUS
  <2>3. up(k) \in 1 .. Len(t) /\ t[up(k)] = s[k]
    <3>1. CASE k < p
      <4>1. up(k) = k /\ k \in 1 .. Len(s) + 1
        BY <1>0, <2>2, <3>1
      <4>2. t[k] = s[k]
        BY <1>0, <3>1, <4>1
      <4>3. QED BY <1>0, <4>1, <4>2
    <3>2. CASE ~(k < p)
      <4>1. up(k) = k + 1 /\ k + 1 \in 1 .. Len(s) + 1 /\ ~(k + 1 < p) /\ k + 1 # p
        BY <1>0, <2>2, <3>2
      <4>2. t[k + 1] = s[k + 1 - 1] /\ k + 1 - 1 = k
        BY <1>0, <2>2, <4>1
      <4>3. QED BY <1>0, <4>1, <4>2
    <3>3. QED BY <3>1, <3>2
  <2>4. QED BY <2>2, <2>3
<1>5. \A k \in new : k # p => k \in moved
  <2>1. SUFFICES ASSUME NEW k \in new, k # p PROVE k \in moved
    OBVIOUS
  <2>2. k \in 1 .. Len(s) + 1 /\ t[k].req = i
    BY <1>0
  <2>3. CASE k < p
    <3>1. k \in 1 .. Len(s) /\ t[k] = s[k]
      BY <1>0, <2>2, <2>3
    <3>2. k \in old /\ up(k) = k
      BY <2>2, <2>3, <3>1
    <3>3. QED BY <3>2
  <2>4. CASE ~(k < p)
    <3>1. k - 1 \in 1 .. Len(s) /\ t[k] = s[k - 1] /\ ~(k - 1 < p) /\ k - 1 + 1 = k
      BY <1>0, <2>1, <2>2, <2>4
    <3>2. k - 1 \in old /\ up(k - 1) = k
      BY <2>2, <3>1
    <3>3. QED BY <3>2
  <2>5. QED BY <2>3, <2>4
<1>6. p \in new <=> e.req = i
  <2>1. t[p] = e /\ p \in 1 .. Len(t)
    BY <1>0
  <2>2. QED BY <2>1
<1> HIDE DEF old, new, moved, up
<1>7. CASE e.req = i
  <2>1. new = moved \cup {p}
    BY <1>4, <1>5, <1>6, <1>7
  <2>2. Cardinality(moved \cup {p}) = Cardinality(moved) + 1
    BY <1>2, <1>3, FS_AddElement
  <2>3. Cardinality(new) = Cardinality(old) + 1
    BY <1>2, <2>1, <2>2
  <2>4. QED BY <1>7, <2>3 DEF old, new, PlacesOf
<1>8. CASE e.req # i
  <2>1. new = moved
    BY <1>4, <1>5, <1>6, <1>8
  <2>2. Cardinality(new) = Cardinality(old)
    BY <1>2, <2>1
  <2>3. QED BY <1>8, <2>2 DEF old, new, PlacesOf
<1>9. QED BY <1>7, <1>8

\* A step that delivers nothing.
LEMMA DataKept ==
  ASSUME SlotsInv, DataInv, UNCHANGED <<responses, log>>,
         \A i \in Indices : /\ requests'[i].data_length = requests[i].data_length
                            /\ Created(i) => Created(i)'
  PROVE  DataInv'
<1>0. log \in Seq(Chunk) /\ \A k \in 1 .. Len(log) : log[k].req \in Indices
  <2>1. log \in Seq(Chunk)
    BY DEF SlotsInv, TypeOK
  <2>2. \A k \in 1 .. Len(log) : log[k] \in Chunk
    BY <2>1
  <2>3. QED BY <2>1, <2>2 DEF Chunk
<1>1. DeliveryLogged'
  <2>1. \A k \in 1 .. Len(log) : Created(log[k].req)'
    BY <1>0 DEF DataInv, DeliveryLogged
  <2>2. QED BY <2>1 DEF DataInv, DeliveryLogged
<1>2. ResponsesAccounted'
  BY DEF DataInv, ResponsesAccounted
<1>3. LatestInFront'
  <2>1. SUFFICES ASSUME OneAfterTheOther', log # <<>>
                 PROVE  \A n \in 1 .. requests'[Last(log).req].data_length :
                          responses[n] = [req |-> Last(log).req, n |-> n]
    BY DEF LatestInFront
  <2>2. OneAfterTheOther
    BY <2>1 DEF OneAfterTheOther
  <2>3. Last(log).req \in Indices
    <3>1. Len(log) \in 1 .. Len(log)
      BY <1>0, <2>1, EmptySeq, LenProperties
    <3>2. QED BY <1>0, <3>1 DEF Last
  <2>4. QED BY <2>1, <2>2, <2>3 DEF DataInv, LatestInFront
<1>4. QED BY <1>1, <1>2, <1>3 DEF DataInv

\* write_cb delivers a chunk.
LEMMA DataWrite ==
  ASSUME SlotsInv, SlotsInv', DataInv, NEW c \in Indices, WriteCb(c)
  PROVE  DataInv'
<1>1. PICK d, chunk : d = requests[c].data_length /\ chunk = [req |-> c, n |-> d + 1]
  OBVIOUS
<1>2. /\ Created(c) /\ d \in 0 .. Len(responses) /\ chunk \in Chunk
      /\ requests'[c] = [requests[c] EXCEPT !.data_length = d + 1]
      /\ \A i \in Indices : i # c => requests'[i] = requests[i]
      /\ responses' \in Seq(Chunk)
      /\ Len(responses') = Len(responses) + 1
      /\ \A k \in 1 .. Len(responses) + 1 :
           responses'[k] = IF k < d + 1 THEN responses[k]
                           ELSE IF k = d + 1 THEN chunk ELSE responses[k - 1]
      /\ log' = Append(log, chunk)
  BY <1>1, WriteEffect
<1>3. /\ requests \in [Indices -> Request] /\ responses \in Seq(Chunk) /\ log \in Seq(Chunk)
      /\ Len(responses) \in Nat /\ Len(log) \in Nat
  BY LenProperties DEF SlotsInv, TypeOK
<1>4. /\ \A i \in Indices : Created(i)' <=> Created(i)
      /\ requests'[c].data_length = d + 1
      /\ \A i \in Indices : i # c => requests'[i].data_length = requests[i].data_length
  <2>1. requests[c] \in Request
    BY <1>3
  <2>2. requests'[c].state = requests[c].state /\ requests'[c].data_length = d + 1
    BY <1>2, <2>1 DEF Request
  <2>3. QED BY <1>2, <2>2 DEF Created
<1>5. /\ log' \in Seq(Chunk) /\ Len(log') = Len(log) + 1
      /\ \A k \in 1 .. Len(log) : log'[k] = log[k] /\ log[k].req \in Indices
      /\ log'[Len(log) + 1] = chunk /\ chunk.req = c
  <2>1. /\ log' \in Seq(Chunk) /\ Len(log') = Len(log) + 1
        /\ \A k \in 1 .. Len(log) : log'[k] = log[k]
        /\ log'[Len(log) + 1] = chunk
    BY <1>2, <1>3, AppendProperties
  <2>2. \A k \in 1 .. Len(log) : log[k].req \in Indices
    <3>1. \A k \in 1 .. Len(log) : log[k] \in Chunk
      BY <1>3
    <3>2. QED BY <3>1 DEF Chunk
  <2>3. QED BY <1>1, <2>1, <2>2
<1>6. DeliveryLogged'
  <2>1. \A k \in 1 .. Len(log') : requests'[log'[k].req].state # "FREE"
    <3>1. SUFFICES ASSUME NEW k \in 1 .. Len(log') PROVE requests'[log'[k].req].state # "FREE"
      OBVIOUS
    <3>2. CASE k = Len(log) + 1
      BY <1>2, <1>4, <1>5, <3>2 DEF Created
    <3>3. CASE k # Len(log) + 1
      <4>1. k \in 1 .. Len(log)
        BY <1>3, <1>5, <3>3
      <4>2. Created(log[k].req) /\ log'[k] = log[k] /\ log[k].req \in Indices
        BY <1>5, <4>1 DEF DataInv, DeliveryLogged
      <4>3. QED BY <1>4, <4>2 DEF Created
    <3>4. QED BY <3>2, <3>3
  <2>2. \A i \in Indices : requests'[i].data_length > 0 => \E k \in 1 .. Len(log') : log'[k].req = i
    <3>1. SUFFICES ASSUME NEW i \in Indices, requests'[i].data_length > 0
                   PROVE  \E k \in 1 .. Len(log') : log'[k].req = i
      OBVIOUS
    <3>2. CASE i = c
      BY <1>3, <1>5, <3>2
    <3>3. CASE i # c
      <4>1. PICK k \in 1 .. Len(log) : log[k].req = i
        BY <1>4, <3>1, <3>3 DEF DataInv, DeliveryLogged
      <4>2. k \in 1 .. Len(log') /\ log'[k].req = i
        BY <1>3, <1>5, <4>1
      <4>3. QED BY <4>2
    <3>4. QED BY <3>2, <3>3
  <2>3. QED BY <2>1, <2>2 DEF DeliveryLogged, Created
<1>7. ResponsesAccounted'
  <2>1. SUFFICES ASSUME NEW i \in Indices
                 PROVE  /\ requests'[i].data_length <= Len(responses')
                        /\ Cardinality({k \in 1 .. Len(responses') : responses'[k].req = i})
                             = requests'[i].data_length
                        /\ \A n \in 1 .. requests'[i].data_length :
                             \E k \in 1 .. Len(responses') : responses'[k] = [req |-> i, n |-> n]
    BY DEF ResponsesAccounted
  <2>2. requests'[i].data_length <= Len(responses')
    BY DEF SlotsInv, SpansInside
  <2>3. Cardinality({k \in 1 .. Len(responses') : responses'[k].req = i})
          = requests'[i].data_length
    <3>1. PICK s, t, q : s = responses /\ t = responses' /\ q = d + 1
      OBVIOUS
    <3>2. /\ s \in Seq(Chunk) /\ t \in Seq(Chunk) /\ q \in 1 .. Len(s) + 1
          /\ chunk \in Chunk /\ Inserted(s, q, chunk, t)
      BY <1>2, <1>3, <3>1 DEF Inserted
    <3>3. /\ chunk.req = i => Cardinality(PlacesOf(t, i)) = Cardinality(PlacesOf(s, i)) + 1
          /\ chunk.req # i => Cardinality(PlacesOf(t, i)) = Cardinality(PlacesOf(s, i))
      BY <3>2, InsertCount
    <3>4. Cardinality(PlacesOf(s, i)) = requests[i].data_length
      BY <3>1 DEF DataInv, ResponsesAccounted, PlacesOf
    <3>5. Cardinality(PlacesOf(t, i)) = requests'[i].data_length
      BY <1>1, <1>4, <1>5, <3>3, <3>4
    <3>6. QED BY <3>1, <3>5 DEF PlacesOf
  <2>4. ASSUME NEW n \in 1 .. requests'[i].data_length
        PROVE  \E k \in 1 .. Len(responses') : responses'[k] = [req |-> i, n |-> n]
    <3>1. CASE i = c /\ n = d + 1
      <4>1. d + 1 \in 1 .. Len(responses) + 1 /\ ~(d + 1 < d + 1)
        BY <1>2, <1>3
      <4>2. responses'[d + 1] = chunk
        BY <1>2, <4>1
      <4>3. QED BY <1>1, <1>2, <3>1, <4>1, <4>2
    <3>2. CASE ~(i = c /\ n = d + 1)
      <4>1. requests[i].data_length \in Nat
        <5>1. requests[i] \in Request
          BY <1>3
        <5>2. QED BY <5>1 DEF Request
      <4>2. n \in 1 .. requests[i].data_length
        BY <1>1, <1>4, <2>4, <3>2, <4>1
      <4>3. PICK k \in 1 .. Len(responses) : responses[k] = [req |-> i, n |-> n]
        BY <4>2 DEF DataInv, ResponsesAccounted
      <4>4. CASE k < d + 1
        <5>1. k \in 1 .. Len(responses) + 1
          BY <1>3, <4>3
        <5>2. responses'[k] = responses[k]
          BY <1>2, <4>4, <5>1
        <5>3. QED BY <1>2, <4>3, <5>1, <5>2
      <4>5. CASE ~(k < d + 1)
        <5>1. /\ k + 1 \in 1 .. Len(responses) + 1 /\ ~(k + 1 < d + 1) /\ k + 1 # d + 1
              /\ k + 1 - 1 = k
          BY <1>2, <1>3, <4>3, <4>5
        <5>2. responses'[k + 1] = responses[k + 1 - 1]
          BY <1>2, <5>1
        <5>3. QED BY <1>2, <4>3, <5>1, <5>2
      <4>6. QED BY <4>4, <4>5
    <3>3. QED BY <3>1, <3>2
  <2>5. QED BY <2>2, <2>3, <2>4
<1>8. LatestInFront'
  <2>1. log' # <<>> /\ Last(log') = chunk
    <3>1. Len(log') # 0
      BY <1>3, <1>5
    <3>2. Last(log') = log'[Len(log')]
      BY DEF Last
    <3>3. QED BY <1>5, <3>1, <3>2
  <2>2. SUFFICES ASSUME OneAfterTheOther', NEW n \in 1 .. d + 1
                 PROVE  responses'[n] = [req |-> c, n |-> n]
    BY <1>4, <1>5, <2>1 DEF LatestInFront
  <2>3. CASE n = d + 1
    <3>1. d + 1 \in 1 .. Len(responses) + 1 /\ ~(d + 1 < d + 1)
      BY <1>2, <1>3
    <3>2. responses'[d + 1] = chunk
      BY <1>2, <3>1
    <3>3. QED BY <1>1, <2>3, <3>2
  <2>4. CASE n # d + 1
    <3>1. n \in 1 .. d /\ d > 0 /\ n < d + 1 /\ n \in 1 .. Len(responses) + 1
      BY <1>2, <1>3, <2>2, <2>4
    <3>2. PICK j \in 1 .. Len(log) : log[j].req = c
      BY <1>1, <3>1 DEF DataInv, DeliveryLogged
    <3>3. log[Len(log)].req = c /\ log # <<>>
      <4>1. j \in 1 .. Len(log') /\ Len(log') \in 1 .. Len(log') /\ j < Len(log')
        BY <1>3, <1>5, <3>2
      <4>2. log'[j].req = log'[Len(log')].req /\ log'[j].req = c
        BY <1>5, <3>2
      <4>3. \A m \in j .. Len(log') : log'[m].req = log'[j].req
        BY <2>2, <4>1, <4>2 DEF OneAfterTheOther
      <4>4. Len(log) \in j .. Len(log') /\ Len(log) \in 1 .. Len(log)
        BY <1>3, <1>5, <3>2
      <4>5. log'[Len(log)].req = c /\ log'[Len(log)] = log[Len(log)]
        BY <1>5, <4>2, <4>3, <4>4
      <4>6. log # <<>>
        BY <1>3, <3>2
      <4>7. QED BY <4>5, <4>6
    <3>4. OneAfterTheOther
      <4>1. SUFFICES ASSUME NEW a \in 1 .. Len(log), NEW b \in 1 .. Len(log), a < b,
                            log[a].req = log[b].req, NEW m \in a .. b
                     PROVE  log[m].req = log[a].req
        BY DEF OneAfterTheOther
      <4>2. m \in 1 .. Len(log) /\ a \in 1 .. Len(log') /\ b \in 1 .. Len(log')
        BY <1>3, <1>5, <4>1
      <4>3. log'[a] = log[a] /\ log'[b] = log[b] /\ log'[m] = log[m]
        BY <1>5, <4>1, <4>2
      <4>4. log'[m].req = log'[a].req
        BY <2>2, <4>1, <4>2, <4>3 DEF OneAfterTheOther
      <4>5. QED BY <4>3, <4>4
    <3>5. Last(log).req = c
      BY <3>3 DEF Last
    <3>6. responses[n] = [req |-> c, n |-> n]
      BY <1>1, <3>1, <3>3, <3>4, <3>5 DEF DataInv, LatestInFront
    <3>7. responses'[n] = responses[n]
      BY <1>2, <3>1
    <3>8. QED BY <3>6, <3>7
  <2>5. QED BY <2>3, <2>4
<1>9. QED BY <1>6, <1>7, <1>8 DEF DataInv

\* Every step keeps the vector, the spans and the log in order.
LEMMA DataNext == ASSUME SlotsInv, SlotsInv', DataInv, [Next]_vars PROVE DataInv'
<1>0. /\ requests \in [Indices -> Request]
      /\ \A i \in Indices : requests[i] \in Request /\ requests[i].data_length \in Nat
  <2>1. requests \in [Indices -> Request]
    BY DEF SlotsInv, TypeOK
  <2>2. \A r \in Request : r.data_length \in Nat
    BY DEF Request
  <2>3. QED BY <2>1, <2>2
<1>1. CASE Create
  <2>1. PICK u : u = Used
    OBVIOUS
  <2>2. /\ u \in Indices
        /\ requests'[u] = [state |-> "PENDING", error |-> "NONE", data_length |-> 0, curl |-> u]
        /\ \A i \in Indices : i # u => requests'[i] = requests[i]
        /\ UNCHANGED <<responses, log>>
    BY <1>1, <2>1, CreateEffect
  <2>3. ~Created(u)
    <3>1. Used \in Int
      BY <2>1, <2>2, IndicesFinite DEF Indices
    <3>2. QED BY <2>1, <2>2, <3>1 DEF SlotsInv, SlotsInOrder
  <2>4. requests[u].data_length = 0
    <3>1. \A k \in 1 .. Len(log) : log[k].req # u
      BY <2>3 DEF DataInv, DeliveryLogged
    <3>2. ~(requests[u].data_length > 0)
      BY <2>2, <3>1 DEF DataInv, DeliveryLogged
    <3>3. QED BY <1>0, <2>2, <3>2
  <2>5. requests'[u].data_length = 0 /\ requests'[u].state = "PENDING"
    BY <2>2
  <2>6. \A i \in Indices : /\ requests'[i].data_length = requests[i].data_length
                           /\ Created(i) => Created(i)'
    BY <2>2, <2>4, <2>5 DEF Created
  <2>7. QED BY <2>2, <2>6, DataKept
<1>2. CASE UNCHANGED <<requests, responses, log>>
  BY <1>2, DataKept DEF Created
<1>3. ASSUME NEW c \in Indices, WriteCb(c) PROVE DataInv'
  BY <1>3, DataWrite
<1>4. CASE ReadMessage
  <2>1. PICK c : c = Head(msgs)
    OBVIOUS
  <2>2. /\ c \in Indices /\ easy[c].result \in Codes
        /\ requests'[c] = Outcome(requests[c], easy[c].result)
        /\ \A i \in Indices : i # c => requests'[i] = requests[i]
    BY <1>4, <2>1, ReadEffect
  <2>3. UNCHANGED <<responses, log>>
    BY <1>4 DEF ReadMessage, histVars
  <2>4. requests'[c].data_length = requests[c].data_length /\ requests'[c].state # "FREE"
    BY <1>0, <2>2, OutcomeType
  <2>5. \A i \in Indices : /\ requests'[i].data_length = requests[i].data_length
                           /\ Created(i) => Created(i)'
    BY <2>2, <2>4 DEF Created
  <2>6. QED BY <2>3, <2>5, DataKept
<1>5. QED
  <2>1. \/ \E h \in handles : Start(h) \/ \E option \in {"headers", "post"} : SetOption(h, option)
        \/ \E hs \in HandleLists : StartBatch(hs)
        => UNCHANGED <<requests, responses, log>>
    BY DEF Start, StartBatch, Starts, SetOption, poolVars, histVars
  <2>2. \/ CreateUndefined \/ Update \/ PerformReturns \/ UpdateReturns \/ Destroy
        \/ (\E c \in Indices : TransferEnds(c)) \/ UNCHANGED vars
        => UNCHANGED <<requests, responses, log>>
    BY DEF CreateUndefined, Update, PerformReturns, UpdateReturns, Destroy, TransferEnds,
           vars, poolVars, histVars
  <2>3. QED
    BY <1>1, <1>2, <1>3, <1>4, <2>1, <2>2 DEF Next, UpdateBatch, Finished

\* In every reachable state the shared vector is what was delivered.
LEMMA DataAlways == Spec => []DataInv
<1>1. Init => DataInv
  <2> SUFFICES ASSUME Init PROVE DataInv
    OBVIOUS
  <2>1. /\ \A i \in Indices : requests[i].data_length = 0
        /\ responses = <<>> /\ log = <<>> /\ Len(responses) = 0 /\ Len(log) = 0
    BY DEF Init
  <2>2. ASSUME NEW i \in Indices
        PROVE  Cardinality({k \in 1 .. Len(responses) : responses[k].req = i}) = 0
    <3>1. {k \in 1 .. Len(responses) : responses[k].req = i} = {}
      BY <2>1
    <3>2. QED BY <3>1, FS_EmptySet
  <2>3. ResponsesAccounted
    BY <2>1, <2>2 DEF ResponsesAccounted
  <2>4. DeliveryLogged /\ LatestInFront
    BY <2>1 DEF DeliveryLogged, LatestInFront
  <2>5. QED BY <2>3, <2>4 DEF DataInv
<1>2. QED BY <1>1, DataNext, SlotsAlways, PTL DEF Spec

\* The shared vector holds every chunk once and every span lies in it, in whatever
\* order transfers deliver (write_cb inserts, get_response reads).
THEOREM ResponsesCorrect == Spec => []ResponsesAccounted
<1>1. DataInv => ResponsesAccounted
  BY DEF DataInv
<1>2. QED BY <1>1, DataAlways, PTL

\* While transfers deliver one after the other, get_response of the latest is its own
\* data in order.
THEOREM LatestCorrect == Spec => []LatestIntact
<1>1. ASSUME SlotsInv, DataInv PROVE LatestIntact
  <2>1. SUFFICES ASSUME OneAfterTheOther, log # <<>>, NEW h \in handles,
                        h.index = Last(log).req, valid_handle(h)
                 PROVE  get_response(h) =
                          [n \in 1 .. requests[Last(log).req].data_length |->
                             [req |-> Last(log).req, n |-> n]]
    BY DEF LatestIntact
  <2>2. PICK i : i = Last(log).req
    OBVIOUS
  <2>3. PICK d : d = requests[i].data_length
    OBVIOUS
  <2>4. i \in Indices /\ d \in Nat /\ d <= Len(responses) /\ responses \in Seq(Chunk)
        /\ Len(responses) \in Nat
    <3>1. i \in Indices
      BY <1>1, <2>1, <2>2 DEF SlotsInv, TypeOK
    <3>2. requests[i] \in Request /\ responses \in Seq(Chunk)
      BY <1>1, <3>1 DEF SlotsInv, TypeOK
    <3>3. d \in Nat
      BY <2>3, <3>2 DEF Request
    <3>4. QED BY <1>1, <2>3, <3>1, <3>2, <3>3, LenProperties DEF SlotsInv, SpansInside
  <2>5. get_response(h) = SubSeq(responses, 1, d)
    BY <2>1, <2>2, <2>3 DEF get_response
  <2>6. \A n \in 1 .. d : responses[n] = [req |-> i, n |-> n]
    BY <1>1, <2>1, <2>2, <2>3 DEF DataInv, LatestInFront
  <2>7. SubSeq(responses, 1, d) = [n \in 1 .. d |-> responses[n]]
    BY <2>4
  <2>8. QED BY <2>2, <2>3, <2>5, <2>6, <2>7
<1>2. QED BY <1>1, SlotsAlways, DataAlways, PTL
=============================================================================
