----------------------------- MODULE UDPPoolQueue -----------------------------
(***************************************************************************)
(* Proof that the pool implements SendQueue: the ring, its window of turns *)
(* and the flushes cut short are a queue in call order, for every size of  *)
(* the ring and every number of calls.                                     *)
(***************************************************************************)
EXTENDS UDPPoolProofs

\* The packet at a turn of the loop.
Data(i) == packets[i % MAX_BUFFERED_PACKETS].data

\* The calls after call m that took a place in the queue.
After(m, s) == {j \in m + 1 .. Len(s) : s[j].queued}

\* The packet at turn i of the window was given by the call after which as many
\* calls have taken a place as there are turns behind it.  The ring itself does not
\* say so: a turn is a number, the call is known only by the packet.
TurnsCounted == \A i \in Turns : Cardinality(After(Data(i), sends)) = length - 1 - i

-----------------------------------------------------------------------------
(* Positions and the order in which they are taken.                        *)

\* Division with remainder.
LEMMA Remainder ==
  ASSUME NEW M \in Nat \ {0}, NEW i \in Nat
  PROVE  i % M \in 0 .. M - 1 /\ i \div M \in Nat /\ i = M * (i \div M) + (i % M)
  OBVIOUS

\* Two turns of one window use different entries.
LEMMA EntriesDiffer ==
  ASSUME NEW M \in Nat \ {0}, NEW i \in Nat, NEW j \in Nat, i < j, j - i < M
  PROVE  i % M # j % M
<1> SUFFICES ASSUME i % M = j % M PROVE FALSE
  OBVIOUS
<1>1. PICK a \in Nat, b \in Nat, r \in 0 .. M - 1 : i = M * a + r /\ j = M * b + r
  <2>1. i % M \in 0 .. M - 1 /\ i \div M \in Nat /\ i = M * (i \div M) + (i % M)
    BY Remainder, Zenon
  <2>2. j % M \in 0 .. M - 1 /\ j \div M \in Nat /\ j = M * (j \div M) + (j % M)
    BY Remainder, Zenon
  <2>3. QED BY <2>1, <2>2, Zenon
<1>2. j - i = M * (b - a)
  BY <1>1
<1>3. b - a >= 1
  <2>1. SUFFICES ASSUME b - a <= 0 PROVE FALSE
    BY <1>1
  <2>2. M * (b - a) <= 0
    BY <2>1
  <2>3. QED BY <1>2, <2>2
<1>4. M * (b - a) >= M
  BY <1>3
<1>5. QED BY <1>2, <1>4

\* A set of positions is finite, and so are its parts.
LEMMA UpToFinite ==
  ASSUME NEW n \in Nat, NEW P \in SUBSET (0 .. n), NEW p
  PROVE  /\ IsFiniteSet(P) /\ Cardinality(P) \in Nat
         /\ IsFiniteSet(UpTo(P, p)) /\ Cardinality(UpTo(P, p)) \in Nat
         /\ Cardinality(UpTo(P, p)) <= Cardinality(P)
<1>1. IsFiniteSet(0 .. n)
  <2>1. 0 \in Int /\ n \in Int
    OBVIOUS
  <2>2. QED BY <2>1, FS_Interval, Zenon
<1>2. IsFiniteSet(P) /\ UpTo(P, p) \in SUBSET P
  BY <1>1, FS_Subset DEF UpTo
<1>3. QED BY <1>2, FS_Subset, FS_CardinalityType

\* A later position has more positions up to it.
LEMMA RankOrder ==
  ASSUME NEW n \in Nat, NEW P \in SUBSET (0 .. n), NEW p \in P, NEW q \in P, p < q
  PROVE  Cardinality(UpTo(P, p)) < Cardinality(UpTo(P, q))
<1>0. p \in 0 .. n /\ q \in 0 .. n /\ \A r \in P : r \in 0 .. n
  OBVIOUS
<1>1. UpTo(P, p) \in SUBSET UpTo(P, q)
  <2>1. \A r \in P : r <= p => r <= q
    BY <1>0
  <2>2. QED BY <2>1 DEF UpTo
<1>2. q \in UpTo(P, q) /\ q \notin UpTo(P, p)
  BY <1>0 DEF UpTo
<1>3. /\ IsFiniteSet(UpTo(P, q)) /\ Cardinality(UpTo(P, q)) \in Nat
      /\ Cardinality(UpTo(P, p)) \in Nat
  BY UpToFinite
<1>4. /\ Cardinality(UpTo(P, p)) <= Cardinality(UpTo(P, q))
      /\ Cardinality(UpTo(P, q)) = Cardinality(UpTo(P, p)) => UpTo(P, q) = UpTo(P, p)
  BY <1>1, <1>3, FS_Subset
<1>5. QED BY <1>2, <1>3, <1>4

\* Every position has a number, and is the one of that number.
LEMMA NthOf ==
  ASSUME NEW n \in Nat, NEW P \in SUBSET (0 .. n), NEW p \in P
  PROVE  /\ Cardinality(UpTo(P, p)) \in 1 .. Cardinality(P)
         /\ Nth(P, Cardinality(UpTo(P, p))) = p
<1> DEFINE k == Cardinality(UpTo(P, p))
<1>0. \A r \in P : r \in 0 .. n
  OBVIOUS
<1>1. /\ Cardinality(P) \in Nat /\ IsFiniteSet(UpTo(P, p))
      /\ k \in Nat /\ k <= Cardinality(P)
  BY UpToFinite
<1>2. k # 0
  <2>1. p \in UpTo(P, p)
    BY <1>0 DEF UpTo
  <2>2. QED BY <1>1, <2>1, FS_EmptySet
<1>3. k \in 1 .. Cardinality(P)
  BY <1>1, <1>2
<1>4. Nth(P, k) \in P /\ Cardinality(UpTo(P, Nth(P, k))) = k
  <2> HIDE DEF k
  <2>1. QED BY <1>1, <1>3, NthIn
<1>5. PICK q \in P : q = Nth(P, k) /\ Cardinality(UpTo(P, q)) = k
  BY <1>4
<1>6. ~(p < q) /\ ~(q < p)
  <2>1. p < q => Cardinality(UpTo(P, p)) < Cardinality(UpTo(P, q))
    BY RankOrder
  <2>2. q < p => Cardinality(UpTo(P, q)) < Cardinality(UpTo(P, p))
    BY RankOrder
  <2>3. ~(k < k)
    BY <1>1
  <2>4. QED BY <1>5, <2>1, <2>2, <2>3
<1>7. q = p
  BY <1>0, <1>6
<1>8. QED BY <1>3, <1>5, <1>7

\* The positions come in increasing order.
LEMMA NthOrder ==
  ASSUME NEW n \in Nat, NEW P \in SUBSET (0 .. n), Cardinality(P) \in Nat,
         NEW j \in 1 .. Cardinality(P), NEW k \in 1 .. Cardinality(P), j < k
  PROVE  Nth(P, j) < Nth(P, k)
<1>0. \A r \in P : r \in 0 .. n
  OBVIOUS
<1>1. PICK p \in P : p = Nth(P, j) /\ Cardinality(UpTo(P, p)) = j
  BY NthIn
<1>2. PICK q \in P : q = Nth(P, k) /\ Cardinality(UpTo(P, q)) = k
  BY NthIn
<1>3. p # q /\ ~(q < p)
  <2>1. q < p => Cardinality(UpTo(P, q)) < Cardinality(UpTo(P, p))
    BY RankOrder
  <2>2. QED BY <1>1, <1>2, <2>1
<1>4. p < q
  BY <1>0, <1>3
<1>5. QED BY <1>1, <1>2, <1>4

-----------------------------------------------------------------------------
(* Sequences in increasing order.                                          *)

Increasing(s) == \A i, j \in 1 .. Len(s) : i < j => s[i] < s[j]

Members(s) == {s[i] : i \in 1 .. Len(s)}

\* The elements of a sequence, and when two sequences are the same.
LEMMA SeqElements ==
  ASSUME NEW s \in Seq(Nat)
  PROVE  Len(s) \in Nat /\ \A i \in 1 .. Len(s) : s[i] \in Nat
  OBVIOUS

\* Sequences with the same elements are the same.
LEMMA SeqEqual ==
  ASSUME NEW S, NEW s \in Seq(S), NEW t \in Seq(S), Len(s) = Len(t),
         \A i \in 1 .. Len(s) : s[i] = t[i]
  PROVE  s = t
  OBVIOUS

\* Where two increasing lists of the same numbers agree up to a place, neither is
\* below the other there.
LEMMA NotBelow ==
  ASSUME NEW s \in Seq(Nat), NEW t \in Seq(Nat), Increasing(s), Increasing(t),
         Members(s) = Members(t), NEW k \in 1 .. Len(s), k \in 1 .. Len(t),
         \A i \in 1 .. k - 1 : s[i] = t[i]
  PROVE  ~(s[k] < t[k])
<1> SUFFICES ASSUME s[k] < t[k] PROVE FALSE
  OBVIOUS
<1>1. s[k] \in Members(t)
  BY DEF Members
<1>2. PICK j \in 1 .. Len(t) : s[k] = t[j]
  BY <1>1 DEF Members
<1>3. /\ Len(s) \in Nat /\ Len(t) \in Nat
      /\ \A i \in 1 .. Len(s) : s[i] \in Nat
      /\ \A i \in 1 .. Len(t) : t[i] \in Nat
  BY SeqElements, Zenon
<1>4. CASE j < k
  <2>1. s[j] = t[j] /\ j \in 1 .. Len(s)
    BY <1>3, <1>4
  <2>2. s[j] < s[k]
    BY <1>4, <2>1 DEF Increasing
  <2>3. QED BY <1>2, <1>3, <2>1, <2>2
<1>5. CASE k < j
  <2>1. t[k] < t[j]
    BY <1>5 DEF Increasing
  <2>2. QED BY <1>2, <1>3, <2>1
<1>6. CASE j = k
  BY <1>2, <1>3, <1>6
<1>7. QED BY <1>3, <1>4, <1>5, <1>6

\* Where one of them ends, the other ends.
LEMMA NotLonger ==
  ASSUME NEW s \in Seq(Nat), NEW t \in Seq(Nat), Increasing(t),
         Members(s) = Members(t), \A i \in 1 .. Len(s) : i \in 1 .. Len(t) => s[i] = t[i]
  PROVE  ~(Len(s) < Len(t))
<1> SUFFICES ASSUME Len(s) < Len(t) PROVE FALSE
  OBVIOUS
<1>0. Len(s) \in Nat /\ Len(t) \in Nat /\ \A i \in 1 .. Len(t) : t[i] \in Nat
  BY SeqElements, Zenon
<1>1. PICK k \in 1 .. Len(t) : k = Len(s) + 1
  BY <1>0
<1>2. t[k] \in Members(s)
  BY DEF Members
<1>3. PICK j \in 1 .. Len(s) : t[k] = s[j]
  BY <1>2 DEF Members
<1>4. j \in 1 .. Len(t) /\ j < k
  BY <1>0, <1>1
<1>5. t[j] < t[k] /\ s[j] = t[j]
  BY <1>4 DEF Increasing
<1>6. QED BY <1>0, <1>3, <1>4, <1>5

\* An increasing list is known by its members.
LEMMA SameList ==
  ASSUME NEW s \in Seq(Nat), NEW t \in Seq(Nat), Increasing(s), Increasing(t),
         Members(s) = Members(t)
  PROVE  s = t
<1> DEFINE both(k) == k \in 1 .. Len(s) /\ k \in 1 .. Len(t)
           T == {k \in 1 .. Len(s) : both(k) /\ s[k] # t[k]}
<1>0. /\ Len(s) \in Nat /\ Len(t) \in Nat
      /\ \A i \in 1 .. Len(s) : s[i] \in Nat
      /\ \A i \in 1 .. Len(t) : t[i] \in Nat
  BY SeqElements, Zenon
<1>1. T = {}
  <2> SUFFICES ASSUME T # {} PROVE FALSE
    OBVIOUS
  <2>1. T \in SUBSET Nat
    BY <1>0
  <2>2. PICK k \in T : \A m \in T : k <= m
    <3> HIDE DEF T
    <3>1. QED BY <2>1, LeastNatural
  <2>3. both(k) /\ s[k] # t[k]
    OBVIOUS
  <2>4. \A i \in 1 .. k - 1 : s[i] = t[i]
    <3>1. SUFFICES ASSUME NEW i \in 1 .. k - 1 PROVE s[i] = t[i]
      OBVIOUS
    <3>2. both(i) /\ ~(k <= i)
      BY <1>0, <2>3
    <3>3. i \notin T
      BY <2>2, <3>2
    <3>4. QED BY <3>2, <3>3
  <2>5. ~(s[k] < t[k])
    BY <2>3, <2>4, NotBelow
  <2>6. ~(t[k] < s[k])
    <3>1. \A i \in 1 .. k - 1 : t[i] = s[i]
      BY <2>4
    <3>2. QED BY <2>3, <3>1, NotBelow
  <2>7. s[k] \in Nat /\ t[k] \in Nat
    BY <1>0, <2>3
  <2>8. QED BY <2>3, <2>5, <2>6, <2>7
<1>2. \A i \in 1 .. Len(s) : i \in 1 .. Len(t) => s[i] = t[i]
  BY <1>1
<1> HIDE DEF T, both
<1>3. ~(Len(s) < Len(t))
  BY <1>2, NotLonger
<1>4. ~(Len(t) < Len(s))
  <2>1. \A i \in 1 .. Len(t) : i \in 1 .. Len(s) => t[i] = s[i]
    BY <1>2
  <2>2. QED BY <2>1, NotLonger
<1>5. Len(s) = Len(t)
  BY <1>0, <1>3, <1>4
<1>6. \A i \in 1 .. Len(s) : s[i] = t[i]
  BY <1>2, <1>5, Zenon
<1>7. QED BY <1>5, <1>6, SeqEqual, Zenon

\* What is left of an increasing list when its first k leave.
LEMMA RestList ==
  ASSUME NEW s \in Seq(Nat), Increasing(s), NEW k \in 0 .. Len(s)
  PROVE  /\ SubSeq(s, k + 1, Len(s)) \in Seq(Nat)
         /\ Increasing(SubSeq(s, k + 1, Len(s)))
         /\ Members(SubSeq(s, k + 1, Len(s))) = {s[i] : i \in k + 1 .. Len(s)}
<1> DEFINE t == SubSeq(s, k + 1, Len(s))
<1>0. Len(s) \in Nat /\ k \in Nat
  OBVIOUS
<1>1. /\ t \in Seq(Nat) /\ Len(t) = Len(s) - k
      /\ \A i \in 1 .. Len(t) : t[i] = s[i + k]
  BY <1>0
<1> HIDE DEF t
<1>2. Increasing(t)
  <2>1. SUFFICES ASSUME NEW i \in 1 .. Len(t), NEW j \in 1 .. Len(t), i < j
                 PROVE  t[i] < t[j]
    BY DEF Increasing
  <2>2. i + k \in 1 .. Len(s) /\ j + k \in 1 .. Len(s) /\ i + k < j + k
    BY <1>0, <1>1, <2>1
  <2>3. s[i + k] < s[j + k]
    BY <2>2 DEF Increasing
  <2>4. QED BY <1>1, <2>3
<1>3. ASSUME NEW i \in k + 1 .. Len(s) PROVE s[i] \in Members(t)
  <2>1. i - k \in 1 .. Len(t) /\ (i - k) + k = i
    BY <1>0, <1>1
  <2>2. t[i - k] = s[i]
    BY <1>1, <2>1
  <2>3. QED BY <2>1, <2>2 DEF Members
<1>4. ASSUME NEW i \in 1 .. Len(t) PROVE t[i] \in {s[j] : j \in k + 1 .. Len(s)}
  <2>1. i + k \in k + 1 .. Len(s)
    BY <1>0, <1>1
  <2>2. QED BY <1>1, <2>1
<1>5. Members(t) = {s[i] : i \in k + 1 .. Len(s)}
  BY <1>3, <1>4 DEF Members
<1>6. QED BY <1>1, <1>2, <1>5 DEF t

\* A greater number joins an increasing list at its end.
LEMMA AppendList ==
  ASSUME NEW s \in Seq(Nat), Increasing(s), NEW n \in Nat, \A m \in Members(s) : m < n
  PROVE  /\ Append(s, n) \in Seq(Nat) /\ Increasing(Append(s, n))
         /\ Members(Append(s, n)) = Members(s) \cup {n}
<1> DEFINE t == Append(s, n)
<1>0. /\ Len(s) \in Nat /\ t \in Seq(Nat) /\ Len(t) = Len(s) + 1 /\ t[Len(s) + 1] = n
      /\ \A i \in 1 .. Len(s) : t[i] = s[i]
  OBVIOUS
<1>1. \A i \in 1 .. Len(t) : i \in 1 .. Len(s) \/ i = Len(s) + 1
  BY <1>0
<1>2. \A i \in 1 .. Len(s) : s[i] < n
  BY DEF Members
<1> HIDE DEF t
<1>3. Increasing(t)
  <2>1. SUFFICES ASSUME NEW i \in 1 .. Len(t), NEW j \in 1 .. Len(t), i < j
                 PROVE  t[i] < t[j]
    BY DEF Increasing
  <2>2. i \in 1 .. Len(s)
    BY <1>0, <2>1
  <2>3. CASE j \in 1 .. Len(s)
    BY <1>0, <2>1, <2>2, <2>3 DEF Increasing
  <2>4. CASE j = Len(s) + 1
    BY <1>0, <1>2, <2>2, <2>4
  <2>5. QED BY <1>1, <2>3, <2>4
<1>4. Members(t) = Members(s) \cup {n}
  <2>1. \A i \in 1 .. Len(s) : i \in 1 .. Len(t)
    BY <1>0
  <2>2. Len(s) + 1 \in 1 .. Len(t)
    BY <1>0
  <2>3. QED BY <1>0, <1>1, <2>1, <2>2 DEF Members
<1>5. QED BY <1>0, <1>3, <1>4 DEF t

-----------------------------------------------------------------------------
(* Calls that took a place.                                                *)

\* One more call adds itself if it took a place; nothing is behind the last call
\* (AfterLast).
LEMMA AfterCall ==
  ASSUME NEW s \in Seq(Calls), NEW r \in Calls, NEW m \in 1 .. Len(s)
  PROVE  /\ Cardinality(After(m, s)) \in Nat
         /\ r.queued => Cardinality(After(m, Append(s, r))) = Cardinality(After(m, s)) + 1
         /\ ~r.queued => After(m, Append(s, r)) = After(m, s)
<1> DEFINE n == Len(s)
           t == Append(s, r)
<1>0. /\ n \in Nat /\ m \in Nat /\ m <= n /\ Len(t) = n + 1 /\ t[n + 1] = r
      /\ \A i \in 1 .. n : t[i] = s[i]
  OBVIOUS
<1>1. /\ \A j \in m + 1 .. n : j \in 1 .. n /\ j \in m + 1 .. n + 1
      /\ \A j \in m + 1 .. n + 1 : j \in m + 1 .. n \/ j = n + 1
      /\ n + 1 \in m + 1 .. n + 1 /\ n + 1 \notin m + 1 .. n
  BY <1>0
<1>2. IsFiniteSet(After(m, s))
  <2>1. m + 1 \in Int /\ n \in Int
    BY <1>0
  <2>2. IsFiniteSet(m + 1 .. n)
    BY <2>1, FS_Interval, Zenon
  <2>3. After(m, s) \in SUBSET (m + 1 .. n)
    BY DEF After
  <2>4. QED BY <2>2, <2>3, FS_Subset
<1> HIDE DEF n, t
<1>3. After(m, s) = {j \in m + 1 .. n : s[j].queued}
  BY DEF After, n
<1>4. After(m, t) = {j \in m + 1 .. n + 1 : t[j].queued}
  BY <1>0 DEF After
<1>5. ASSUME r.queued PROVE After(m, t) = After(m, s) \cup {n + 1}
  BY <1>0, <1>1, <1>3, <1>4, <1>5
<1>6. ASSUME ~r.queued PROVE After(m, t) = After(m, s)
  BY <1>0, <1>1, <1>3, <1>4, <1>6
<1>7. n + 1 \notin After(m, s)
  BY <1>1, <1>3
<1>8. Cardinality(After(m, s)) \in Nat
  BY <1>2, FS_CardinalityType
<1>9. ASSUME r.queued PROVE Cardinality(After(m, t)) = Cardinality(After(m, s)) + 1
  BY <1>2, <1>5, <1>7, <1>9, FS_AddElement
<1>10. QED BY <1>6, <1>8, <1>9 DEF n, t

\* No call comes after the last.
LEMMA AfterLast ==
  ASSUME NEW s \in Seq(Calls), NEW r \in Calls
  PROVE  Cardinality(After(Len(s) + 1, Append(s, r))) = 0
<1>1. Len(s) \in Nat /\ Len(Append(s, r)) = Len(s) + 1
  OBVIOUS
<1>2. \A j \in (Len(s) + 1) + 1 .. Len(s) + 1 : FALSE
  BY <1>1
<1>3. After(Len(s) + 1, Append(s, r)) = {}
  BY <1>1, <1>2 DEF After
<1>4. QED BY <1>3, FS_EmptySet

\* The earlier of two calls has at least as many behind it.
LEMMA AfterOrder ==
  ASSUME NEW s \in Seq(Calls), NEW m \in 1 .. Len(s), NEW k \in 1 .. Len(s), m <= k
  PROVE  /\ Cardinality(After(m, s)) \in Nat /\ Cardinality(After(k, s)) \in Nat
         /\ Cardinality(After(k, s)) <= Cardinality(After(m, s))
<1>0. Len(s) \in Nat
  OBVIOUS
<1>1. m + 1 \in Int /\ Len(s) \in Int
  BY <1>0
<1>2. IsFiniteSet(m + 1 .. Len(s))
  BY <1>1, FS_Interval, Zenon
<1>3. After(m, s) \in SUBSET (m + 1 .. Len(s))
  BY DEF After
<1>4. \A j \in k + 1 .. Len(s) : j \in m + 1 .. Len(s)
  BY <1>0
<1>5. After(k, s) \in SUBSET After(m, s)
  BY <1>4 DEF After
<1>6. IsFiniteSet(After(m, s))
  BY <1>2, <1>3, FS_Subset
<1>7. IsFiniteSet(After(k, s)) /\ Cardinality(After(k, s)) <= Cardinality(After(m, s))
  BY <1>5, <1>6, FS_Subset
<1>8. QED BY <1>6, <1>7, FS_CardinalityType

-----------------------------------------------------------------------------
(* The turns of the window.                                                *)

\* The turns at which a packet waits are turns that try to send.
LEMMA TurnsType ==
  ASSUME PoolType
  PROVE  /\ Turns \in SUBSET Unsent /\ Turns \in SUBSET (0 .. length)
         /\ Cardinality(Turns) \in Nat
         /\ \A i \in Turns : /\ i \in Start .. length - 1 /\ i \in Nat
                             /\ i % MAX_BUFFERED_PACKETS \in Entries
                             /\ Data(i) # NULL
<1>1. length \in Nat /\ MAX_BUFFERED_PACKETS \in Nat \ {0} /\ Start \in Nat
  BY PoolAssumption DEF PoolType, Start
<1>2. Turns \in SUBSET Unsent /\ Unsent \in SUBSET (0 .. length)
  BY UnsentType DEF Turns
<1>3. Cardinality(Turns) \in Nat
  BY <1>1, <1>2, UpToFinite
<1>4. ASSUME NEW i \in Turns
      PROVE  /\ i \in Start .. length - 1 /\ i \in Nat
             /\ i % MAX_BUFFERED_PACKETS \in Entries /\ Data(i) # NULL
  <2>1. i \in Start .. length - 1 /\ Data(i) # NULL
    BY DEF Turns, Unsent, Data
  <2>2. i \in Nat
    BY <1>1, <2>1
  <2>3. QED BY <1>1, <2>1, <2>2 DEF Entries
<1>5. QED BY <1>2, <1>3, <1>4

\* What the pool's invariant says of the turns.
QueueInv == PoolInv /\ TurnsCounted

\* The packet of a turn is known by its call, and a later turn has a later packet.
LEMMA DataOrder ==
  ASSUME QueueInv
  PROVE  /\ \A i \in Turns : Data(i) \in Attempts /\ Data(i) \in Nat
         /\ \A i, j \in Turns : i < j => Data(i) < Data(j)
<1>0. PoolType /\ PacketsKnown /\ TurnsCounted
  BY DEF QueueInv, PoolInv
<1>1. sends \in Seq(Calls) /\ Len(sends) \in Nat /\ length \in Nat
  BY <1>0 DEF PoolType
<1>2. ASSUME NEW i \in Turns PROVE Data(i) \in Attempts /\ Data(i) \in Nat
  <2>1. i % MAX_BUFFERED_PACKETS \in Entries /\ Data(i) # NULL
    BY <1>0, TurnsType
  <2>2. Data(i) \in Attempts
    BY <1>0, <2>1 DEF PacketsKnown, Data
  <2>3. QED BY <1>1, <2>2 DEF Attempts
<1>3. ASSUME NEW i \in Turns, NEW j \in Turns, i < j PROVE Data(i) < Data(j)
  <2>1. PICK m \in 1 .. Len(sends), k \in 1 .. Len(sends) : m = Data(i) /\ k = Data(j)
    BY <1>2 DEF Attempts
  <2>2. /\ Cardinality(After(m, sends)) = length - 1 - i
        /\ Cardinality(After(k, sends)) = length - 1 - j
    BY <1>0, <2>1 DEF TurnsCounted
  <2>3. i \in Nat /\ j \in Nat
    BY <1>0, TurnsType
  <2>4. ~(k <= m)
    <3>1. k <= m => Cardinality(After(m, sends)) <= Cardinality(After(k, sends))
      BY <1>1, AfterOrder
    <3>2. ~(length - 1 - i <= length - 1 - j)
      BY <1>1, <1>3, <2>3
    <3>3. QED BY <2>2, <3>1, <3>2
  <2>5. QED BY <1>1, <2>1, <2>4
<1>4. QED BY <1>2, <1>3

\* Waiting is the packets of the turns, in call order.
InCallOrder ==
  /\ Waiting \in Seq(Nat)
  /\ Increasing(Waiting)
  /\ Members(Waiting) = {Data(i) : i \in Turns}

\* The window's packets stand in the order of their calls.
LEMMA WaitingListed ==
  ASSUME QueueInv
  PROVE  InCallOrder
<1>0. PoolType /\ length \in Nat
  BY DEF QueueInv, PoolInv, PoolType
<1>1. Turns \in SUBSET (0 .. length) /\ Cardinality(Turns) \in Nat
  BY <1>0, TurnsType
<1>2. \A i \in Turns : Data(i) \in Nat
  BY DataOrder
<1>3. \A i, j \in Turns : i < j => Data(i) < Data(j)
  BY DataOrder
<1> DEFINE N == Cardinality(Turns)
           nth(k) == Nth(Turns, k)
<1>4. \A k \in 1 .. N : nth(k) \in Turns
  BY <1>0, <1>1, NthIn
<1>5. \A j, k \in 1 .. N : j < k => nth(j) < nth(k)
  BY <1>0, <1>1, NthOrder
<1>6. \A i \in Turns : \E k \in 1 .. N : nth(k) = i
  BY <1>0, <1>1, NthOf
<1>7. Waiting = [k \in 1 .. N |-> Data(nth(k))]
  BY DEF Waiting, Data
<1>8. N \in Nat
  BY <1>1
<1> HIDE DEF N, nth
<1>9. /\ Waiting \in Seq(Nat) /\ Len(Waiting) = N
      /\ \A k \in 1 .. N : Waiting[k] = Data(nth(k))
  BY <1>2, <1>4, <1>7, <1>8
<1>10. Increasing(Waiting)
  BY <1>3, <1>4, <1>5, <1>9 DEF Increasing
<1>11. Members(Waiting) = {Data(i) : i \in Turns}
  BY <1>4, <1>6, <1>9 DEF Members
<1>12. QED BY <1>9, <1>10, <1>11 DEF InCallOrder

-----------------------------------------------------------------------------
(* What a flush takes from the queue.                                      *)

\* The turns a flush sends, and those that still wait after it.
SentTurns(o) == {Nth(Unsent, k) : k \in 1 .. o.sent}
Left(o)      == Turns \ SentTurns(o)

\* A flush sends only turns that wait, and the first of them: an entry without a
\* block stops it.
LEMMA SentFirst ==
  ASSUME QueueInv, NEW c \in Slots, NEW o \in Flushes(c)
  PROVE  /\ o.sent \in Nat
         /\ o.end = "clear" => o.sent = Cardinality(Unsent)
         /\ \A k \in 1 .. o.sent : /\ k \in 1 .. Cardinality(Turns)
                                   /\ Nth(Turns, k) = Nth(Unsent, k)
<1>0. PoolType /\ length \in Nat
  BY DEF QueueInv, PoolInv, PoolType
<1>1. /\ Unsent \in SUBSET (0 .. length) /\ Cardinality(Unsent) \in Nat
      /\ Turns \in SUBSET Unsent /\ Turns \in SUBSET (0 .. length) /\ Cardinality(Turns) \in Nat
  BY <1>0, UnsentType, TurnsType
<1>2. /\ o.sent \in 0 .. Cardinality(Unsent)
      /\ \A k \in 1 .. o.sent : packets[Entry(k)].data # NULL
      /\ o.end = "clear" => o.sent = Cardinality(Unsent)
  <2>1. CASE o = [sent |-> 0, end |-> "skipped"]
    BY <1>1, <2>1
  <2>2. CASE o # [sent |-> 0, end |-> "skipped"]
    BY <1>1, <2>2 DEF Flushes
  <2>3. QED BY <2>1, <2>2
<1>3. \A k \in 1 .. o.sent : k \in 1 .. Cardinality(Unsent)
  BY <1>1, <1>2
<1>4. ASSUME NEW k \in 1 .. o.sent PROVE Nth(Unsent, k) \in Turns
  <2>1. Nth(Unsent, k) \in Unsent
    BY <1>0, <1>1, <1>3, NthIn
  <2>2. QED BY <1>2, <2>1 DEF Turns, Entry
<1>5. ASSUME NEW k \in 1 .. o.sent
      PROVE  k \in 1 .. Cardinality(Turns) /\ Nth(Turns, k) = Nth(Unsent, k)
  <2>1. PICK u \in Unsent : u = Nth(Unsent, k) /\ Cardinality(UpTo(Unsent, u)) = k
    BY <1>0, <1>1, <1>3, NthIn
  <2>2. u \in Turns
    BY <1>4, <2>1
  <2>3. ASSUME NEW r \in Unsent, r <= u PROVE r \in Turns
    <3>1. PICK j \in 1 .. Cardinality(Unsent) :
            j = Cardinality(UpTo(Unsent, r)) /\ Nth(Unsent, j) = r
      BY <1>0, <1>1, NthOf
    <3>2. j <= k
      <4>1. r < u => Cardinality(UpTo(Unsent, r)) < Cardinality(UpTo(Unsent, u))
        BY <1>0, <1>1, RankOrder
      <4>2. r < u \/ r = u
        <5>1. r \in 0 .. length /\ u \in 0 .. length
          BY <1>1
        <5>2. QED BY <1>0, <2>3, <5>1
      <4>3. QED BY <1>2, <2>1, <3>1, <4>1, <4>2
    <3>3. j \in 1 .. o.sent
      BY <1>1, <1>2, <3>1, <3>2
    <3>4. QED BY <1>4, <3>1, <3>3
  <2>4. UpTo(Turns, u) = UpTo(Unsent, u)
    BY <1>1, <2>3 DEF UpTo
  <2>5. Cardinality(UpTo(Turns, u)) = k
    BY <2>1, <2>4
  <2>6. /\ Cardinality(UpTo(Turns, u)) \in 1 .. Cardinality(Turns)
        /\ Nth(Turns, Cardinality(UpTo(Turns, u))) = u
    BY <1>0, <1>1, <2>2, NthOf
  <2>7. QED BY <2>1, <2>5, <2>6, Zenon
<1>6. QED BY <1>1, <1>2, <1>5

\* So the front of the queue leaves, and the rest of it is the turns that are left.
LEMMA FlushSplit ==
  ASSUME QueueInv, NEW c \in Slots, NEW o \in Flushes(c)
  PROVE  /\ o.sent \in 0 .. Len(Waiting)
         /\ \A k \in 1 .. o.sent : Waiting[k] = packets[Entry(k)].data
         /\ {Waiting[k] : k \in o.sent + 1 .. Len(Waiting)} = {Data(i) : i \in Left(o)}
         /\ o.end = "clear" => Left(o) = {}
<1>0. PoolType /\ length \in Nat
  BY DEF QueueInv, PoolInv, PoolType
<1>1. /\ Unsent \in SUBSET (0 .. length) /\ Cardinality(Unsent) \in Nat
      /\ Turns \in SUBSET Unsent /\ Turns \in SUBSET (0 .. length) /\ Cardinality(Turns) \in Nat
  BY <1>0, UnsentType, TurnsType
<1>2. /\ o.sent \in Nat
      /\ o.end = "clear" => o.sent = Cardinality(Unsent)
      /\ \A k \in 1 .. o.sent : /\ k \in 1 .. Cardinality(Turns)
                                /\ Nth(Turns, k) = Nth(Unsent, k)
  BY SentFirst
<1> DEFINE N == Cardinality(Turns)
           nth(k) == Nth(Turns, k)
<1>3. Len(Waiting) = N /\ \A k \in 1 .. N : Waiting[k] = Data(nth(k))
  <2>1. Waiting = [k \in 1 .. N |-> Data(nth(k))]
    BY DEF Waiting, Data
  <2> HIDE DEF nth
  <2>2. QED BY <1>1, <2>1
<1>4. o.sent \in 0 .. N
  <2>1. CASE o.sent = 0
    BY <1>1, <2>1
  <2>2. CASE o.sent # 0
    <3>1. o.sent \in 1 .. o.sent
      BY <1>2, <2>2
    <3>2. QED BY <1>1, <1>2, <3>1
  <2>3. QED BY <2>1, <2>2
<1>5. ASSUME NEW k \in 1 .. o.sent PROVE Waiting[k] = packets[Entry(k)].data
  BY <1>2, <1>3 DEF Data, Entry
<1>6. ASSUME NEW k \in o.sent + 1 .. N PROVE nth(k) \in Left(o)
  <2>1. k \in 1 .. N
    BY <1>1, <1>4
  <2>2. nth(k) \in Turns
    BY <1>0, <1>1, <2>1, NthIn
  <2>3. ASSUME NEW j \in 1 .. o.sent PROVE nth(k) # Nth(Unsent, j)
    <3>1. j \in 1 .. N /\ nth(j) = Nth(Unsent, j)
      BY <1>2
    <3>2. j < k
      BY <1>1, <1>4
    <3>3. nth(j) < nth(k)
      BY <1>0, <1>1, <2>1, <3>1, <3>2, NthOrder
    <3>4. nth(j) \in 0 .. length /\ nth(k) \in 0 .. length
      BY <1>0, <1>1, <2>1, <3>1, NthIn
    <3>5. QED BY <1>0, <3>1, <3>3, <3>4
  <2>4. QED BY <2>2, <2>3 DEF Left, SentTurns
<1>7. ASSUME NEW i \in Left(o) PROVE \E k \in o.sent + 1 .. N : nth(k) = i
  <2>1. i \in Turns /\ i \notin SentTurns(o)
    BY DEF Left
  <2>2. PICK k \in 1 .. N : nth(k) = i
    BY <1>0, <1>1, <2>1, NthOf
  <2>3. k \notin 1 .. o.sent
    BY <1>2, <2>1, <2>2 DEF SentTurns
  <2>4. k \in o.sent + 1 .. N
    BY <1>1, <1>2, <2>3
  <2>5. QED BY <2>2, <2>4
<1>8. ASSUME o.end = "clear", NEW i \in Turns PROVE i \in SentTurns(o)
  <2>1. PICK j \in 1 .. Cardinality(Unsent) : Nth(Unsent, j) = i
    BY <1>0, <1>1, NthOf
  <2>2. QED BY <1>2, <1>8, <2>1 DEF SentTurns
<1>9. {Waiting[k] : k \in o.sent + 1 .. Len(Waiting)} = {Data(i) : i \in Left(o)}
  <2>1. \A k \in o.sent + 1 .. N : k \in 1 .. N
    BY <1>1, <1>4
  <2> HIDE DEF N, nth
  <2>2. \A k \in o.sent + 1 .. N : Waiting[k] = Data(nth(k))
    BY <1>3, <2>1
  <2>3. QED BY <1>3, <1>6, <1>7, <2>2
<1>10. o.end = "clear" => Left(o) = {}
  BY <1>8 DEF Left
<1>11. QED BY <1>3, <1>4, <1>5, <1>9, <1>10

-----------------------------------------------------------------------------
(* The turns after a step.                                                 *)

\* In the ring that a flush leaves, exactly the turns left hold a packet.
LEMMA FlushLeaves ==
  ASSUME PoolType, NEW c \in Slots, NEW o \in Flushes(c), NEW i \in Start .. length - 1,
         \A k \in 1 .. o.sent : k \in 1 .. Cardinality(Unsent)
  PROVE  LET packet == Flushed(o)[i % MAX_BUFFERED_PACKETS] IN
         /\ packet.data = Data(i)
         /\ packet.len > 0 /\ packet.data # NULL <=> i \in Left(o)
<1> DEFINE M == MAX_BUFFERED_PACKETS
           e == i % M
<1>1. length \in Nat /\ M \in Nat \ {0} /\ Start \in Nat /\ Start >= length - M
  BY PoolAssumption DEF PoolType, Start
<1>2. i \in Nat /\ e \in Entries
  BY <1>1 DEF Entries
<1>3. packets[e] \in PacketData /\ packets[e].len \in Nat
  BY <1>2 DEF PoolType, PacketData
<1>4. \A u \in Unsent : u \in Start .. length - 1
  BY DEF Unsent
<1>5. \A k \in 1 .. o.sent : Nth(Unsent, k) \in Unsent
  BY <1>1, UnsentType, NthIn
<1>6. e \in SentBy(o) <=> i \in SentTurns(o)
  <2>1. ASSUME i \in SentTurns(o) PROVE e \in SentBy(o)
    BY <2>1 DEF SentTurns, SentBy, Entry
  <2>2. ASSUME e \in SentBy(o) PROVE i \in SentTurns(o)
    <3>1. PICK k \in 1 .. o.sent : e = Nth(Unsent, k) % M
      BY <2>2 DEF SentBy, Entry
    <3>2. PICK u \in Unsent : u = Nth(Unsent, k)
      BY <1>5
    <3>3. /\ u \in Nat
          /\ u < i => i - u < M
          /\ i < u => u - i < M
      BY <1>1, <1>2, <1>4
    <3>4. u < i => u % M # i % M
      BY <1>1, <1>2, <3>3, EntriesDiffer
    <3>5. i < u => i % M # u % M
      BY <1>1, <1>2, <3>3, EntriesDiffer
    <3>6. ~(u < i) /\ ~(i < u)
      BY <3>1, <3>2, <3>4, <3>5
    <3>7. u = i
      BY <1>2, <3>3, <3>6
    <3>8. QED BY <3>2, <3>7 DEF SentTurns
  <2>3. QED BY <2>1, <2>2
<1>7. i \in Turns <=> packets[e].len > 0 /\ packets[e].data # NULL
  BY DEF Turns, Unsent
<1>8. Flushed(o)[e] = IF e \in SentBy(o) THEN [packets[e] EXCEPT !.len = 0] ELSE packets[e]
  BY <1>2 DEF Flushed
<1>9. Data(i) = packets[e].data
  BY DEF Data
<1> HIDE DEF e
<1>10. CASE e \in SentBy(o)
  <2>1. Flushed(o)[e].len = 0 /\ Flushed(o)[e].data = packets[e].data
    BY <1>3, <1>8, <1>10 DEF PacketData
  <2>2. i \notin Left(o)
    BY <1>6, <1>10 DEF Left
  <2>3. QED BY <1>9, <2>1, <2>2 DEF e
<1>11. CASE e \notin SentBy(o)
  <2>1. i \in Left(o) <=> i \in Turns
    BY <1>6, <1>11 DEF Left
  <2>2. QED BY <1>7, <1>8, <1>9, <1>11, <2>1 DEF e
<1>12. QED BY <1>10, <1>11

\* After a flush exactly the turns left wait.
LEMMA TurnsFlushed ==
  ASSUME QueueInv, NEW c \in Slots, NEW o \in Flushes(c),
         packets' = Flushed(o), length' = LengthAfter(o)
  PROVE  /\ Turns' = Left(o)
         /\ \A i \in Left(o) : Data(i)' = Data(i)
         /\ Left(o) # {} => length' = length
<1>0. PoolType /\ length \in Nat
  BY DEF QueueInv, PoolInv, PoolType
<1>1. \A k \in 1 .. o.sent : k \in 1 .. Cardinality(Unsent)
  <2>1. Cardinality(Turns) <= Cardinality(Unsent) /\ Cardinality(Turns) \in Nat
    <3>1. Turns \in SUBSET Unsent /\ Unsent \in SUBSET (0 .. length)
      BY <1>0, TurnsType, UnsentType
    <3>2. QED BY <1>0, <3>1, UpToFinite, FS_Subset
  <2>2. QED BY <1>0, <2>1, SentFirst, UnsentType
<1>2. CASE o.end = "clear"
  <2>1. length' = 0
    BY <1>2 DEF LengthAfter
  <2>2. Start' = 0
    BY <2>1, PoolAssumption DEF Start
  <2>3. Turns' = {}
    BY <2>1, <2>2 DEF Turns, Unsent
  <2>4. Left(o) = {}
    BY <1>2, FlushSplit
  <2>5. QED BY <2>3, <2>4
<1>3. CASE o.end # "clear"
  <2>1. length' = length /\ Start' = Start
    BY <1>3 DEF LengthAfter, Start
  <2> DEFINE W == Start .. length - 1
             f(i) == Flushed(o)[i % MAX_BUFFERED_PACKETS]
  <2>2. Turns' = {i \in W : f(i).len > 0 /\ f(i).data # NULL}
    BY <2>1 DEF Turns, Unsent
  <2>3. \A i \in W : f(i).data = Data(i) /\ (f(i).len > 0 /\ f(i).data # NULL <=> i \in Left(o))
    BY <1>0, <1>1, FlushLeaves
  <2>4. \A i \in Left(o) : i \in W
    BY DEF Left, Turns, Unsent
  <2>5. \A i : Data(i)' = f(i).data
    BY DEF Data
  <2> HIDE DEF W, f
  <2>6. Turns' = Left(o)
    BY <2>2, <2>3, <2>4
  <2>7. \A i \in Left(o) : Data(i)' = Data(i)
    BY <2>3, <2>4, <2>5
  <2>8. QED BY <2>1, <2>6, <2>7
<1>4. QED BY <1>2, <1>3

\* queue_packet adds a turn at the end of the window, if it has something to send,
\* and the window leaves behind the turn that used the same entry.
LEMMA TurnsQueued ==
  ASSUME QueueInv, NEW c \in Slots, NEW o \in Flushes(c), NEW p \in Entries, NEW r \in Calls,
         QueueCall(c, o, p, r)
  PROVE  /\ LengthAfter(o) \in Nat /\ length' = LengthAfter(o) + 1
         /\ \A i \in Left(o) : /\ i \in Nat /\ i < LengthAfter(o) /\ LengthAfter(o) = length
                               /\ LengthAfter(o) - i <= MAX_BUFFERED_PACKETS
         /\ Turns' \ {LengthAfter(o)}
              = {i \in Left(o) : LengthAfter(o) - i < MAX_BUFFERED_PACKETS}
         /\ \A i \in Turns' \ {LengthAfter(o)} : Data(i)' = Data(i)
         /\ LengthAfter(o) \in Turns' =>
              /\ packets'[LengthAfter(o) % MAX_BUFFERED_PACKETS].data = Len(sends) + 1
              /\ r.result = "BUFFERED" /\ r.size % UINT16 # 0
         /\ LengthAfter(o) \notin Turns' =>
              \/ r.result = "BUFFERED" /\ r.size % UINT16 = 0
              \/ r.result = "FAILED" /\ r.size > 0
<1> DEFINE M == MAX_BUFFERED_PACKETS
           la == LengthAfter(o)
<1>0. PoolType /\ length \in Nat /\ M \in Nat \ {0} /\ Start \in Nat
  BY PoolAssumption DEF QueueInv, PoolInv, PoolType, Start
<1>1. \A k \in 1 .. o.sent : k \in 1 .. Cardinality(Unsent)
  <2>1. Cardinality(Turns) <= Cardinality(Unsent) /\ Cardinality(Turns) \in Nat
    <3>1. Turns \in SUBSET Unsent /\ Unsent \in SUBSET (0 .. length)
      BY <1>0, TurnsType, UnsentType
    <3>2. QED BY <1>0, <3>1, UpToFinite, FS_Subset
  <2>2. QED BY <1>0, <2>1, SentFirst, UnsentType
<1>2. /\ la \in Nat /\ length' = la + 1 /\ p = la % M
      /\ \A q \in Entries \ {p} : packets'[q] = Flushed(o)[q]
      /\ PacketQueued(p, o, r) \/ PacketFailed(p, o, r)
  BY DEF QueueCall
<1>3. ASSUME NEW i \in Left(o)
      PROVE  i \in Nat /\ i < la /\ la = length /\ la - i <= M /\ i \in Start .. length - 1
  <2>1. o.end # "clear" /\ la = length
    BY FlushSplit DEF LengthAfter
  <2>2. i \in Start .. length - 1
    BY DEF Left, Turns, Unsent
  <2>3. Start >= length - M
    BY <1>0 DEF Start
  <2>4. QED BY <1>0, <2>1, <2>2, <2>3
<1>4. Start' = IF la + 1 > M THEN (la + 1) - M ELSE 0
  BY <1>0, <1>2 DEF Start
<1>5. /\ \A i : i \in Turns' => i \in Start' .. la
      /\ \A i : Data(i)' = packets'[i % M].data
      /\ \A i \in Start' .. la : i \in Turns' <=> packets'[i % M].len > 0 /\ packets'[i % M].data # NULL
  <2>1. (la + 1) - 1 = la
    BY <1>2
  <2>2. QED BY <1>2, <2>1 DEF Turns, Unsent, Data
<1> HIDE DEF la
<1>6. \A i \in Start' .. la : i \in Nat /\ la - i < M
  BY <1>0, <1>2, <1>4
<1>7. ASSUME NEW i \in Start' .. la, i # la
      PROVE  packets'[i % M] = Flushed(o)[i % M]
  <2>1. i \in Nat /\ i < la /\ la - i < M
    BY <1>2, <1>6, <1>7
  <2>2. i % M # p
    BY <1>0, <1>2, <2>1, EntriesDiffer
  <2>3. i % M \in Entries
    BY <1>0, <2>1 DEF Entries
  <2>4. QED BY <1>2, <2>2, <2>3
<1>8. ASSUME NEW i \in Start' .. la, i # la
      PROVE  i \in Turns' <=> i \in Left(o)
  <2>1. CASE o.end = "clear"
    <3>1. la = 0
      BY <2>1 DEF LengthAfter, la
    <3>2. QED BY <1>6, <1>8, <3>1
  <2>2. CASE o.end # "clear"
    <3>1. la = length
      BY <2>2 DEF LengthAfter, la
    <3>2. i \in Start .. length - 1
      BY <1>0, <1>4, <1>6, <1>8, <3>1 DEF Start
    <3>3. LET packet == Flushed(o)[i % M] IN packet.len > 0 /\ packet.data # NULL <=> i \in Left(o)
      BY <1>0, <1>1, <3>2, FlushLeaves
    <3>4. QED BY <1>5, <1>7, <1>8, <3>3
  <2>3. QED BY <2>1, <2>2
<1>9. Turns' \ {la} = {i \in Left(o) : la - i < M}
  <2>1. ASSUME NEW i \in Turns', i # la PROVE i \in Left(o) /\ la - i < M
    BY <1>5, <1>6, <1>8, <2>1
  <2>2. ASSUME NEW i \in Left(o), la - i < M PROVE i \in Turns' /\ i # la
    <3>1. i \in Start' .. la /\ i # la
      BY <1>0, <1>2, <1>3, <1>4, <2>2
    <3>2. QED BY <1>8, <3>1
  <2>3. QED BY <2>1, <2>2
<1>10. ASSUME NEW i \in Turns' \ {la} PROVE Data(i)' = Data(i)
  <2>1. i \in Left(o) /\ i \in Start' .. la /\ i # la
    BY <1>5, <1>9
  <2>2. Flushed(o)[i % M].data = Data(i)
    BY <1>0, <1>1, <1>3, <2>1, FlushLeaves
  <2>3. QED BY <1>5, <1>7, <2>1, <2>2
<1>11. ASSUME la \in Turns'
       PROVE  /\ packets'[la % M].data = Len(sends) + 1 /\ r.result = "BUFFERED"
              /\ r.size % UINT16 # 0
  <2>1. packets'[p].data # NULL /\ packets'[p].len > 0
    BY <1>2, <1>5, <1>11
  <2>2. PacketQueued(p, o, r)
    BY <1>2, <2>1 DEF PacketFailed
  <2>3. QED BY <1>2, <2>1, <2>2 DEF PacketQueued
<1>13. ASSUME la \notin Turns'
       PROVE  \/ r.result = "BUFFERED" /\ r.size % UINT16 = 0
              \/ r.result = "FAILED" /\ r.size > 0
  <2>1. CASE PacketFailed(p, o, r)
    BY <2>1 DEF PacketFailed
  <2>2. CASE PacketQueued(p, o, r)
    <3>1. la \in Start' .. la
      BY <1>0, <1>2, <1>4
    <3>2. /\ packets'[p].data = Len(sends) + 1 /\ packets'[p].len = r.size % UINT16
          /\ r.result = "BUFFERED"
      BY <2>2 DEF PacketQueued
    <3>3. packets'[p].data # NULL
      BY <1>0, <3>2, PoolAssumption DEF PoolType
    <3>4. ~(packets'[p].len > 0)
      BY <1>2, <1>5, <1>13, <3>1, <3>3
    <3>5. r.size % UINT16 \in Nat
      <4>1. r.size \in Nat /\ UINT16 \in Nat \ {0}
        BY PoolAssumption DEF Calls
      <4>2. QED BY <4>1
    <3>6. QED BY <3>2, <3>4, <3>5
  <2>3. QED BY <1>2, <2>1, <2>2
<1>12. QED BY <1>2, <1>3, <1>9, <1>10, <1>11, <1>13 DEF la

-----------------------------------------------------------------------------
(* The turns stay in step with the calls.                                  *)

\* The invariant of one turn: the packet m at turn i of a window of length len.
Counted(m, s, len, i) == Cardinality(After(m, s)) = len - 1 - i

\* Every step keeps the turns counted: a queued call adds one turn and one call behind
\* every turn, a flush only takes turns from the front.
LEMMA TurnsCountedNext ==
  ASSUME QueueInv, [Next]_vars
  PROVE  TurnsCounted'
<1>0. /\ TypeInv /\ SocketsOwned /\ PoolType /\ length \in Nat
      /\ sends \in Seq(Calls) /\ Len(sends) \in Nat
  BY DEF QueueInv, PoolInv, SafeInv, PoolType
<1>1. \A i \in Turns : Counted(Data(i), sends, length, i)
  BY DEF QueueInv, TurnsCounted, Counted
<1>2. \A i \in Turns : Data(i) \in 1 .. Len(sends) /\ i \in Nat
  BY <1>0, DataOrder, TurnsType DEF Attempts
<1>3. SUFFICES \A i \in Turns' : Counted(Data(i)', sends', length', i)
  BY DEF TurnsCounted, Counted, After
<1>4. CASE QueueStill
  <2>1. packets' = packets /\ length' = length /\ sends' = sends
    BY <1>4 DEF QueueStill, queueVars
  <2>2. Turns' = Turns /\ \A i : Data(i)' = Data(i)
    BY <2>1 DEF Turns, Unsent, Start, Data
  <2>3. QED BY <1>1, <2>1, <2>2
<1>5. CASE \E c \in Slots : FlushOnly(c)
  <2>1. PICK c \in Slots : FlushOnly(c)
    BY <1>5
  <2>2. PICK o \in Flushes(c) :
          packets' = Flushed(o) /\ length' = LengthAfter(o) /\ sends' = sends
    BY <2>1 DEF FlushOnly
  <2>3. /\ Turns' = Left(o) /\ \A i \in Left(o) : Data(i)' = Data(i)
        /\ Left(o) # {} => length' = length
    BY <2>2, TurnsFlushed
  <2>4. \A i \in Left(o) : i \in Turns
    BY DEF Left
  <2>5. QED BY <1>1, <2>2, <2>3, <2>4
<1>6. CASE \E c \in Slots, a \in Addrs \cup {NULL}, size \in PacketSizes :
             Usable(c) /\ SendQueues(c, a, size)
  <2>1. PICK c \in Slots, a \in Addrs \cup {NULL}, size \in PacketSizes :
             Usable(c) /\ SendQueues(c, a, size)
    BY <1>6
  <2>2. PICK o \in Flushes(c), p \in Entries, r \in Calls : QueueCall(c, o, p, r)
    BY <1>0, <2>1, QueueEffect
  <2>3. sends' = Append(sends, r) /\ r.queued
    BY <2>2 DEF QueueCall
  <2> DEFINE la == LengthAfter(o)
  <2>4. /\ la \in Nat /\ length' = la + 1
        /\ \A i \in Turns' \ {la} : i \in Left(o) /\ Data(i)' = Data(i)
        /\ \A i \in Left(o) : la = length
        /\ la \in Turns' => packets'[la % MAX_BUFFERED_PACKETS].data = Len(sends) + 1
    BY <2>2, TurnsQueued
  <2> HIDE DEF la
  <2>5. ASSUME NEW i \in Turns' \ {la} PROVE Counted(Data(i)', sends', length', i)
    <3>1. i \in Turns /\ la = length /\ Data(i)' = Data(i)
      BY <2>4 DEF Left
    <3>2. PICK m \in 1 .. Len(sends) : m = Data(i) /\ Counted(m, sends, length, i)
      BY <1>1, <1>2, <3>1
    <3>3. /\ Cardinality(After(m, sends)) \in Nat
          /\ Cardinality(After(m, Append(sends, r))) = Cardinality(After(m, sends)) + 1
      BY <1>0, <2>3, AfterCall
    <3>4. Cardinality(After(m, sends)) = length - 1 - i
      BY <3>2 DEF Counted
    <3>5. Cardinality(After(m, Append(sends, r))) = (length + 1) - 1 - i
      BY <1>0, <1>2, <3>1, <3>3, <3>4
    <3>6. QED BY <2>3, <2>4, <3>1, <3>2, <3>5 DEF Counted
  <2>6. ASSUME la \in Turns' PROVE Counted(packets'[la % MAX_BUFFERED_PACKETS].data, sends', length', la)
    <3>1. Cardinality(After(Len(sends) + 1, sends')) = 0
      BY <1>0, <2>3, AfterLast
    <3>2. (la + 1) - 1 - la = 0
      BY <2>4
    <3>3. QED BY <2>4, <2>6, <3>1, <3>2 DEF Counted
  <2>7. ASSUME NEW i \in Turns', i = la PROVE Counted(Data(i)', sends', length', i)
    BY <2>6, <2>7 DEF Data
  <2>8. QED BY <2>5, <2>7
<1>7. CASE \E c \in Slots, a \in Addrs \cup {NULL}, size \in PacketSizes :
             Usable(c) /\ SendNow(c, a, size)
  <2>1. PICK c \in Slots, a \in Addrs \cup {NULL}, size \in PacketSizes :
             Usable(c) /\ SendNow(c, a, size)
    BY <1>7
  <2>2. PICK o \in Flushes(c), r \in Calls : DirectCall(c, o, r)
    BY <1>0, <2>1, DirectEffect
  <2>3. /\ packets' = Flushed(o) /\ length' = LengthAfter(o)
        /\ sends' = Append(sends, r) /\ ~r.queued
    BY <2>2 DEF DirectCall
  <2>4. /\ Turns' = Left(o) /\ \A i \in Left(o) : Data(i)' = Data(i)
        /\ Left(o) # {} => length' = length
    BY <2>3, TurnsFlushed
  <2>5. ASSUME NEW i \in Left(o) PROVE Counted(Data(i)', sends', length', i)
    <3>1. i \in Turns /\ Data(i)' = Data(i) /\ length' = length
      BY <2>4 DEF Left
    <3>2. PICK m \in 1 .. Len(sends) : m = Data(i) /\ Counted(m, sends, length, i)
      BY <1>1, <1>2, <3>1
    <3>3. After(m, Append(sends, r)) = After(m, sends)
      BY <1>0, <2>3, AfterCall
    <3>4. QED BY <2>3, <3>1, <3>2, <3>3 DEF Counted
  <2>6. QED BY <2>4, <2>5
<1>8. QED BY <1>0, <1>4, <1>5, <1>6, <1>7, PoolKinds

\* The invariant of the refinement.
LEMMA QueueAlways == Spec => []QueueInv
<1>1. Init => TurnsCounted
  <2>1. SUFFICES ASSUME Init PROVE Turns = {}
    BY DEF TurnsCounted
  <2>2. length = 0 /\ Start = 0
    BY <2>1, PoolAssumption DEF Init, Start
  <2>3. QED BY <2>2 DEF Turns, Unsent
<1>2. QueueInv /\ [Next]_vars => TurnsCounted'
  BY TurnsCountedNext
<1>3. QueueInv <=> PoolInv /\ TurnsCounted
  BY DEF QueueInv
<1>4. QED BY <1>1, <1>2, <1>3, PoolAlways, PTL DEF Spec

-----------------------------------------------------------------------------
(* The steps of SendQueue.                                                 *)

\* The type and the length of two sequences put together.
LEMMA Concatenated ==
  ASSUME NEW S, NEW a \in Seq(S), NEW b \in Seq(S)
  PROVE  a \o b \in Seq(S) /\ Len(a \o b) = Len(a) + Len(b)
OBVIOUS

\* What is added to the wire and to the calls is added to what SendQueue sees.
LEMMA NumbersAdded ==
  ASSUME NEW s \in Seq(WireData), NEW t \in Seq(WireData)
  PROVE  Numbers(s \o t) = Numbers(s) \o Numbers(t)
<1> DEFINE S == Nat \cup {NULL}
<1>1. /\ s \o t \in Seq(WireData) /\ Len(s \o t) = Len(s) + Len(t)
      /\ Len(s) \in Nat /\ Len(t) \in Nat
  OBVIOUS
<1>2. \A w \in Seq(WireData) : /\ Numbers(w) \in Seq(S) /\ Len(Numbers(w)) = Len(w)
                               /\ \A k \in 1 .. Len(w) : Numbers(w)[k] = w[k].n
  <2>1. SUFFICES ASSUME NEW w \in Seq(WireData)
                 PROVE  /\ Numbers(w) \in Seq(S) /\ Len(Numbers(w)) = Len(w)
                        /\ \A k \in 1 .. Len(w) : Numbers(w)[k] = w[k].n
    OBVIOUS
  <2>2. Len(w) \in Nat /\ \A k \in 1 .. Len(w) : w[k] \in WireData
    BY <2>1
  <2>3. \A k \in 1 .. Len(w) : w[k].n \in S
    BY <2>2 DEF WireData
  <2> HIDE DEF S
  <2>4. QED BY <2>2, <2>3 DEF Numbers
<1> HIDE DEF S
<1>3. /\ Numbers(s) \o Numbers(t) \in Seq(S)
      /\ Len(Numbers(s) \o Numbers(t)) = Len(s) + Len(t)
  <2>1. /\ Numbers(s) \in Seq(S) /\ Len(Numbers(s)) = Len(s)
        /\ Numbers(t) \in Seq(S) /\ Len(Numbers(t)) = Len(t)
    BY <1>2
  <2>2. /\ Numbers(s) \o Numbers(t) \in Seq(S)
        /\ Len(Numbers(s) \o Numbers(t)) = Len(Numbers(s)) + Len(Numbers(t))
    BY <2>1, Concatenated, Zenon
  <2>3. QED BY <2>1, <2>2, Zenon
<1>4. ASSUME NEW k \in 1 .. Len(s) + Len(t)
      PROVE  (Numbers(s) \o Numbers(t))[k] = Numbers(s \o t)[k]
  <2>0. Numbers(s \o t)[k] = (s \o t)[k].n
    BY <1>1, <1>2
  <2>1. CASE k <= Len(s)
    <3>1. k \in 1 .. Len(s) /\ (s \o t)[k] = s[k]
      BY <1>1, <2>1
    <3>2. (Numbers(s) \o Numbers(t))[k] = Numbers(s)[k]
      BY <1>1, <1>2, <3>1
    <3>3. QED BY <1>2, <2>0, <3>1, <3>2
  <2>2. CASE k > Len(s)
    <3>1. k - Len(s) \in 1 .. Len(t) /\ (s \o t)[k] = t[k - Len(s)]
      BY <1>1, <2>2
    <3>2. (Numbers(s) \o Numbers(t))[k] = Numbers(t)[k - Len(s)]
      BY <1>1, <1>2, <2>2, <3>1
    <3>3. QED BY <1>2, <2>0, <3>1, <3>2
  <2>3. k <= Len(s) \/ k > Len(s)
    BY <1>1
  <2>4. QED BY <2>1, <2>2, <2>3, Zenon
<1>5. Numbers(s \o t) \in Seq(S) /\ Len(Numbers(s \o t)) = Len(s) + Len(t)
  BY <1>1, <1>2
<1>6. QED BY <1>3, <1>4, <1>5, SeqEqual, Zenon

\* What SendQueue sees of the calls grows with them.
LEMMA SeenAdded ==
  ASSUME NEW s \in Seq(Calls), NEW r \in Calls
  PROVE  Seen(Append(s, r)) = Append(Seen(s), SeenCall(r)) /\ Len(Seen(s)) = Len(s)
<1> DEFINE S == {SeenCall(x) : x \in Calls}
<1>1. /\ Len(s) \in Nat /\ Append(s, r) \in Seq(Calls) /\ Len(Append(s, r)) = Len(s) + 1
      /\ Append(s, r)[Len(s) + 1] = r
      /\ \A n \in 1 .. Len(s) : Append(s, r)[n] = s[n]
  OBVIOUS
<1>2. /\ Seen(s) \in Seq(S) /\ Len(Seen(s)) = Len(s)
      /\ \A n \in 1 .. Len(s) : Seen(s)[n] = SeenCall(s[n])
  BY <1>1 DEF Seen
<1>3. /\ Seen(Append(s, r)) \in Seq(S) /\ Len(Seen(Append(s, r))) = Len(s) + 1
      /\ \A n \in 1 .. Len(s) + 1 : Seen(Append(s, r))[n] = SeenCall(Append(s, r)[n])
  BY <1>1 DEF Seen
<1>4. SeenCall(r) \in S
  OBVIOUS
<1> HIDE DEF S
<1>5. /\ Append(Seen(s), SeenCall(r)) \in Seq(S)
      /\ Len(Append(Seen(s), SeenCall(r))) = Len(s) + 1
      /\ Append(Seen(s), SeenCall(r))[Len(s) + 1] = SeenCall(r)
      /\ \A n \in 1 .. Len(s) : Append(Seen(s), SeenCall(r))[n] = SeenCall(s[n])
  BY <1>2, <1>4
<1>6. \A n \in 1 .. Len(s) + 1 : n \in 1 .. Len(s) \/ n = Len(s) + 1
  BY <1>1
<1>7. \A n \in 1 .. Len(s) + 1 : Append(Seen(s), SeenCall(r))[n] = Seen(Append(s, r))[n]
  BY <1>1, <1>3, <1>5, <1>6
<1>8. QED BY <1>2, <1>3, <1>5, <1>7

\* SendQueue counts the same calls, and counts them alike.
LEMMA SameCount ==
  ASSUME NEW S
  PROVE  Queue!Cardinality(S) = Cardinality(S)
  BY Zenon DEF Queue!Cardinality, Cardinality

\* SendQueue and the ring count the same calls behind a packet.
LEMMA LaterIsAfter ==
  ASSUME NEW s \in Seq(Calls), NEW m \in Nat
  PROVE  Queue!Later(m, Seen(s)) = After(m, s)
<1>1. Len(s) \in Nat /\ Len(Seen(s)) = Len(s)
  BY DEF Seen
<1>2. \A j \in m + 1 .. Len(s) : j \in 1 .. Len(s)
  BY <1>1
<1>3. \A j \in 1 .. Len(s) : Seen(s)[j].queued = s[j].queued
  BY <1>1 DEF Seen, SeenCall
<1>4. QED BY <1>1, <1>2, <1>3 DEF Queue!Later, After

\* Of a queue in call order SendQueue gives up what is too old, and only the first
\* can be.
LEMMA KeptList ==
  ASSUME NEW q \in Seq(Nat), Increasing(q), NEW s \in Seq(Calls),
         \A m \in Members(q) : /\ Cardinality(After(m, s)) \in Nat
                               /\ Cardinality(After(m, s)) <= MAX_BUFFERED_PACKETS,
         \A m, k \in Members(q) : m < k => Cardinality(After(k, s)) < Cardinality(After(m, s))
  PROVE  LET kept == Queue!Kept(q, Seen(s)) IN
         /\ kept \in Seq(Nat) /\ Increasing(kept)
         /\ Members(kept) = {m \in Members(q) : Cardinality(After(m, s)) < MAX_BUFFERED_PACKETS}
<1> DEFINE M == MAX_BUFFERED_PACKETS
           count(m) == Cardinality(After(m, s))
           kept == Queue!Kept(q, Seen(s))
<1>0. M \in Nat \ {0} /\ Len(q) \in Nat /\ \A i \in 1 .. Len(q) : q[i] \in Nat /\ q[i] \in Members(q)
  BY PoolAssumption DEF Members
<1>1. \A i \in 1 .. Len(q) : Queue!Later(q[i], Seen(s)) = After(q[i], s)
  BY <1>0, LaterIsAfter
<1>2. q # <<>> => 1 \in 1 .. Len(q)
  BY <1>0
<1>3. kept = IF q # <<>> /\ count(q[1]) >= M THEN Tail(q) ELSE q
  <2>1. q # <<>> => Queue!Later(q[1], Seen(s)) = After(q[1], s)
    BY <1>1, <1>2
  <2>2. QED BY <2>1, SameCount DEF Queue!Kept
<1>4. \A m \in Members(q) : count(m) \in Nat /\ count(m) <= M
  OBVIOUS
<1>5. \A m, k \in Members(q) : m < k => count(k) < count(m)
  OBVIOUS
<1> HIDE DEF kept, count
<1>6. ASSUME NEW i \in 2 .. Len(q) PROVE count(q[i]) < M
  <2>1. 1 \in 1 .. Len(q) /\ i \in 1 .. Len(q) /\ 1 < i
    BY <1>0
  <2>2. q[1] < q[i]
    BY <2>1 DEF Increasing
  <2>3. count(q[i]) < count(q[1]) /\ count(q[1]) \in Nat /\ count(q[1]) <= M /\ count(q[i]) \in Nat
    BY <1>0, <1>4, <1>5, <2>1, <2>2
  <2>4. QED BY <1>0, <2>3
<1>7. CASE q # <<>> /\ count(q[1]) >= M
  <2>1. kept = SubSeq(q, 1 + 1, Len(q)) /\ 1 \in 0 .. Len(q)
    BY <1>0, <1>2, <1>3, <1>7
  <2>2. /\ kept \in Seq(Nat) /\ Increasing(kept)
        /\ Members(kept) = {q[i] : i \in 1 + 1 .. Len(q)}
    BY <2>1, RestList
  <2>3. count(q[1]) \in Nat /\ ~(count(q[1]) < M)
    BY <1>0, <1>2, <1>4, <1>7
  <2>4. \A i \in 1 .. Len(q) : i = 1 \/ i \in 1 + 1 .. Len(q)
    BY <1>0
  <2>5. \A i \in 1 + 1 .. Len(q) : i \in 1 .. Len(q) /\ count(q[i]) < M
    BY <1>0, <1>6
  <2>6. {q[i] : i \in 1 + 1 .. Len(q)} = {m \in Members(q) : count(m) < M}
    BY <2>3, <2>4, <2>5 DEF Members
  <2>7. QED BY <2>2, <2>6 DEF kept, count
<1>8. CASE ~(q # <<>> /\ count(q[1]) >= M)
  <2>1. kept = q
    BY <1>3, <1>8
  <2>2. ASSUME NEW i \in 1 .. Len(q) PROVE count(q[i]) < M
    <3>1. CASE i = 1
      <4>1. q # <<>>
        OBVIOUS
      <4>2. ~(count(q[1]) >= M)
        BY <1>8, <4>1
      <4>3. count(q[1]) \in Nat
        BY <1>0, <1>4, <3>1
      <4>4. QED BY <1>0, <3>1, <4>2, <4>3
    <3>2. CASE i # 1
      <4>1. i \in 2 .. Len(q)
        BY <1>0, <3>2
      <4>2. QED BY <1>6, <4>1
    <3>3. QED BY <3>1, <3>2
  <2>3. Members(q) = {m \in Members(q) : count(m) < M}
    BY <2>2 DEF Members
  <2>4. QED BY <2>1, <2>3 DEF kept, count
<1>9. QED BY <1>7, <1>8

\* What a flush sends is the front of the queue.
LEMMA FlushNumbers ==
  ASSUME QueueInv, InCallOrder, NEW c \in Slots, Active(c), NEW o \in Flushes(c)
  PROVE  /\ FlushedDatagrams(c, o) \in Seq(WireData)
         /\ Numbers(FlushedDatagrams(c, o)) = SubSeq(Waiting, 1, o.sent)
<1> DEFINE d == FlushedDatagrams(c, o)
<1>0. /\ TypeInv /\ SocketsOwned /\ PoolType
      /\ Waiting \in Seq(Nat) /\ Len(Waiting) \in Nat
  BY DEF QueueInv, PoolInv, SafeInv, InCallOrder
<1>1. d \in Seq(WireData)
  BY <1>0, FlushWire
<1>2. o.sent \in 0 .. Len(Waiting) /\ \A k \in 1 .. o.sent : Waiting[k] = packets[Entry(k)].data
  BY FlushSplit
<1>3. o.sent \in Nat /\ \A k \in 1 .. o.sent : k \in 1 .. Len(Waiting)
  BY <1>0, <1>2
<1>4. Len(d) = o.sent /\ \A k \in 1 .. o.sent : d[k].n = packets[Entry(k)].data
  BY <1>3 DEF FlushedDatagrams, Datagram
<1> HIDE DEF d
<1>5. Numbers(d) = [k \in 1 .. o.sent |-> Waiting[k]]
  BY <1>2, <1>4 DEF Numbers
<1>6. /\ SubSeq(Waiting, 1, o.sent) \in Seq(Nat) /\ Len(SubSeq(Waiting, 1, o.sent)) = o.sent
      /\ \A k \in 1 .. o.sent : SubSeq(Waiting, 1, o.sent)[k] = Waiting[k]
  BY <1>0, <1>2, <1>3
<1>7. SubSeq(Waiting, 1, o.sent) = [k \in 1 .. o.sent |-> Waiting[k]]
  BY <1>6
<1>8. QED BY <1>1, <1>5, <1>7 DEF d

\* What is left after it is the rest.
LEMMA RestLeft ==
  ASSUME QueueInv, InCallOrder, NEW c \in Slots, NEW o \in Flushes(c)
  PROVE  LET rest == SubSeq(Waiting, o.sent + 1, Len(Waiting)) IN
         /\ rest \in Seq(Nat) /\ Increasing(rest)
         /\ Members(rest) = {Data(i) : i \in Left(o)}
<1>1. /\ o.sent \in 0 .. Len(Waiting)
      /\ {Waiting[k] : k \in o.sent + 1 .. Len(Waiting)} = {Data(i) : i \in Left(o)}
  BY FlushSplit
<1>2. Waiting \in Seq(Nat) /\ Increasing(Waiting)
  BY DEF InCallOrder
<1>3. PICK w \in Seq(Nat) : w = Waiting /\ Increasing(w)
  BY <1>2
<1>4. PICK k \in 0 .. Len(w) : k = o.sent
  BY <1>1, <1>3
<1>5. /\ SubSeq(w, k + 1, Len(w)) \in Seq(Nat)
      /\ Increasing(SubSeq(w, k + 1, Len(w)))
      /\ Members(SubSeq(w, k + 1, Len(w))) = {w[i] : i \in k + 1 .. Len(w)}
  BY <1>3, RestList
<1>6. QED BY <1>1, <1>3, <1>4, <1>5

\* What the queue is after a step: known by its members.
LEMMA WaitingIs ==
  ASSUME InCallOrder', NEW q \in Seq(Nat), Increasing(q), Members(q) = {Data(i)' : i \in Turns'}
  PROVE  Waiting' = q
<1>1. Waiting' \in Seq(Nat) /\ Increasing(Waiting') /\ Members(Waiting') = {Data(i)' : i \in Turns'}
  BY DEF InCallOrder, Increasing, Members
<1>2. PICK w \in Seq(Nat) : w = Waiting' /\ Increasing(w) /\ Members(w) = Members(q)
  BY <1>1
<1>3. w = q
  BY <1>2, SameList
<1>4. QED BY <1>2, <1>3

\* A flush takes the packets it sent from the front of the queue.
LEMMA FlushedQueue ==
  ASSUME QueueInv, InCallOrder, InCallOrder', NEW c \in Slots, NEW o \in Flushes(c),
         packets' = Flushed(o), length' = LengthAfter(o)
  PROVE  Waiting' = SubSeq(Waiting, o.sent + 1, Len(Waiting))
<1>1. Turns' = Left(o) /\ \A i \in Left(o) : Data(i)' = Data(i)
  BY TurnsFlushed
<1>2. PICK rest \in Seq(Nat) : /\ rest = SubSeq(Waiting, o.sent + 1, Len(Waiting))
                               /\ Increasing(rest) /\ Members(rest) = {Data(i) : i \in Left(o)}
  BY RestLeft
<1>3. {Data(i) : i \in Left(o)} = {Data(i)' : i \in Turns'}
  BY <1>1
<1>4. QED BY <1>2, <1>3, WaitingIs

\* What queue_packet does to the queue after the flush before it.
LEMMA QueuedQueue ==
  ASSUME QueueInv, InCallOrder, InCallOrder', NEW c \in Slots, NEW o \in Flushes(c),
         NEW p \in Entries, NEW r \in Calls, QueueCall(c, o, p, r)
  PROVE  LET rest == SubSeq(Waiting, o.sent + 1, Len(Waiting)) IN
         \/ /\ r.result = "BUFFERED" /\ r.size % UINT16 # 0
            /\ Waiting' = Queue!Kept(Append(rest, Len(sends) + 1), Seen(sends'))
         \/ /\ \/ r.result = "BUFFERED" /\ r.size % UINT16 = 0
               \/ r.result = "FAILED" /\ r.size > 0
            /\ Waiting' = Queue!Kept(rest, Seen(sends'))
<1> DEFINE la == LengthAfter(o)
           M == MAX_BUFFERED_PACKETS
           D == {Data(i) : i \in Left(o)}
           n == Len(sends) + 1
<1>0. /\ PoolType /\ length \in Nat /\ M \in Nat \ {0}
      /\ sends \in Seq(Calls) /\ Len(sends) \in Nat /\ n \in Nat
  BY PoolAssumption DEF QueueInv, PoolInv, PoolType
<1>1. PICK s \in Seq(Calls) : s = sends' /\ s = Append(sends, r) /\ r.queued
  BY <1>0, CallAdded DEF QueueCall
<1>2. /\ la \in Nat
      /\ \A i \in Left(o) : i \in Nat /\ i < la /\ la = length /\ la - i <= M
      /\ Turns' \ {la} = {i \in Left(o) : la - i < M}
      /\ \A i \in Turns' \ {la} : Data(i)' = Data(i)
      /\ la \in Turns' => /\ packets'[la % M].data = n
                          /\ r.result = "BUFFERED" /\ r.size % UINT16 # 0
      /\ la \notin Turns' => \/ r.result = "BUFFERED" /\ r.size % UINT16 = 0
                             \/ r.result = "FAILED" /\ r.size > 0
  BY TurnsQueued
<1>3. PICK rest \in Seq(Nat) : /\ rest = SubSeq(Waiting, o.sent + 1, Len(Waiting))
                               /\ Increasing(rest) /\ Members(rest) = D
  BY RestLeft
<1> DEFINE count(m) == Cardinality(After(m, s))
<1>4. ASSUME NEW i \in Left(o)
      PROVE  i \in Turns /\ Data(i) \in 1 .. Len(sends) /\ count(Data(i)) = la - i
  <2>1. i \in Turns
    BY DEF Left
  <2>2. PICK m \in 1 .. Len(sends) : m = Data(i) /\ Cardinality(After(m, sends)) = length - 1 - i
    BY <2>1, DataOrder DEF QueueInv, TurnsCounted, Attempts
  <2>3. /\ Cardinality(After(m, sends)) \in Nat
        /\ Cardinality(After(m, Append(sends, r))) = Cardinality(After(m, sends)) + 1
    BY <1>0, <1>1, AfterCall
  <2>4. (length - 1 - i) + 1 = length - i
    BY <1>0, <1>2
  <2>5. QED BY <1>1, <1>2, <2>1, <2>2, <2>3, <2>4
<1>5. count(n) = 0
  BY <1>0, <1>1, AfterLast
<1>6. \A m \in Members(rest) : m < n
  BY <1>0, <1>3, <1>4
<1>7. \A i, j \in Left(o) : Data(i) < Data(j) => i < j
  <2>1. SUFFICES ASSUME NEW i \in Left(o), NEW j \in Left(o), Data(i) < Data(j) PROVE i < j
    OBVIOUS
  <2>2. j < i => Data(j) < Data(i)
    BY <1>4, DataOrder
  <2>3. Data(i) \in Nat /\ Data(j) \in Nat
    BY <1>0, <1>4
  <2>4. ~(j < i) /\ i # j
    BY <2>1, <2>2, <2>3
  <2>5. QED BY <1>2, <2>4
<1> HIDE DEF la, D, n, count
<1>8. ASSUME NEW m \in D \cup {n} PROVE count(m) \in Nat /\ count(m) <= M
  <2>1. CASE m = n
    BY <1>0, <1>5, <2>1
  <2>2. CASE m \in D
    <3>1. PICK i \in Left(o) : m = Data(i)
      BY <2>2 DEF D
    <3>2. count(m) = la - i
      BY <1>4, <3>1
    <3>3. QED BY <1>0, <1>2, <3>2
  <2>3. QED BY <2>1, <2>2
<1>9. ASSUME NEW m \in D \cup {n}, NEW k \in D \cup {n}, m < k PROVE count(k) < count(m)
  <2>1. m \in D
    <3>1. \A x \in D : x < n
      BY <1>3, <1>6
    <3>2. \A x \in D : x \in Nat
      <4>1. \A i \in 1 .. Len(rest) : rest[i] \in Nat
        OBVIOUS
      <4>2. QED BY <1>3, <4>1 DEF Members
    <3>3. QED BY <1>0, <1>9, <3>1, <3>2
  <2>2. PICK i \in Left(o) : m = Data(i) /\ count(m) = la - i
    BY <1>4, <2>1 DEF D
  <2>3. CASE k = n
    <3>1. la - i > 0
      BY <1>2
    <3>2. QED BY <1>5, <2>2, <2>3, <3>1
  <2>4. CASE k \in D
    <3>1. PICK j \in Left(o) : k = Data(j) /\ count(k) = la - j
      BY <1>4, <2>4 DEF D
    <3>2. i < j
      BY <1>7, <1>9, <2>2, <3>1
    <3>3. i \in Nat /\ j \in Nat
      BY <1>2
    <3>4. la - j < la - i
      BY <1>2, <3>2, <3>3
    <3>5. QED BY <2>2, <3>1, <3>4
  <2>5. QED BY <2>3, <2>4
<1>10. ASSUME NEW q \in Seq(Nat), Increasing(q), Members(q) \in SUBSET (D \cup {n})
       PROVE  /\ Queue!Kept(q, Seen(s)) \in Seq(Nat) /\ Increasing(Queue!Kept(q, Seen(s)))
              /\ Members(Queue!Kept(q, Seen(s))) = {m \in Members(q) : count(m) < M}
  <2>1. \A m \in Members(q) : count(m) \in Nat /\ count(m) <= M
    BY <1>8, <1>10
  <2>2. \A m, k \in Members(q) : m < k => count(k) < count(m)
    BY <1>9, <1>10
  <2>3. QED BY <1>10, <2>1, <2>2, KeptList DEF count
<1>11. {m \in D : count(m) < M} = {Data(i)' : i \in Turns' \ {la}}
  <2>1. ASSUME NEW i \in Left(o) PROVE count(Data(i)) < M <=> i \in Turns' \ {la}
    BY <1>2, <1>4
  <2>2. \A i \in Turns' \ {la} : i \in Left(o) /\ Data(i)' = Data(i)
    BY <1>2
  <2>3. QED BY <2>1, <2>2 DEF D
<1>12. CASE la \in Turns'
  <2>1. /\ Append(rest, n) \in Seq(Nat) /\ Increasing(Append(rest, n))
        /\ Members(Append(rest, n)) = D \cup {n}
    BY <1>0, <1>3, <1>6, AppendList
  <2>2. PICK q \in Seq(Nat) : q = Queue!Kept(Append(rest, n), Seen(s)) /\ Increasing(q)
          /\ Members(q) = {m \in D \cup {n} : count(m) < M}
    <3>1. PICK t \in Seq(Nat) : t = Append(rest, n) /\ Increasing(t) /\ Members(t) = D \cup {n}
      BY <2>1
    <3>2. /\ Queue!Kept(t, Seen(s)) \in Seq(Nat) /\ Increasing(Queue!Kept(t, Seen(s)))
          /\ Members(Queue!Kept(t, Seen(s))) = {m \in Members(t) : count(m) < M}
      BY <1>10, <3>1
    <3>3. QED BY <3>1, <3>2
  <2>3. count(n) < M
    BY <1>0, <1>5
  <2>4. \A i \in Turns' : i = la => Data(i)' = n
    BY <1>2, <1>12 DEF Data
  <2>5. {Data(i)' : i \in Turns'} = {Data(i)' : i \in Turns' \ {la}} \cup {n}
    BY <1>12, <2>4
  <2>6. Members(q) = {Data(i)' : i \in Turns'}
    BY <1>11, <2>2, <2>3, <2>5
  <2>7. Waiting' = q
    BY <2>2, <2>6, WaitingIs
  <2>8. QED BY <1>1, <1>2, <1>3, <1>12, <2>2, <2>7 DEF n
<1>13. CASE la \notin Turns'
  <2>1. PICK q \in Seq(Nat) : q = Queue!Kept(rest, Seen(s)) /\ Increasing(q)
          /\ Members(q) = {m \in D : count(m) < M}
    BY <1>3, <1>10
  <2>2. Turns' \ {la} = Turns'
    BY <1>13
  <2>3. Members(q) = {Data(i)' : i \in Turns'}
    BY <1>11, <2>1, <2>2
  <2>4. Waiting' = q
    BY <2>1, <2>3, WaitingIs
  <2>5. QED BY <1>1, <1>2, <1>3, <1>13, <2>1, <2>4
<1>14. QED BY <1>12, <1>13

\* Every step of the pool is a step of SendQueue, or changes nothing it can see.
LEMMA QueueStep ==
  ASSUME QueueInv, InCallOrder, InCallOrder', [Next]_vars
  PROVE  [Queue!Next]_<<Waiting, Numbers(wire), Seen(sends)>>
<1>0. /\ TypeInv /\ SocketsOwned /\ PoolType /\ sends \in Seq(Calls)
      /\ wire \in Seq(WireData) /\ Len(sends) \in Nat
  BY DEF QueueInv, PoolInv, SafeInv, PoolType
<1>1. ASSUME NEW c \in Slots, Active(c), NEW o \in Flushes(c)
      PROVE  /\ o.sent \in 0 .. Len(Waiting)
             /\ Numbers(wire \o FlushedDatagrams(c, o)) = Numbers(wire) \o Queue!Sent(o.sent)
             /\ Queue!Rest(o.sent) = SubSeq(Waiting, o.sent + 1, Len(Waiting))
             /\ wire \o FlushedDatagrams(c, o) \in Seq(WireData)
  <2>1. /\ FlushedDatagrams(c, o) \in Seq(WireData)
        /\ Numbers(FlushedDatagrams(c, o)) = Queue!Sent(o.sent)
    BY <1>1, FlushNumbers DEF Queue!Sent
  <2>2. PICK w \in Seq(WireData) : w = FlushedDatagrams(c, o)
    BY <2>1
  <2>3. Numbers(wire \o w) = Numbers(wire) \o Numbers(w) /\ wire \o w \in Seq(WireData)
    BY <1>0, NumbersAdded
  <2>4. o.sent \in 0 .. Len(Waiting)
    BY FlushSplit
  <2>5. QED BY <2>1, <2>2, <2>3, <2>4 DEF Queue!Rest
<1>2. ASSUME NEW r \in Calls, sends' = Append(sends, r)
      PROVE  /\ Seen(sends)' = Append(Seen(sends), SeenCall(r))
             /\ Len(Seen(sends)') = Len(sends) + 1
             /\ Seen(sends') = Seen(sends)'
  <2>1. PICK s \in Seq(Calls) : s = sends' /\ s = Append(sends, r) /\ Len(s) = Len(sends) + 1
    BY <1>0, <1>2, CallAdded
  <2>2. Seen(s) = Append(Seen(sends), SeenCall(r)) /\ Len(Seen(s)) = Len(s)
    BY <1>0, <2>1, SeenAdded
  <2>3. Seen(sends)' = Seen(s) /\ Seen(sends') = Seen(s)
    BY <2>1 DEF Seen
  <2>4. QED BY <2>1, <2>2, <2>3
<1>3. CASE QueueStill
  <2>1. packets' = packets /\ length' = length /\ sends' = sends /\ wire' = wire
    BY <1>3 DEF QueueStill, queueVars
  <2>2. Waiting' = Waiting /\ Numbers(wire)' = Numbers(wire) /\ Seen(sends)' = Seen(sends)
    BY <2>1 DEF Waiting, Turns, Unsent, Start, Numbers, Seen
  <2>3. QED BY <2>2
<1>4. CASE \E c \in Slots : FlushOnly(c)
  <2>1. PICK c \in Slots : FlushOnly(c)
    BY <1>4
  <2>2. PICK o \in Flushes(c) : /\ packets' = Flushed(o) /\ length' = LengthAfter(o)
                                /\ wire' = wire \o FlushedDatagrams(c, o) /\ sends' = sends
    BY <2>1 DEF FlushOnly
  <2>0. Active(c)
    BY <2>1 DEF FlushOnly
  <2>3. Waiting' = Queue!Rest(o.sent)
    BY <1>1, <2>0, <2>2, FlushedQueue
  <2>4. Numbers(wire)' = Numbers(wire) \o Queue!Sent(o.sent) /\ Seen(sends)' = Seen(sends)
    BY <1>1, <2>0, <2>2 DEF Numbers, Seen
  <2>5. Queue!Flush(o.sent)
    BY <2>3, <2>4 DEF Queue!Flush
  <2>6. o.sent \in 0 .. Len(Waiting)
    BY <1>1, <2>0
  <2>7. QED BY <2>5, <2>6 DEF Queue!Next
<1>5. CASE \E c \in Slots, a \in Addrs \cup {NULL}, size \in PacketSizes :
             Usable(c) /\ SendQueues(c, a, size)
  <2>1. PICK c \in Slots, a \in Addrs \cup {NULL}, size \in PacketSizes :
             Usable(c) /\ SendQueues(c, a, size)
    BY <1>5
  <2>2. PICK o \in Flushes(c), p \in Entries, r \in Calls : QueueCall(c, o, p, r)
    BY <1>0, <2>1, QueueEffect
  <2>3. sends' = Append(sends, r) /\ r.queued /\ wire' = wire \o FlushedDatagrams(c, o)
    BY <2>2 DEF QueueCall
  <2>0. /\ Active(c) /\ o.sent \in 0 .. Len(Waiting)
        /\ Queue!Rest(o.sent) = SubSeq(Waiting, o.sent + 1, Len(Waiting))
    BY <1>1, <2>1 DEF Usable, Active
  <2>4. Numbers(wire)' = Numbers(wire) \o Queue!Sent(o.sent)
    BY <1>1, <2>0, <2>3 DEF Numbers
  <2>5. /\ r.failed \in BOOLEAN /\ r.queued = TRUE /\ r.result \in {"BUFFERED", "FAILED"}
        /\ r.size \in PacketSizes
    <3>1. r.failed \in BOOLEAN /\ r.queued \in BOOLEAN /\ r.size \in PacketSizes
      BY DEF Calls
    <3>2. r.result = "BUFFERED" \/ r.result = "FAILED"
      BY <2>2 DEF QueueCall, PacketQueued, PacketFailed
    <3>3. QED BY <2>3, <3>1, <3>2
  <2>6. Queue!Called(r.size, r.result, TRUE, r.failed)
    BY <1>2, <2>3, <2>5 DEF Queue!Called, SeenCall
  <2>7. CASE /\ r.result = "BUFFERED" /\ r.size % UINT16 # 0
             /\ Waiting' = Queue!Kept(Append(Queue!Rest(o.sent), Len(sends) + 1), Seen(sends'))
    <3>1. Queue!Buffer(o.sent, r.size, r.failed)
      BY <1>2, <2>3, <2>4, <2>6, <2>7 DEF Queue!Buffer, Queue!Vanishes
    <3>2. QED BY <2>0, <2>5, <3>1 DEF Queue!Next
  <2>8. CASE /\ \/ r.result = "BUFFERED" /\ r.size % UINT16 = 0
                \/ r.result = "FAILED" /\ r.size > 0
             /\ Waiting' = Queue!Kept(Queue!Rest(o.sent), Seen(sends'))
    <3>1. Queue!Waste(o.sent, r.size, r.result, r.failed)
      BY <1>2, <2>3, <2>4, <2>6, <2>8 DEF Queue!Waste, Queue!Vanishes
    <3>2. QED BY <2>0, <2>5, <3>1 DEF Queue!Next
  <2>9. QED BY <2>0, <2>2, <2>7, <2>8, QueuedQueue
<1>6. CASE \E c \in Slots, a \in Addrs \cup {NULL}, size \in PacketSizes :
             Usable(c) /\ SendNow(c, a, size)
  <2>1. PICK c \in Slots, a \in Addrs \cup {NULL}, size \in PacketSizes :
             Usable(c) /\ SendNow(c, a, size)
    BY <1>6
  <2>2. PICK o \in Flushes(c), r \in Calls : DirectCall(c, o, r)
    BY <1>0, <2>1, DirectEffect
  <2>3. /\ packets' = Flushed(o) /\ length' = LengthAfter(o)
        /\ sends' = Append(sends, r) /\ ~r.queued
    BY <2>2 DEF DirectCall
  <2>0. Active(c)
    BY <2>1 DEF Usable, Active
  <2>12. o.sent \in 0 .. Len(Waiting)
    BY <1>1, <2>0
  <2>4. PICK now \in Seq(WireData) :
          /\ wire' = (wire \o FlushedDatagrams(c, o)) \o now
          /\ \/ now = <<>> /\ r.result = "FAILED" /\ r.failed
             \/ /\ Len(now) = 1 /\ r.result = "OK" /\ (length' = 0 \/ r.failed)
                /\ r.size < UINT16
          /\ \A k \in 1 .. Len(now) : now[k].n = Len(sends) + 1
    BY <2>2 DEF DirectCall
  <2>5. Waiting' = Queue!Rest(o.sent)
    BY <1>1, <2>0, <2>3, FlushedQueue
  <2>6. r.failed \in BOOLEAN /\ r.queued = FALSE /\ r.size \in PacketSizes
    <3>1. r.failed \in BOOLEAN /\ r.queued \in BOOLEAN /\ r.size \in PacketSizes
      BY DEF Calls
    <3>2. QED BY <2>3, <3>1
  <2>7. Queue!Called(r.size, r.result, FALSE, r.failed)
    BY <1>2, <2>3, <2>6 DEF Queue!Called, SeenCall
  <2>8. Numbers(wire)' = (Numbers(wire) \o Queue!Sent(o.sent)) \o Numbers(now)
    <3>1. PICK w \in Seq(WireData) : /\ w = wire \o FlushedDatagrams(c, o)
                                     /\ Numbers(w) = Numbers(wire) \o Queue!Sent(o.sent)
      BY <1>1, <2>0
    <3>2. Numbers(w \o now) = Numbers(w) \o Numbers(now)
      BY NumbersAdded
    <3>3. Numbers(wire)' = Numbers(w \o now)
      BY <2>4, <3>1 DEF Numbers
    <3>4. QED BY <3>1, <3>2, <3>3
  <2>9. CASE now = <<>> /\ r.result = "FAILED" /\ r.failed
    <3>1. Numbers(now) = <<>>
      BY <2>9 DEF Numbers
    <3>2. Numbers(wire) \in Seq(Nat \cup {NULL}) /\ Queue!Sent(o.sent) \in Seq(Nat \cup {NULL})
      <4>1. \A k \in 1 .. Len(wire) : wire[k].n \in Nat \cup {NULL}
        <5>1. \A k \in 1 .. Len(wire) : wire[k] \in WireData
          BY <1>0
        <5>2. QED BY <5>1 DEF WireData
      <4>2. Waiting \in Seq(Nat) /\ o.sent \in 0 .. Len(Waiting)
        BY <2>12 DEF InCallOrder
      <4>3. QED BY <1>0, <4>1, <4>2 DEF Numbers, Queue!Sent
    <3>3. Numbers(wire)' = Numbers(wire) \o Queue!Sent(o.sent)
      BY <2>8, <3>1, <3>2
    <3>4. Queue!Called(r.size, "FAILED", FALSE, TRUE)
      BY <2>6, <2>7, <2>9
    <3>5. Queue!Refuse(o.sent, r.size)
      BY <2>5, <3>3, <3>4 DEF Queue!Refuse
    <3>6. QED BY <2>6, <2>12, <3>5 DEF Queue!Next
  <2>10. CASE /\ Len(now) = 1 /\ r.result = "OK" /\ (length' = 0 \/ r.failed)
              /\ r.size < UINT16
    <3>1. Numbers(now) = <<Len(sends) + 1>>
      BY <2>4, <2>10 DEF Numbers
    <3>2. Queue!Rest(o.sent) = <<>> \/ r.failed
      <4>1. SUFFICES ASSUME length' = 0 PROVE Waiting' = <<>>
        BY <2>5, <2>10
      <4>2. Start' = 0
        BY <4>1, PoolAssumption DEF Start
      <4>3. Turns' = {}
        BY <4>1, <4>2 DEF Turns, Unsent
      <4>4. Cardinality(Turns') = 0
        BY <4>3, FS_EmptySet
      <4>5. QED BY <4>3, <4>4 DEF Waiting
    <3>3. Len(Seen(sends)') = Len(sends) + 1
      BY <1>2, <2>3
    <3>4. Queue!Direct(o.sent, r.size, r.failed)
      BY <2>5, <2>7, <2>8, <2>10, <3>1, <3>2, <3>3 DEF Queue!Direct
    <3>5. QED BY <2>6, <2>12, <3>4 DEF Queue!Next
  <2>11. QED BY <2>4, <2>9, <2>10
<1>7. QED BY <1>0, <1>3, <1>4, <1>5, <1>6, PoolKinds

\* The pool is a SendQueue, for every size of the ring and every number of calls,
\* connections and failures: no packet twice, none overtaken but in a call the kernel
\* failed, and OK and FAILED truthful.  BUFFERED is given up only when
\* MAX_BUFFERED_PACKETS later ones have taken a place, or when the size is a multiple of
\* 2^16, and then always (udp.cpp:227-296, 366-447).
THEOREM QueueCorrect == Spec => QueueSpec
<1>1. Init => Queue!Init
  <2>1. SUFFICES ASSUME Init PROVE Queue!Init
    OBVIOUS
  <2>2. length = 0 /\ Start = 0 /\ wire = <<>> /\ sends = <<>>
    BY <2>1, PoolAssumption DEF Init, Start
  <2>3. Turns = {}
    BY <2>2 DEF Turns, Unsent
  <2>4. Cardinality(Turns) = 0
    BY <2>3, FS_EmptySet
  <2>5. Waiting = <<>>
    BY <2>4 DEF Waiting
  <2>6. Numbers(wire) = <<>> /\ Seen(sends) = <<>>
    BY <2>2 DEF Numbers, Seen
  <2>7. QED BY <2>5, <2>6 DEF Queue!Init
<1>2. QueueInv => InCallOrder
  BY WaitingListed
<1>3. QueueInv /\ InCallOrder /\ InCallOrder' /\ [Next]_vars
        => [Queue!Next]_<<Waiting, Numbers(wire), Seen(sends)>>
  BY QueueStep
<1>4. QED BY <1>1, <1>2, <1>3, QueueAlways, PTL DEF Spec, QueueSpec, Queue!Spec
=============================================================================
