--------------------------- MODULE AllocatorProofs ---------------------------
(***************************************************************************)
(* Proofs about the allocator, for any threads, thresholds, page and class *)
(* sizes.                                                                  *)
(***************************************************************************)
EXTENDS Allocator, FiniteSetTheorems, SequenceTheorems, TLAPS

TinyClasses == 0 .. TINY_CLASSES - 1
SizeClasses == 0 .. SIZE_CLASSES - 1

Entry   == [pool : Nat, used : Nat]
Manager == [SizeClasses -> Seq(Entry)]

\* The pool manager of a thread that has one, or the one its first call makes.
ManagerOf(t) == IF pool_mgr[t] = NULL THEN [c \in SizeClasses |-> <<>>] ELSE pool_mgr[t]

\* The type of the thread caches and of the heap.  No pool has a free slot.
CachesTyped ==
  /\ tiny_pools \in [Threads -> [TinyClasses -> Nat \cup {NULL}]]
  /\ pool_mgr \in [Threads -> Manager \cup {NULL}]
  /\ \A t \in Threads, c \in SizeClasses : pool_mgr[t] # NULL => Len(pool_mgr[t][c]) <= MAX_POOLS
  /\ DOMAIN heap \subseteq Nat
  /\ IsFiniteSet(DOMAIN heap)
  /\ heap = [p \in DOMAIN heap |-> {}]

\* Every pool is held at one place, and what is held is a pool.
HeldOnce ==
  /\ \A p \in DOMAIN heap : \E x : Holders(p) = {x}
  /\ \A p \in Nat : Holders(p) # {} => p \in DOMAIN heap

PoolsInv == CachesTyped /\ HeldOnce

LargeHeader(size) == [size |-> size, class |-> 255, mmap |-> TRUE]

Pages(region, size) == {<<region, i>> : i \in 0 .. alloc_size(size) - 1}

\* Every block is a mapping of its own, whose pages are the ones mapped.
PagesInv ==
  /\ \A b \in blocks : \E r \in Nat, s \in 1 .. MAX_SIZE :
       s >= LARGE_THRESHOLD /\ b = Block(r, 0, s, LargeHeader(s))
  /\ mapped = UNION {Pages(b.region, b.size) : b \in blocks}
  /\ \A a, b \in blocks : a.region = b.region => a = b
  /\ IsFiniteSet({page[1] : page \in mapped})

-----------------------------------------------------------------------------
(* Lemmas on the operators.                                                *)

\* A new pool or mapping is where nothing is.
LEMMA UnusedFresh ==
  ASSUME NEW S, IsFiniteSet(S)
  PROVE  Unused(S) \in Nat /\ Unused(S) \notin S
<1>1. PICK n : n = Cardinality(S) /\ n \in Nat
  BY FS_CardinalityType
<1>2. \E k \in 0 .. n : k \notin S
  <2>1. SUFFICES ASSUME 0 .. n \subseteq S PROVE FALSE
    OBVIOUS
  <2>2. Cardinality(0 .. n) <= n
    BY <1>1, <2>1, FS_Subset
  <2>3. 0 \in Int /\ n \in Int
    BY <1>1
  <2>4. Cardinality(0 .. n) = IF 0 > n THEN 0 ELSE n - 0 + 1
    BY <2>3, FS_Interval, Zenon
  <2>5. QED BY <1>1, <2>2, <2>4
<1>3. Unused(S) \in 0 .. n /\ Unused(S) \notin S
  BY <1>1, <1>2 DEF Unused
<1>4. QED BY <1>1, <1>3

\* Nothing is found in a bitmap without a free slot.
LEMMA NoFreeBits == ASSUME NEW size PROVE find_free_bits({}, size) = {NULL}
BY DEF find_free_bits

\* What is asked of the constants.
LEMMA ConstantsTyped ==
  /\ TINY_THRESHOLD \in Nat /\ LARGE_THRESHOLD \in Nat /\ HEADER \in Nat
  /\ TINY_CLASSES \in Nat /\ SIZE_CLASSES \in Nat /\ MAX_POOLS \in Nat
  /\ PAGE \in Nat \ {0} /\ TINY_STEP \in Nat \ {0}
  /\ MAX_SIZE \in Nat /\ SIZE_SPACE \in Nat /\ MAX_SIZE < SIZE_SPACE
  /\ TINY_CLASSES <= 255
  /\ NULL \notin Nat /\ NULL \notin Manager
BY AllocatorAssumption DEF Manager, Entry, SizeClasses

\* The pages that hold one of the first n bytes, byte by byte.
Holding(r, n) == {<<r, i \div PAGE>> : i \in 0 .. n - 1}

\* They are as many as alloc_size says.
LEMMA PagesHold ==
  ASSUME NEW r, NEW s \in Nat
  PROVE  Holding(r, HEADER + s) = Pages(r, s)
<1>0. PICK n : n = HEADER + s /\ n = s + HEADER /\ n \in Nat
  BY ConstantsTyped
<1>1. PICK P : P = PAGE /\ P \in Nat \ {0}
  BY ConstantsTyped
<1>2. PICK q : q = (n + P - 1) \div P
  OBVIOUS
<1>3. q \in Nat /\ q * P <= n + P - 1 /\ n + P - 1 < (q + 1) * P
  BY <1>0, <1>1, <1>2
<1>4. ASSUME NEW i \in 0 .. n - 1 PROVE i \div P \in 0 .. q - 1
  <2>1. PICK k : k = i \div P
    OBVIOUS
  <2>2. k \in Nat /\ k * P <= i
    BY <1>0, <1>1, <2>1
  <2>3. k * P < q * P
    <3>1. (q + 1) * P = q * P + P
      BY <1>1, <1>3
    <3>2. QED BY <1>0, <1>1, <1>3, <2>2, <3>1
  <2>4. k < q
    BY <1>0, <1>1, <1>3, <2>2, <2>3
  <2>5. QED BY <1>3, <2>1, <2>2, <2>4
<1>5. ASSUME NEW j \in 0 .. q - 1 PROVE j * P \in 0 .. n - 1 /\ (j * P) \div P = j
  <2>1. (j + 1) * P <= q * P
    BY <1>1, <1>3
  <2>2. (j + 1) * P = j * P + P /\ j * P \in Nat
    BY <1>1, <1>3
  <2>3. j * P <= n - 1
    BY <1>0, <1>1, <1>3, <2>1, <2>2
  <2>4. (j * P) \div P = j
    BY <1>1, <1>3
  <2>5. QED BY <1>0, <2>2, <2>3, <2>4
<1>6. {<<r, i \div P>> : i \in 0 .. n - 1} = {<<r, j>> : j \in 0 .. q - 1}
  BY <1>4, <1>5
<1>7. alloc_size(s) = q
  BY <1>0, <1>1, <1>2 DEF alloc_size
<1>8. Holding(r, n) = Pages(r, s)
  BY <1>1, <1>6, <1>7 DEF Holding, Pages
<1>9. QED BY <1>0, <1>8

-----------------------------------------------------------------------------
(* What the operations do.                                                 *)

\* Looking into a pool that has just been made, or into an old one.
LEMMA NothingFound ==
  ASSUME PoolsInv
  PROVE  /\ NewPool \in Nat /\ NewPool \notin DOMAIN heap
         /\ \A p \in DOMAIN heap : heap[p] = {} /\ Taken(heap, p, NULL) = heap
         /\ WithPool(NewPool)[NewPool] = {}
         /\ Taken(WithPool(NewPool), NewPool, NULL) = WithPool(NewPool)
<1>1. NewPool \in Nat /\ NewPool \notin DOMAIN heap
  BY UnusedFresh DEF PoolsInv, CachesTyped, NewPool
<1>2. heap = [p \in DOMAIN heap |-> {}]
  BY DEF PoolsInv, CachesTyped
<1>3. \A p \in DOMAIN heap : heap[p] = {} /\ Taken(heap, p, NULL) = heap
  BY <1>2 DEF Taken
<1>4. WithPool(NewPool) = [q \in DOMAIN heap \cup {NewPool} |-> {}]
  BY <1>2 DEF WithPool, new_bitmap
<1>5. QED BY <1>1, <1>3, <1>4 DEF Taken

\* alloc_tiny makes a pool or does nothing.
LEMMA TinyEffect ==
  ASSUME PoolsInv, NEW t \in Threads, NEW size \in Nat \ {0}, alloc_tiny(t, size)
  PROVE  /\ UNCHANGED <<pool_mgr, mapped, blocks>>
         /\ \/ UNCHANGED <<tiny_pools, heap>>
            \/ \E c \in TinyClasses : /\ tiny_pools[t][c] = NULL
                                      /\ tiny_pools' = [tiny_pools EXCEPT ![t][c] = NewPool]
                                      /\ heap' = WithPool(NewPool)
<1>1. PICK c : c = ((size - 1) \div TINY_STEP) % 256
  OBVIOUS
<1>2. c \in Nat
  <2>1. PICK k : k = (size - 1) \div TINY_STEP
    OBVIOUS
  <2>2. k \in Nat
    BY <2>1, ConstantsTyped
  <2>3. QED BY <1>1, <2>1, <2>2
<1>3. CASE UNCHANGED vars \/ terminate
  BY <1>3 DEF vars, terminate
<1>4. CASE ~(UNCHANGED vars \/ terminate)
  <2>1. PICK p, h : /\ p = IF tiny_pools[t][c] = NULL THEN NewPool ELSE tiny_pools[t][c]
                    /\ h = IF tiny_pools[t][c] = NULL THEN WithPool(p) ELSE heap
    OBVIOUS
  <2>2. /\ c < TINY_CLASSES
        /\ tiny_pools' = [tiny_pools EXCEPT ![t][c] = p]
        /\ \E found \in find_free_bits(h[p], size) :
             /\ heap' = Taken(h, p, found)
             /\ Served(p, found, size, Header(size, c, FALSE))
        /\ UNCHANGED <<pool_mgr, mapped>>
    BY <1>1, <1>4, <2>1 DEF alloc_tiny
  <2>3. c \in TinyClasses
    BY <1>2, <2>2, ConstantsTyped DEF TinyClasses
  <2>4. h[p] = {} /\ Taken(h, p, NULL) = h
    <3>1. CASE tiny_pools[t][c] = NULL
      BY <2>1, <3>1, NothingFound
    <3>2. CASE tiny_pools[t][c] # NULL
      <4>1. p = tiny_pools[t][c] /\ h = heap /\ p \in Nat
        BY <2>1, <2>3, <3>2 DEF PoolsInv, CachesTyped
      <4>2. <<t, c, 0>> \in Holders(p)
        BY <2>3, <4>1 DEF Holders, TinyClasses
      <4>3. p \in DOMAIN heap
        BY <4>1, <4>2 DEF PoolsInv, HeldOnce
      <4>4. QED BY <4>1, <4>3, NothingFound
    <3>3. QED BY <3>1, <3>2
  <2>5. /\ heap' = h /\ Served(p, NULL, size, Header(size, c, FALSE))
    BY <2>2, <2>4, NoFreeBits
  <2>6. blocks' = blocks
    BY <2>5 DEF Served
  <2>7. CASE tiny_pools[t][c] = NULL
    BY <2>1, <2>2, <2>3, <2>5, <2>6, <2>7
  <2>8. CASE tiny_pools[t][c] # NULL
    <3>1. tiny_pools' = tiny_pools
      BY <2>1, <2>2, <2>3, <2>8 DEF PoolsInv, CachesTyped
    <3>2. QED BY <2>1, <2>2, <2>5, <2>6, <2>8, <3>1
  <2>9. QED BY <2>7, <2>8
<1>5. QED BY <1>3, <1>4

\* alloc_small makes the manager, a pool, or nothing.
LEMMA SmallEffect ==
  ASSUME PoolsInv, NEW t \in Threads,
         NEW size \in TINY_THRESHOLD + 1 .. LARGE_THRESHOLD - 1, alloc_small(t, size)
  PROVE  /\ UNCHANGED <<tiny_pools, mapped, blocks>>
         /\ \/ UNCHANGED <<pool_mgr, heap>>
            \/ pool_mgr' = [pool_mgr EXCEPT ![t] = ManagerOf(t)] /\ heap' = heap
            \/ \E c \in SizeClasses :
                 /\ Len(ManagerOf(t)[c]) < MAX_POOLS
                 /\ pool_mgr' = [pool_mgr EXCEPT ![t] = [ManagerOf(t) EXCEPT
                      ![c] = Append(ManagerOf(t)[c], [pool |-> NewPool, used |-> 1])]]
                 /\ heap' = WithPool(NewPool)
<1>1. PICK class, mgr : class = Log2(size - 1) /\ mgr = ManagerOf(t)
  OBVIOUS
<1>2. class \in SizeClasses
  BY <1>1, SizeClassAssumption DEF SizeClasses
<1>3. mgr \in Manager
  <2>1. CASE pool_mgr[t] = NULL
    <3>1. <<>> \in Seq(Entry)
      OBVIOUS
    <3>2. QED BY <1>1, <2>1, <3>1 DEF ManagerOf, Manager
  <2>2. CASE pool_mgr[t] # NULL
    BY <1>1, <2>2 DEF ManagerOf, PoolsInv, CachesTyped
  <2>3. QED BY <2>1, <2>2
<1>4. ASSUME NEW i \in DOMAIN mgr[class]
      PROVE  find_free_bits(heap[mgr[class][i].pool], class_size(class)) = {NULL}
  <2>1. mgr[class] \in Seq(Entry)
    BY <1>2, <1>3 DEF Manager
  <2>2. pool_mgr[t] # NULL /\ mgr = pool_mgr[t]
    BY <1>1, <1>2, <1>4 DEF ManagerOf
  <2>3. i \in 1 .. Len(mgr[class]) /\ mgr[class][i].pool \in Nat
    <3>1. i \in 1 .. Len(mgr[class]) /\ mgr[class][i] \in Entry
      BY <2>1, LenProperties
    <3>2. QED BY <3>1 DEF Entry
  <2>4. i \in 1 .. MAX_POOLS
    <3>1. Len(mgr[class]) <= MAX_POOLS /\ Len(mgr[class]) \in Nat
      BY <1>2, <2>1, <2>2, LenProperties DEF PoolsInv, CachesTyped
    <3>2. QED BY <2>3, <3>1, ConstantsTyped
  <2>5. <<t, class, i>> \in Holders(mgr[class][i].pool)
    BY <1>2, <2>2, <2>4 DEF Holders, SizeClasses
  <2>6. mgr[class][i].pool \in DOMAIN heap
    BY <2>3, <2>5 DEF PoolsInv, HeldOnce
  <2>7. heap[mgr[class][i].pool] = {}
    BY <2>6, NothingFound
  <2>8. QED BY <2>7, NoFreeBits
<1>5. CASE terminate
  BY <1>5 DEF terminate
<1>6. CASE ~terminate
  <2>1. /\ UNCHANGED <<tiny_pools, mapped>>
        /\ \/ \E i \in DOMAIN mgr[class] :
                \E found \in find_free_bits(heap[mgr[class][i].pool], class_size(class)) \ {NULL} : TRUE
           \/ /\ pool_mgr' = [pool_mgr EXCEPT ![t] = [mgr EXCEPT ![class] = mgr[class]]]
              /\ UNCHANGED <<heap, blocks>>
           \/ /\ Len(mgr[class]) < MAX_POOLS
              /\ pool_mgr' = [pool_mgr EXCEPT ![t] = [mgr EXCEPT
                   ![class] = Append(mgr[class], [pool |-> NewPool, used |-> 1])]]
              /\ \E found \in find_free_bits(WithPool(NewPool)[NewPool], class_size(class)) :
                   /\ heap' = Taken(WithPool(NewPool), NewPool, found)
                   /\ Served(NewPool, found, size, Header(class_size(class), class, FALSE))
    BY <1>1, <1>6 DEF alloc_small, ManagerOf, SizeClasses
  <2>2. ~\E i \in DOMAIN mgr[class] :
           \E found \in find_free_bits(heap[mgr[class][i].pool], class_size(class)) \ {NULL} : TRUE
    BY <1>4
  <2>3. CASE /\ pool_mgr' = [pool_mgr EXCEPT ![t] = [mgr EXCEPT ![class] = mgr[class]]]
             /\ UNCHANGED <<heap, blocks>>
    <3>1. [mgr EXCEPT ![class] = mgr[class]] = mgr
      BY <1>2, <1>3 DEF Manager
    <3>2. QED BY <1>1, <2>1, <2>3, <3>1
  <2>4. CASE /\ Len(mgr[class]) < MAX_POOLS
             /\ pool_mgr' = [pool_mgr EXCEPT ![t] = [mgr EXCEPT
                  ![class] = Append(mgr[class], [pool |-> NewPool, used |-> 1])]]
             /\ \E found \in find_free_bits(WithPool(NewPool)[NewPool], class_size(class)) :
                  /\ heap' = Taken(WithPool(NewPool), NewPool, found)
                  /\ Served(NewPool, found, size, Header(class_size(class), class, FALSE))
    <3>1. find_free_bits(WithPool(NewPool)[NewPool], class_size(class)) = {NULL}
      BY NothingFound, NoFreeBits
    <3>2. /\ heap' = WithPool(NewPool)
          /\ Served(NewPool, NULL, size, Header(class_size(class), class, FALSE))
      BY <2>4, <3>1, NothingFound
    <3>3. blocks' = blocks
      BY <3>2 DEF Served
    <3>4. QED BY <1>1, <1>2, <2>1, <2>4, <3>2, <3>3
  <2>5. QED BY <2>1, <2>2, <2>3, <2>4
<1>7. QED BY <1>5, <1>6

-----------------------------------------------------------------------------
(* The pools.                                                              *)

\* A new pool is put at one place, and every other stays where it is.
LEMMA PoolAdded ==
  ASSUME PoolsInv, NEW p, p = NewPool, heap' = WithPool(p),
         NEW y, Holders(p)' = Holders(p) \cup {y},
         \A q \in Nat : q # p => Holders(q)' = Holders(q)
  PROVE  /\ HeldOnce'
         /\ DOMAIN heap' \subseteq Nat /\ IsFiniteSet(DOMAIN heap')
         /\ heap' = [q \in DOMAIN heap' |-> {}]
<1>1. p \in Nat /\ p \notin DOMAIN heap
  BY NothingFound
<1>2. DOMAIN heap' = DOMAIN heap \cup {p} /\ heap' = [q \in DOMAIN heap' |-> {}]
  BY DEF WithPool, new_bitmap, PoolsInv, CachesTyped
<1>3. DOMAIN heap' \subseteq Nat /\ IsFiniteSet(DOMAIN heap')
  BY <1>1, <1>2, FS_AddElement DEF PoolsInv, CachesTyped
<1>4. Holders(p)' = {y}
  BY <1>1 DEF PoolsInv, HeldOnce
<1>5. HeldOnce'
  <2>1. \A q \in DOMAIN heap' : \E x : Holders(q)' = {x}
    <3>1. SUFFICES ASSUME NEW q \in DOMAIN heap' PROVE \E x : Holders(q)' = {x}
      OBVIOUS
    <3>2. CASE q = p
      BY <1>4, <3>2
    <3>3. CASE q # p
      BY <1>2, <1>3, <3>1, <3>3 DEF PoolsInv, HeldOnce
    <3>4. QED BY <3>2, <3>3
  <2>2. \A q \in Nat : Holders(q)' # {} => q \in DOMAIN heap'
    BY <1>2 DEF PoolsInv, HeldOnce
  <2>3. QED BY <2>1, <2>2 DEF HeldOnce
<1>6. QED BY <1>2, <1>3, <1>5

\* A tiny pool is made.
LEMMA PoolsTiny ==
  ASSUME PoolsInv, NEW t \in Threads, NEW c \in TinyClasses, tiny_pools[t][c] = NULL,
         tiny_pools' = [tiny_pools EXCEPT ![t][c] = NewPool], heap' = WithPool(NewPool),
         pool_mgr' = pool_mgr
  PROVE  PoolsInv'
<1>1. PICK p : p = NewPool
  OBVIOUS
<1>2. p \in Nat /\ p # NULL
  BY <1>1, NothingFound, ConstantsTyped
<1>3. tiny_pools \in [Threads -> [TinyClasses -> Nat \cup {NULL}]]
  BY DEF PoolsInv, CachesTyped
<1>4. /\ tiny_pools' \in [Threads -> [TinyClasses -> Nat \cup {NULL}]]
      /\ \A u \in Threads, d \in TinyClasses :
           tiny_pools'[u][d] = IF u = t /\ d = c THEN p ELSE tiny_pools[u][d]
  BY <1>1, <1>2, <1>3
<1>5. Holders(p)' = Holders(p) \cup {<<t, c, 0>>}
  BY <1>4 DEF Holders, TinyClasses
<1>6. ASSUME NEW q \in Nat, q # p PROVE Holders(q)' = Holders(q)
  <2>1. q # NULL
    BY ConstantsTyped
  <2>2. \A u \in Threads, d \in TinyClasses : tiny_pools'[u][d] = q <=> tiny_pools[u][d] = q
    BY <1>4, <1>6, <2>1
  <2>3. QED BY <2>2 DEF Holders, TinyClasses
<1>7. QED BY <1>1, <1>4, <1>5, <1>6, PoolAdded DEF PoolsInv, CachesTyped

\* The manager of a thread is made, with no pools.
LEMMA PoolsManager ==
  ASSUME PoolsInv, NEW t \in Threads, pool_mgr' = [pool_mgr EXCEPT ![t] = ManagerOf(t)],
         UNCHANGED <<tiny_pools, heap>>
  PROVE  PoolsInv'
<1>1. CASE pool_mgr[t] # NULL
  <2>1. pool_mgr' = pool_mgr
    BY <1>1 DEF ManagerOf, PoolsInv, CachesTyped
  <2>2. ASSUME NEW p PROVE Holders(p)' = Holders(p)
    BY <2>1 DEF Holders
  <2>3. CachesTyped'
    BY <2>1 DEF PoolsInv, CachesTyped
  <2>4. QED BY <2>2, <2>3 DEF PoolsInv, HeldOnce
<1>2. CASE pool_mgr[t] = NULL
  <2>1. PICK m : m = [c \in SizeClasses |-> <<>>]
    OBVIOUS
  <2>2. m \in Manager /\ \A c \in SizeClasses : Len(m[c]) = 0 /\ DOMAIN m[c] = {}
    BY <2>1 DEF Manager
  <2>3. /\ pool_mgr' \in [Threads -> Manager \cup {NULL}]
        /\ pool_mgr'[t] = m
        /\ \A u \in Threads : u # t => pool_mgr'[u] = pool_mgr[u]
    BY <1>2, <2>1, <2>2 DEF ManagerOf, PoolsInv, CachesTyped
  <2>4. CachesTyped'
    BY <2>2, <2>3, ConstantsTyped DEF PoolsInv, CachesTyped
  <2>5. ASSUME NEW p PROVE Holders(p)' = Holders(p)
    BY <1>2, <2>2, <2>3 DEF Holders, SizeClasses
  <2>6. QED BY <2>4, <2>5 DEF PoolsInv, HeldOnce
<1>3. QED BY <1>1, <1>2

\* A small pool is made and enters the manager.
LEMMA PoolsSmall ==
  ASSUME PoolsInv, NEW t \in Threads, NEW c \in SizeClasses,
         Len(ManagerOf(t)[c]) < MAX_POOLS,
         pool_mgr' = [pool_mgr EXCEPT ![t] = [ManagerOf(t) EXCEPT
           ![c] = Append(ManagerOf(t)[c], [pool |-> NewPool, used |-> 1])]],
         heap' = WithPool(NewPool), tiny_pools' = tiny_pools
  PROVE  PoolsInv'
<1>1. PICK p, old, e : p = NewPool /\ old = ManagerOf(t) /\ e = [pool |-> p, used |-> 1]
  OBVIOUS
<1>2. p \in Nat /\ p # NULL /\ e \in Entry /\ e.pool = p
  BY <1>1, NothingFound, ConstantsTyped DEF Entry
<1>3. old \in Manager /\ \A d \in SizeClasses : Len(old[d]) <= MAX_POOLS /\ old[d] \in Seq(Entry)
  <2>1. CASE pool_mgr[t] = NULL
    <3>1. old = [d \in SizeClasses |-> <<>>]
      BY <1>1, <2>1 DEF ManagerOf
    <3>2. QED BY <3>1, ConstantsTyped DEF Manager
  <2>2. CASE pool_mgr[t] # NULL
    BY <1>1, <2>2 DEF ManagerOf, PoolsInv, CachesTyped, Manager
  <2>3. QED BY <2>1, <2>2
<1>4. PICK n : n = Len(old[c]) /\ n \in Nat /\ n + 1 \in 1 .. MAX_POOLS
  <2>1. Len(old[c]) \in Nat /\ Len(old[c]) < MAX_POOLS
    BY <1>1, <1>3, LenProperties
  <2>2. QED BY <2>1, ConstantsTyped
<1>5. PICK s : s = Append(old[c], e)
  OBVIOUS
<1>6. /\ s \in Seq(Entry) /\ Len(s) = n + 1 /\ DOMAIN s = 1 .. n + 1
      /\ \A i \in 1 .. n : s[i] = old[c][i]
      /\ s[n + 1] = e /\ DOMAIN old[c] = 1 .. n
  BY <1>2, <1>3, <1>4, <1>5, AppendProperties, LenProperties
<1>7. PICK new : new = [old EXCEPT ![c] = s]
  OBVIOUS
<1>8. /\ new \in Manager /\ new[c] = s
      /\ \A d \in SizeClasses : d # c => new[d] = old[d]
  BY <1>3, <1>6, <1>7 DEF Manager
<1>9. /\ pool_mgr' \in [Threads -> Manager \cup {NULL}]
      /\ pool_mgr'[t] = new /\ new # NULL
      /\ \A u \in Threads : u # t => pool_mgr'[u] = pool_mgr[u]
  BY <1>1, <1>5, <1>7, <1>8, ConstantsTyped DEF PoolsInv, CachesTyped
<1>10. \A u \in Threads, d \in SizeClasses : pool_mgr'[u] # NULL => Len(pool_mgr'[u][d]) <= MAX_POOLS
  <2>1. \A d \in SizeClasses : Len(new[d]) <= MAX_POOLS
    BY <1>3, <1>4, <1>6, <1>8
  <2>2. QED BY <1>9, <2>1 DEF PoolsInv, CachesTyped
<1> DEFINE Was(q, u, d, i) ==
             pool_mgr[u] # NULL /\ i \in DOMAIN pool_mgr[u][d] /\ pool_mgr[u][d][i].pool = q
           Is(q, u, d, i) ==
             pool_mgr'[u] # NULL /\ i \in DOMAIN pool_mgr'[u][d] /\ pool_mgr'[u][d][i].pool = q
<1>11. ASSUME NEW q, NEW u \in Threads, NEW d \in SizeClasses, NEW i \in 1 .. MAX_POOLS
       PROVE  Is(q, u, d, i) <=> Was(q, u, d, i) \/ (q = p /\ u = t /\ d = c /\ i = n + 1)
  <2>1. CASE u # t
    BY <1>9, <2>1
  <2>2. CASE u = t /\ d # c
    <3>1. pool_mgr'[u] # NULL /\ pool_mgr'[u][d] = old[d]
      BY <1>8, <1>9, <2>2
    <3>2. pool_mgr[u] # NULL => pool_mgr[u] = old
      BY <1>1, <2>2 DEF ManagerOf
    <3>3. i \in DOMAIN old[d] => pool_mgr[u] # NULL
      BY <1>1, <2>2 DEF ManagerOf
    <3>4. QED BY <2>2, <3>1, <3>2, <3>3
  <2>3. CASE u = t /\ d = c
    <3>1. pool_mgr'[u] # NULL /\ pool_mgr'[u][d] = s
      BY <1>8, <1>9, <2>3
    <3>2. pool_mgr[u] # NULL => pool_mgr[u] = old
      BY <1>1, <2>3 DEF ManagerOf
    <3>3. i \in DOMAIN old[d] => pool_mgr[u] # NULL
      BY <1>1, <2>3 DEF ManagerOf
    <3>4. CASE i = n + 1
      <4>1. i \in DOMAIN s /\ s[i].pool = p /\ i \notin DOMAIN old[d]
        BY <1>2, <1>4, <1>6, <2>3, <3>4
      <4>2. QED BY <2>3, <3>1, <3>2, <3>4, <4>1
    <3>5. CASE i # n + 1
      <4>1. i \in DOMAIN s <=> i \in DOMAIN old[d]
        BY <1>4, <1>6, <2>3, <3>5
      <4>2. i \in DOMAIN s => s[i] = old[d][i]
        BY <1>4, <1>6, <2>3, <3>5
      <4>3. QED BY <3>1, <3>2, <3>3, <3>5, <4>1, <4>2
    <3>6. QED BY <3>4, <3>5
  <2>4. QED BY <2>1, <2>2, <2>3
<1>12. ASSUME NEW q, NEW x \in Threads \X SizeClasses \X (1 .. MAX_POOLS)
       PROVE  (/\ pool_mgr'[x[1]] # NULL
               /\ x[3] \in DOMAIN pool_mgr'[x[1]][x[2]]
               /\ pool_mgr'[x[1]][x[2]][x[3]].pool = q)
              <=> \/ /\ pool_mgr[x[1]] # NULL
                     /\ x[3] \in DOMAIN pool_mgr[x[1]][x[2]]
                     /\ pool_mgr[x[1]][x[2]][x[3]].pool = q
                  \/ q = p /\ x = <<t, c, n + 1>>
  <2>1. PICK u \in Threads, d \in SizeClasses, i \in 1 .. MAX_POOLS : x = <<u, d, i>>
    OBVIOUS
  <2>2. x[1] = u /\ x[2] = d /\ x[3] = i /\ (x = <<t, c, n + 1>> <=> u = t /\ d = c /\ i = n + 1)
    BY <2>1
  <2> HIDE DEF Was, Is
  <2>3. Is(q, u, d, i) <=> Was(q, u, d, i) \/ (q = p /\ u = t /\ d = c /\ i = n + 1)
    BY <1>11
  <2> USE DEF Was, Is
  <2>4. QED BY <2>2, <2>3, Zenon
<1>13. Holders(p)' = Holders(p) \cup {<<t, c, n + 1>>}
  <2>1. <<t, c, n + 1>> \in Threads \X SizeClasses \X (1 .. MAX_POOLS)
    BY <1>4
  <2>2. ASSUME NEW x PROVE x \in Holders(p)' <=> x \in Holders(p) \/ x = <<t, c, n + 1>>
    <3>1. CASE x \in Threads \X SizeClasses \X (1 .. MAX_POOLS)
      BY <1>12, <3>1 DEF Holders, SizeClasses
    <3>2. CASE x \notin Threads \X SizeClasses \X (1 .. MAX_POOLS)
      BY <2>1, <3>2 DEF Holders, SizeClasses
    <3>3. QED BY <3>1, <3>2
  <2>3. QED BY <2>2
<1>14. ASSUME NEW q \in Nat, q # p PROVE Holders(q)' = Holders(q)
  <2>1. ASSUME NEW x PROVE x \in Holders(q)' <=> x \in Holders(q)
    <3>1. CASE x \in Threads \X SizeClasses \X (1 .. MAX_POOLS)
      BY <1>12, <1>14, <3>1 DEF Holders, SizeClasses
    <3>2. CASE x \notin Threads \X SizeClasses \X (1 .. MAX_POOLS)
      BY <3>2 DEF Holders, SizeClasses
    <3>3. QED BY <3>1, <3>2
  <2>2. QED BY <2>1
<1>15. /\ HeldOnce'
       /\ DOMAIN heap' \subseteq Nat /\ IsFiniteSet(DOMAIN heap')
       /\ heap' = [q \in DOMAIN heap' |-> {}]
  <2>1. PICK y : y = <<t, c, n + 1>>
    OBVIOUS
  <2>2. p = NewPool /\ heap' = WithPool(p) /\ Holders(p)' = Holders(p) \cup {y}
    BY <1>1, <1>13, <2>1
  <2>3. QED BY <1>14, <2>2, PoolAdded
<1>16. CachesTyped'
  BY <1>9, <1>10, <1>15 DEF PoolsInv, CachesTyped
<1>17. QED BY <1>15, <1>16 DEF PoolsInv

\* cleanup deletes the pools of its thread and no other.
LEMMA PoolsCleanup == ASSUME PoolsInv, NEW t \in Threads, cleanup(t) PROVE PoolsInv'
<1> DEFINE small == IF pool_mgr[t] = NULL THEN {}
                    ELSE {e.pool : e \in UNION {Range(pool_mgr[t][c]) : c \in SizeClasses}}
           mine  == Range(tiny_pools[t]) \cup small
<1>1. /\ tiny_pools \in [Threads -> [TinyClasses -> Nat \cup {NULL}]]
      /\ pool_mgr \in [Threads -> Manager \cup {NULL}]
  BY DEF PoolsInv, CachesTyped
<1>2. /\ heap' = Restrict(heap, DOMAIN heap \ mine)
      /\ tiny_pools' = [tiny_pools EXCEPT ![t] = [c \in TinyClasses |-> NULL]]
      /\ pool_mgr' = [pool_mgr EXCEPT ![t] = NULL]
  BY DEF cleanup, SizeClasses, TinyClasses
<1>3. DOMAIN heap' = DOMAIN heap \ mine /\ heap' = [p \in DOMAIN heap' |-> {}]
  <2>1. heap' = [p \in DOMAIN heap \ mine |-> heap[p]]
    BY <1>2 DEF Restrict
  <2> HIDE DEF mine
  <2>2. QED BY <2>1 DEF PoolsInv, CachesTyped
<1>4. DOMAIN heap' \subseteq Nat /\ IsFiniteSet(DOMAIN heap')
  <2> HIDE DEF mine
  <2>1. QED BY <1>3, FS_Subset DEF PoolsInv, CachesTyped
<1>5. /\ tiny_pools' \in [Threads -> [TinyClasses -> Nat \cup {NULL}]]
      /\ \A c \in TinyClasses : tiny_pools'[t][c] = NULL
      /\ \A u \in Threads : u # t => tiny_pools'[u] = tiny_pools[u]
  BY <1>1, <1>2
<1>6. /\ pool_mgr' \in [Threads -> Manager \cup {NULL}]
      /\ pool_mgr'[t] = NULL
      /\ \A u \in Threads : u # t => pool_mgr'[u] = pool_mgr[u]
  BY <1>1, <1>2
<1>7. CachesTyped'
  BY <1>3, <1>4, <1>5, <1>6 DEF PoolsInv, CachesTyped
<1>8. ASSUME NEW p \in Nat PROVE p \in mine <=> \E x \in Holders(p) : x[1] = t
  <2>1. p # NULL
    BY ConstantsTyped
  <2>2. p \in Range(tiny_pools[t]) <=> \E c \in TinyClasses : tiny_pools[t][c] = p
    BY <1>1 DEF Range
  <2>3. p \in small <=> \E c \in SizeClasses, i \in 1 .. MAX_POOLS :
          pool_mgr[t] # NULL /\ i \in DOMAIN pool_mgr[t][c] /\ pool_mgr[t][c][i].pool = p
    <3>1. CASE pool_mgr[t] = NULL
      BY <3>1
    <3>2. CASE pool_mgr[t] # NULL
      <4>1. \A c \in SizeClasses : \A i \in DOMAIN pool_mgr[t][c] : i \in 1 .. MAX_POOLS
        <5>1. SUFFICES ASSUME NEW c \in SizeClasses, NEW i \in DOMAIN pool_mgr[t][c]
                       PROVE  i \in 1 .. MAX_POOLS
          OBVIOUS
        <5>2. pool_mgr[t][c] \in Seq(Entry)
          BY <1>1, <3>2 DEF Manager
        <5>3. Len(pool_mgr[t][c]) <= MAX_POOLS
          BY <3>2 DEF PoolsInv, CachesTyped
        <5>4. i \in 1 .. Len(pool_mgr[t][c]) /\ Len(pool_mgr[t][c]) \in Nat
          BY <5>1, <5>2, LenProperties
        <5>5. QED BY <5>3, <5>4, ConstantsTyped
      <4>2. p \in small <=> \E c \in SizeClasses : \E i \in DOMAIN pool_mgr[t][c] :
                              pool_mgr[t][c][i].pool = p
        BY <3>2 DEF Range
      <4>3. QED BY <3>2, <4>1, <4>2
    <3>3. QED BY <3>1, <3>2
  <2>4. (\E x \in Holders(p) : x[1] = t) <=>
          \/ \E c \in TinyClasses : tiny_pools[t][c] = p
          \/ \E c \in SizeClasses, i \in 1 .. MAX_POOLS :
               pool_mgr[t] # NULL /\ i \in DOMAIN pool_mgr[t][c] /\ pool_mgr[t][c][i].pool = p
    <3>1. \A c \in TinyClasses : tiny_pools[t][c] = p => <<t, c, 0>> \in Holders(p)
      BY DEF Holders, TinyClasses
    <3>2. \A c \in SizeClasses, i \in 1 .. MAX_POOLS :
            pool_mgr[t] # NULL /\ i \in DOMAIN pool_mgr[t][c] /\ pool_mgr[t][c][i].pool = p
            => <<t, c, i>> \in Holders(p)
      BY DEF Holders, SizeClasses
    <3>3. ASSUME NEW x \in Holders(p), x[1] = t
          PROVE  \/ \E c \in TinyClasses : tiny_pools[t][c] = p
                 \/ \E c \in SizeClasses, i \in 1 .. MAX_POOLS :
                      pool_mgr[t] # NULL /\ i \in DOMAIN pool_mgr[t][c] /\ pool_mgr[t][c][i].pool = p
      BY <3>3 DEF Holders, SizeClasses, TinyClasses
    <3> HIDE DEF small
    <3>4. QED BY <3>1, <3>2, <3>3
  <2> HIDE DEF small
  <2>5. QED BY <2>2, <2>3, <2>4
<1> HIDE DEF small, mine
<1>9. ASSUME NEW p \in Nat PROVE Holders(p)' = {x \in Holders(p) : x[1] # t}
  <2>1. p # NULL
    BY ConstantsTyped
  <2>2. \A u \in Threads, c \in TinyClasses :
          tiny_pools'[u][c] = p <=> (u # t /\ tiny_pools[u][c] = p)
    BY <1>5, <2>1
  <2>3. \A u \in Threads : pool_mgr'[u] # NULL <=> (u # t /\ pool_mgr[u] # NULL)
    BY <1>6
  <2>4. QED BY <1>6, <2>2, <2>3 DEF Holders, TinyClasses, SizeClasses
<1>10. HeldOnce'
  <2>1. ASSUME NEW p \in DOMAIN heap' PROVE \E x : Holders(p)' = {x}
    <3>1. p \in DOMAIN heap /\ p \notin mine /\ p \in Nat
      BY <1>3, <1>4, <2>1
    <3>2. PICK x : Holders(p) = {x}
      BY <3>1 DEF PoolsInv, HeldOnce
    <3>3. x[1] # t
      BY <1>8, <3>1, <3>2
    <3>4. QED BY <1>9, <3>1, <3>2, <3>3
  <2>2. ASSUME NEW p \in Nat, Holders(p)' # {} PROVE p \in DOMAIN heap'
    <3>1. PICK x \in Holders(p) : x[1] # t
      BY <1>9, <2>2
    <3>2. p \in DOMAIN heap
      BY <2>2, <3>1 DEF PoolsInv, HeldOnce
    <3>3. PICK y : Holders(p) = {y}
      BY <3>2 DEF PoolsInv, HeldOnce
    <3>4. p \notin mine
      BY <1>8, <2>2, <3>1, <3>3
    <3>5. QED BY <1>3, <3>2, <3>4
  <2>3. QED BY <2>1, <2>2 DEF HeldOnce
<1>11. QED BY <1>7, <1>10 DEF PoolsInv

\* The caches and the heap as they are.
LEMMA PoolsKept == ASSUME PoolsInv, UNCHANGED cache PROVE PoolsInv'
<1>1. UNCHANGED <<tiny_pools, pool_mgr, heap>>
  BY DEF cache
<1>2. ASSUME NEW p PROVE Holders(p)' = Holders(p)
  BY <1>1 DEF Holders
<1>3. CachesTyped'
  BY <1>1 DEF PoolsInv, CachesTyped
<1>4. QED BY <1>1, <1>2, <1>3 DEF PoolsInv, HeldOnce

-----------------------------------------------------------------------------
(* The pages.                                                              *)

\* A header keeps the size of any block.
LEMMA HeaderExact ==
  ASSUME NEW s \in 1 .. MAX_SIZE
  PROVE  Header(s, 255, TRUE) = LargeHeader(s)
<1>1. s % SIZE_SPACE = s
  BY ConstantsTyped
<1>2. QED BY <1>1 DEF Header, LargeHeader

\* A block has a first page.
LEMMA FirstPage ==
  ASSUME NEW r, NEW s \in 1 .. MAX_SIZE
  PROVE  <<r, 0>> \in Pages(r, s)
<1>1. PICK P, n : P = PAGE /\ P \in Nat \ {0} /\ n = s + HEADER /\ n \in Nat \ {0}
  BY ConstantsTyped
<1>2. (n + P - 1) \div P >= 1 /\ (n + P - 1) \div P \in Nat
  <2>1. PICK q : q = (n + P - 1) \div P
    OBVIOUS
  <2>2. q \in Nat /\ n + P - 1 < (q + 1) * P
    BY <1>1, <2>1
  <2>3. q # 0
    BY <1>1, <2>2
  <2>4. QED BY <2>1, <2>2, <2>3
<1>3. 0 \in 0 .. alloc_size(s) - 1
  BY <1>1, <1>2 DEF alloc_size
<1>4. QED BY <1>3 DEF Pages

\* What is in a large block.
LEMMA BlockParts ==
  ASSUME PagesInv, NEW b \in blocks
  PROVE  /\ b.region \in Nat /\ b.size \in 1 .. MAX_SIZE /\ b.size >= LARGE_THRESHOLD
         /\ b.header.mmap = TRUE /\ b.header.size = b.size
BY DEF PagesInv, Block, LargeHeader

\* alloc_large maps pages that no block has.
LEMMA PagesLarge ==
  ASSUME PagesInv, NEW size \in 1 .. MAX_SIZE, size >= LARGE_THRESHOLD, alloc_large(size)
  PROVE  PagesInv'
<1>1. CASE UNCHANGED <<mapped, blocks>>
  BY <1>1 DEF PagesInv
<1>2. CASE ~UNCHANGED <<mapped, blocks>>
  <2>1. PICK r : r = NewRegion
    OBVIOUS
  <2>2. r \in Nat /\ r \notin {page[1] : page \in mapped}
    BY <2>1, UnusedFresh DEF PagesInv, NewRegion
  <2>3. PICK new : new = Block(r, 0, size, LargeHeader(size))
    OBVIOUS
  <2>4. new.region = r /\ new.size = size
    BY <2>3 DEF Block
  <2>5. mapped' = mapped \cup Pages(r, size) /\ blocks' = blocks \cup {new}
    <3>1. /\ mapped' = mapped \cup {<<r, i>> : i \in 0 .. alloc_size(size) - 1}
          /\ blocks' = blocks \cup {Block(r, 0, size, Header(size, 255, TRUE))}
      <4>1. /\ mapped' = mapped \cup {<<NewRegion, i>> : i \in 0 .. alloc_size(size) - 1}
            /\ blocks' = blocks \cup {Block(NewRegion, 0, size, Header(size, 255, TRUE))}
        BY <1>2 DEF alloc_large
      <4>2. QED BY <2>1, <4>1, Zenon
    <3>2. QED BY <2>3, <3>1, HeaderExact DEF Pages
  <2>6. \A b \in blocks' : \E q \in Nat, s \in 1 .. MAX_SIZE :
          s >= LARGE_THRESHOLD /\ b = Block(q, 0, s, LargeHeader(s))
    BY <2>2, <2>3, <2>5 DEF PagesInv
  <2>7. mapped' = UNION {Pages(b.region, b.size) : b \in blocks'}
    BY <2>4, <2>5 DEF PagesInv
  <2>8. \A b \in blocks : b.region # r
    <3>1. SUFFICES ASSUME NEW b \in blocks, b.region = r PROVE FALSE
      OBVIOUS
    <3>2. <<r, 0>> \in Pages(b.region, b.size)
      BY <3>1, BlockParts, FirstPage
    <3>3. <<r, 0>> \in mapped
      BY <3>1, <3>2 DEF PagesInv
    <3>4. <<r, 0>>[1] = r
      OBVIOUS
    <3>5. QED BY <2>2, <3>3, <3>4
  <2>9. \A a, b \in blocks' : a.region = b.region => a = b
    BY <2>4, <2>5, <2>8 DEF PagesInv
  <2>10. IsFiniteSet({page[1] : page \in mapped'})
    <3>1. {page[1] : page \in mapped'} = {page[1] : page \in mapped} \cup {r}
      <4>1. \A page \in Pages(r, size) : page[1] = r
        BY DEF Pages
      <4>2. <<r, 0>> \in Pages(r, size)
        BY FirstPage
      <4>3. QED BY <2>5, <4>1, <4>2
    <3>2. PICK S : S = {page[1] : page \in mapped}
      OBVIOUS
    <3>3. IsFiniteSet(S \cup {r})
      <4>1. IsFiniteSet(S)
        BY <3>2 DEF PagesInv
      <4>2. QED BY <4>1, FS_AddElement
    <3>4. QED BY <3>1, <3>2, <3>3
  <2>11. QED BY <2>6, <2>7, <2>9, <2>10 DEF PagesInv
<1>3. QED BY <1>1, <1>2

\* deallocate unmaps the pages of its block.
LEMMA PagesFree == ASSUME PagesInv, NEW b \in blocks, deallocate(b) PROVE PagesInv'
<1>1. mapped' = mapped \ Pages(b.region, b.size) /\ blocks' = blocks \ {b}
  BY BlockParts DEF deallocate, free_large, Pages
<1>2. mapped' = UNION {Pages(a.region, a.size) : a \in blocks'}
  <2>1. ASSUME NEW a \in blocks', NEW page \in Pages(a.region, a.size)
        PROVE  page \notin Pages(b.region, b.size)
    <3>1. a.region # b.region
      BY <1>1, <2>1 DEF PagesInv
    <3>2. page[1] = a.region
      BY <2>1 DEF Pages
    <3>3. QED BY <3>1, <3>2 DEF Pages
  <2>2. QED BY <1>1, <2>1 DEF PagesInv
<1>3. IsFiniteSet({page[1] : page \in mapped'})
  <2>1. {page[1] : page \in mapped'} \subseteq {page[1] : page \in mapped}
    BY <1>1
  <2>2. QED BY <2>1, FS_Subset DEF PagesInv
<1>4. QED BY <1>1, <1>2, <1>3 DEF PagesInv

-----------------------------------------------------------------------------
(* The theorems.                                                           *)

\* An allocator of which no thread has used anything.
LEMMA AllocatorInit == Init => PoolsInv /\ PagesInv
<1> SUFFICES ASSUME Init PROVE PoolsInv /\ PagesInv
  OBVIOUS
<1>1. DOMAIN heap = {} /\ heap = [p \in DOMAIN heap |-> {}]
  BY DEF Init
<1>2. CachesTyped
  BY <1>1, FS_EmptySet DEF Init, CachesTyped, TinyClasses
<1>3. \A p \in Nat : Holders(p) = {}
  BY ConstantsTyped DEF Init, Holders
<1>4. HeldOnce
  BY <1>1, <1>3 DEF HeldOnce
<1>5. PagesInv
  <2>1. {page[1] : page \in mapped} = {}
    BY DEF Init
  <2>2. QED BY <2>1, FS_EmptySet DEF Init, PagesInv
<1>6. QED BY <1>2, <1>4, <1>5 DEF PoolsInv

\* Every call keeps pools and pages in order.
LEMMA AllocatorNext ==
  ASSUME PoolsInv, PagesInv, [Next]_vars
  PROVE  PoolsInv' /\ PagesInv'
<1>1. ASSUME UNCHANGED <<mapped, blocks>> PROVE PagesInv'
  BY <1>1 DEF PagesInv
<1>2. ASSUME NEW t \in Threads, cleanup(t) PROVE PoolsInv' /\ PagesInv'
  <2>1. UNCHANGED <<mapped, blocks>>
    BY <1>2 DEF cleanup
  <2>2. QED BY <1>1, <1>2, <2>1, PoolsCleanup
<1>3. ASSUME NEW t \in Threads, NEW size \in Nat \ {0}, alloc_tiny(t, size)
      PROVE  PoolsInv' /\ PagesInv'
  <2>1. /\ UNCHANGED <<pool_mgr, mapped, blocks>>
        /\ \/ UNCHANGED <<tiny_pools, heap>>
           \/ \E c \in TinyClasses : /\ tiny_pools[t][c] = NULL
                                     /\ tiny_pools' = [tiny_pools EXCEPT ![t][c] = NewPool]
                                     /\ heap' = WithPool(NewPool)
    BY <1>3, TinyEffect
  <2>2. CASE UNCHANGED <<tiny_pools, heap>>
    BY <1>1, <2>1, <2>2, PoolsKept DEF cache
  <2>3. CASE \E c \in TinyClasses : /\ tiny_pools[t][c] = NULL
                                    /\ tiny_pools' = [tiny_pools EXCEPT ![t][c] = NewPool]
                                    /\ heap' = WithPool(NewPool)
    BY <1>1, <2>1, <2>3, PoolsTiny
  <2>4. QED BY <2>1, <2>2, <2>3
<1>4. ASSUME NEW t \in Threads, NEW size \in TINY_THRESHOLD + 1 .. LARGE_THRESHOLD - 1,
             alloc_small(t, size)
      PROVE  PoolsInv' /\ PagesInv'
  <2>1. UNCHANGED <<tiny_pools, mapped, blocks>>
    BY <1>4, SmallEffect
  <2>2. CASE UNCHANGED <<pool_mgr, heap>>
    BY <1>1, <2>1, <2>2, PoolsKept DEF cache
  <2>3. CASE pool_mgr' = [pool_mgr EXCEPT ![t] = ManagerOf(t)] /\ heap' = heap
    BY <1>1, <2>1, <2>3, PoolsManager
  <2>4. ASSUME NEW c \in SizeClasses,
               Len(ManagerOf(t)[c]) < MAX_POOLS,
               pool_mgr' = [pool_mgr EXCEPT ![t] = [ManagerOf(t) EXCEPT
                 ![c] = Append(ManagerOf(t)[c], [pool |-> NewPool, used |-> 1])]],
               heap' = WithPool(NewPool)
        PROVE  PoolsInv' /\ PagesInv'
    BY <1>1, <2>1, <2>4, PoolsSmall
  <2>5. QED BY <1>4, <2>2, <2>3, <2>4, SmallEffect
<1>5. ASSUME NEW size \in 1 .. MAX_SIZE, size >= LARGE_THRESHOLD, alloc_large(size)
      PROVE  PoolsInv' /\ PagesInv'
  <2>1. UNCHANGED cache
    BY <1>5 DEF alloc_large
  <2>2. QED BY <1>5, <2>1, PoolsKept, PagesLarge
<1>6. ASSUME NEW b \in blocks, deallocate(b) PROVE PoolsInv' /\ PagesInv'
  <2>1. UNCHANGED cache
    BY <1>6 DEF deallocate
  <2>2. QED BY <1>6, <2>1, PoolsKept, PagesFree
<1>7. CASE UNCHANGED vars
  BY <1>1, <1>7, PoolsKept DEF vars, cache
<1>8. ASSUME NEW t \in Threads, NEW size \in Sizes, allocate(t, size)
      PROVE  PoolsInv' /\ PagesInv'
  <2>1. size \in Nat
    BY AllocatorAssumption
  <2>2. CASE size \in 1 .. MAX_SIZE /\ size <= TINY_THRESHOLD /\ alloc_tiny(t, size)
    BY <1>3, <2>1, <2>2
  <2>3. CASE /\ size \in 1 .. MAX_SIZE
             /\ size > TINY_THRESHOLD /\ size < LARGE_THRESHOLD
             /\ alloc_small(t, size)
    <3>1. size \in TINY_THRESHOLD + 1 .. LARGE_THRESHOLD - 1
      BY <2>1, <2>3, ConstantsTyped
    <3>2. QED BY <1>4, <2>3, <3>1
  <2>4. CASE size \in 1 .. MAX_SIZE /\ size >= LARGE_THRESHOLD /\ alloc_large(size)
    BY <1>5, <2>4
  <2>5. QED BY <1>7, <1>8, <2>2, <2>3, <2>4 DEF allocate
<1>9. QED BY <1>2, <1>6, <1>7, <1>8 DEF Next

\* In every reachable state every pool is held once, every block is a mapping of its
\* own, and no pool has a free slot.
LEMMA AllocatorAlways == Spec => [](PoolsInv /\ PagesInv)
<1>1. QED BY AllocatorInit, AllocatorNext, PTL DEF Spec

\* No tiny or small request is ever answered: every block is a mapping of its own.
THEOREM OnlyLargeCorrect == Spec => []OnlyLargeServed
<1>1. PagesInv => OnlyLargeServed
  BY BlockParts DEF OnlyLargeServed
<1>2. QED BY <1>1, AllocatorAlways, PTL

\* Through any calls, memory is neither lost nor released twice: the pages mapped are
\* those that hold a byte of a block or its header, and every pool is held at one
\* place of one thread.
THEOREM MemoryCorrect == Spec => []MemoryAccounted
<1>1. ASSUME PoolsInv, PagesInv PROVE MemoryAccounted
  <2>1. mapped = UNION {{<<b.region, i \div PAGE>> : i \in 0 .. HEADER + b.size - 1} :
                          b \in {x \in blocks : x.header.mmap}}
    <3>1. {x \in blocks : x.header.mmap} = blocks
      BY <1>1, BlockParts
    <3>2. ASSUME NEW b \in blocks
          PROVE  {<<b.region, i \div PAGE>> : i \in 0 .. HEADER + b.size - 1} = Pages(b.region, b.size)
      <4>1. b.size \in Nat
        <5>1. b.size \in 1 .. MAX_SIZE
          BY <1>1, <3>2, BlockParts
        <5>2. QED BY <5>1, ConstantsTyped
      <4>2. Holding(b.region, HEADER + b.size) = Pages(b.region, b.size)
        BY <4>1, PagesHold
      <4>3. HEADER + b.size - 1 = (HEADER + b.size) - 1
        BY <4>1, ConstantsTyped
      <4>4. QED BY <4>2, <4>3, Zenon DEF Holding
    <3>3. QED BY <1>1, <3>1, <3>2 DEF PagesInv
  <2>2. \A p \in DOMAIN heap : Cardinality(Holders(p)) = 1
    BY <1>1, FS_Singleton DEF PoolsInv, HeldOnce
  <2>3. ASSUME NEW t \in Threads PROVE Range(tiny_pools[t]) \subseteq DOMAIN heap \cup {NULL}
    <3>1. SUFFICES ASSUME NEW c \in TinyClasses, tiny_pools[t][c] # NULL
                   PROVE  tiny_pools[t][c] \in DOMAIN heap
      BY <1>1 DEF Range, PoolsInv, CachesTyped
    <3>2. tiny_pools[t][c] \in Nat
      BY <1>1, <3>1 DEF PoolsInv, CachesTyped
    <3>3. <<t, c, 0>> \in Holders(tiny_pools[t][c])
      BY DEF Holders, TinyClasses
    <3>4. QED BY <1>1, <3>2, <3>3 DEF PoolsInv, HeldOnce
  <2>4. ASSUME NEW t \in Threads, pool_mgr[t] # NULL, NEW c \in SizeClasses
        PROVE  /\ Len(pool_mgr[t][c]) <= MAX_POOLS
               /\ {e.pool : e \in Range(pool_mgr[t][c])} \subseteq DOMAIN heap
    <3>1. Len(pool_mgr[t][c]) <= MAX_POOLS /\ pool_mgr[t][c] \in Seq(Entry)
      BY <1>1, <2>4 DEF PoolsInv, CachesTyped, Manager
    <3>2. ASSUME NEW i \in DOMAIN pool_mgr[t][c] PROVE pool_mgr[t][c][i].pool \in DOMAIN heap
      <4>1. i \in 1 .. Len(pool_mgr[t][c]) /\ Len(pool_mgr[t][c]) \in Nat
        BY <3>1, <3>2, LenProperties
      <4>2. pool_mgr[t][c][i] \in Entry
        BY <3>1, <4>1
      <4>3. pool_mgr[t][c][i].pool \in Nat
        BY <4>2 DEF Entry
      <4>4. i \in 1 .. MAX_POOLS
        BY <3>1, <4>1, ConstantsTyped
      <4>5. <<t, c, i>> \in Holders(pool_mgr[t][c][i].pool)
        BY <2>4, <3>2, <4>4 DEF Holders, SizeClasses
      <4>6. QED BY <1>1, <4>3, <4>5 DEF PoolsInv, HeldOnce
    <3>3. QED BY <3>1, <3>2 DEF Range
  <2>5. QED BY <2>1, <2>2, <2>3, <2>4 DEF MemoryAccounted, SizeClasses
<1>2. QED BY <1>1, AllocatorAlways, PTL
=============================================================================
