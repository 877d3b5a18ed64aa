------------------------------ MODULE Allocator ------------------------------
(***************************************************************************)
(* ytl::allocator (memory/include/memory.h, allocator.inl): allocate,      *)
(* deallocate and cleanup, with the pools each thread keeps for tiny and   *)
(* small sizes and the pages mapped for large ones.                        *)
(*                                                                         *)
(* The pools belong to one thread, so a call is one step.  A pool is its   *)
(* bitmap, the set of its free slots.  OnlyLargeServed shows that no slot  *)
(* is ever given out, so what would become of one afterwards (free_tiny,   *)
(* free_small, the caches they fill) is not modelled.                      *)
(***************************************************************************)
EXTENDS Integers, Sequences, FiniteSets, FiniteSetsExt, Functions

CONSTANTS
  Threads,          \* each has a thread_cache
  Sizes,            \* sizes given to allocate
  TINY_THRESHOLD, LARGE_THRESHOLD, MAX_SIZE,
  SIZE_SPACE,       \* SIZE_MASK + 1
  PAGE,             \* ps
  LINE,             \* cls
  HEADER,           \* sizeof(block_header)
  TINY_STEP,        \* the sizes of one tiny class (8)
  TINY_CLASSES,     \* tc
  SIZE_CLASSES,     \* sc
  MAX_POOLS,        \* mp
  WORDS, BITS,      \* words of a bitmap, bits of a word
  MaxBlocks,        \* bound on the blocks in use
  NULL

ASSUME AllocatorAssumption ==
  /\ {TINY_THRESHOLD, LARGE_THRESHOLD, HEADER, TINY_CLASSES, SIZE_CLASSES, MAX_POOLS, MaxBlocks}
       \subseteq Nat
  /\ {PAGE, LINE, TINY_STEP, WORDS, BITS, MAX_SIZE, SIZE_SPACE} \subseteq Nat \ {0}
  /\ Sizes \subseteq Nat
  /\ MAX_SIZE < SIZE_SPACE
  /\ TINY_CLASSES <= 255
  /\ NULL \notin Nat /\ NULL \notin [0 .. SIZE_CLASSES - 1 -> Seq([pool : Nat, used : Nat])]

Log2(n) == CHOOSE k \in 0 .. n : 2^k <= n /\ n < 2^(k + 1)

\* size_class_table has an entry for every size that alloc_small is called with.
ASSUME SizeClassAssumption ==
  \A size \in TINY_THRESHOLD + 1 .. LARGE_THRESHOLD - 1 : Log2(size - 1) \in 0 .. SIZE_CLASSES - 1

VARIABLES
  tiny_pools,  \* per thread and tiny class, a pool or NULL
  pool_mgr,    \* per thread, the pool entries of every size class, or NULL
  heap,        \* the pools there are, with the free slots of each
  mapped,      \* the pages mapped for large blocks, as <<region, page>>
  blocks,      \* the blocks the program has, with what is in their headers
  terminated   \* an exception left a noexcept function

vars == <<tiny_pools, pool_mgr, heap, mapped, blocks, terminated>>
cache == <<tiny_pools, pool_mgr, heap>>

\* A place where nothing is, for a new pool or mapping.
Unused(taken) == CHOOSE n \in 0 .. Cardinality(taken) : n \notin taken
NewPool       == Unused(DOMAIN heap)
NewRegion     == Unused({page[1] : page \in mapped})

Header(size, class, mmap) == [size |-> size % SIZE_SPACE, class |-> class, mmap |-> mmap]

Block(region, slot, size, header) ==
  [region |-> region, slot |-> slot, size |-> size, header |-> header]

\* Mutant: every slot of a new pool is free.
all_free == 0 .. WORDS * BITS - 1

\* bitmap is value-initialised: all words are 0, and a 0 bit is a slot in use.
new_bitmap == {}

Init ==
  /\ tiny_pools = [t \in Threads |-> [c \in 0 .. TINY_CLASSES - 1 |-> NULL]]
  /\ pool_mgr = [t \in Threads |-> NULL]
  /\ heap = [p \in {} |-> new_bitmap]
  /\ mapped = {}
  /\ blocks = {}
  /\ terminated = FALSE

-----------------------------------------------------------------------------
(* Pools.                                                                  *)

get_alignment_for_size(size) ==
  IF size <= LINE THEN LINE ELSE IF size >= PAGE THEN PAGE ELSE 2^(Log2(size - 1) + 1)

\* The lowest free bit of one of the words looked at.  Words are looked at in
\* pairs whose number i fits the alignment; an alignment below a word's bits makes
\* align_mask all ones, and only the first pair is looked at.  compare_exchange_weak
\* may fail for no reason, and then the next word is tried.
find_free_bits(free, size) ==
  LET step      == get_alignment_for_size(size) \div BITS
      fits(i)   == IF step = 0 THEN i = 0 ELSE i % step = 0
      looked_at == {w \in 0 .. WORDS - 1 : fits(2 * (w \div 2))}
      lowest(w) == Min({s \in free : s \div BITS = w})
  IN {lowest(w) : w \in {v \in looked_at : \E s \in free : s \div BITS = v}} \cup {NULL}

\* What the program gets from a look into pool p: a block, or nothing.
Served(p, found, size, header) ==
  blocks' = IF found = NULL THEN blocks ELSE blocks \cup {Block(p, found, size, header)}

\* The heap with a pool just made.
WithPool(p) == [q \in DOMAIN heap \cup {p} |-> IF q = p THEN new_bitmap ELSE heap[q]]

Taken(h, p, found) == [h EXCEPT ![p] = @ \ {found}]

terminate == terminated' = TRUE /\ UNCHANGED <<tiny_pools, pool_mgr, heap, mapped, blocks>>

\* new tiny_pool may throw, in a function that is noexcept.
alloc_tiny(t, size) ==
  LET class == ((size - 1) \div TINY_STEP) % 256
      old   == tiny_pools[t][class]
      p     == IF old = NULL THEN NewPool ELSE old
      h     == IF old = NULL THEN WithPool(p) ELSE heap
  IN
  \/ class >= TINY_CLASSES /\ UNCHANGED vars
  \/ class < TINY_CLASSES /\ old = NULL /\ terminate
  \/ /\ class < TINY_CLASSES
     /\ tiny_pools' = [tiny_pools EXCEPT ![t][class] = p]
     /\ \E found \in find_free_bits(h[p], size) :
          /\ heap' = Taken(h, p, found)
          /\ Served(p, found, size, Header(size, class, FALSE))
     /\ UNCHANGED <<pool_mgr, mapped, terminated>>

\* size_class_table[class].size, a uint16_t.
class_size(class) == 2^(class + 3) % 65536

\* The pool manager, made by the first call, and the one it becomes: an old pool
\* counts the block it gives; if none gives one, a new pool is added if there is
\* room and memory for it, and enters with used = 1 whether it gives a block or not.
alloc_small(t, size) ==
  LET class   == Log2(size - 1)
      mgr     == IF pool_mgr[t] = NULL THEN [c \in 0 .. SIZE_CLASSES - 1 |-> <<>>] ELSE pool_mgr[t]
      pools   == mgr[class]
      Find(p, h) == find_free_bits(h[p], class_size(class))
      header  == Header(class_size(class), class, FALSE)
      With(entries) == pool_mgr' = [pool_mgr EXCEPT ![t] = [mgr EXCEPT ![class] = entries]]
      AllPass == \A i \in DOMAIN pools : NULL \in Find(pools[i].pool, heap)
  IN
  \/ pool_mgr[t] = NULL /\ terminate
  \/ /\ UNCHANGED <<tiny_pools, mapped, terminated>>
     /\ \/ \E i \in DOMAIN pools : \E found \in Find(pools[i].pool, heap) \ {NULL} :
             /\ With([pools EXCEPT ![i].used = @ + 1])
             /\ heap' = Taken(heap, pools[i].pool, found)
             /\ Served(pools[i].pool, found, size, header)
        \/ /\ AllPass
           /\ With(pools)
           /\ UNCHANGED <<heap, blocks>>
        \/ /\ AllPass /\ Len(pools) < MAX_POOLS
           /\ With(Append(pools, [pool |-> NewPool, used |-> 1]))
           /\ LET h == WithPool(NewPool) IN
              \E found \in Find(NewPool, h) :
                /\ heap' = Taken(h, NewPool, found)
                /\ Served(NewPool, found, size, header)

-----------------------------------------------------------------------------
(* Large blocks.                                                           *)

\* The header and size bytes, rounded up to pages.
alloc_size(size) == (size + HEADER + PAGE - 1) \div PAGE

\* mmap may fail.
alloc_large(size) ==
  /\ UNCHANGED <<cache, terminated>>
  /\ \/ UNCHANGED <<mapped, blocks>>
     \/ /\ Cardinality(blocks) < MaxBlocks
        /\ mapped' = mapped \cup {<<NewRegion, i>> : i \in 0 .. alloc_size(size) - 1}
        /\ blocks' = blocks \cup {Block(NewRegion, 0, size, Header(size, 255, TRUE))}

\* Mutant: the header is not counted.
free_large_short(b) ==
  mapped' = mapped \ {<<b.region, i>> : i \in 0 .. ((b.header.size + PAGE - 1) \div PAGE) - 1}

free_large(b) ==
  mapped' = mapped \ {<<b.region, i>> : i \in 0 .. alloc_size(b.header.size) - 1}

-----------------------------------------------------------------------------
(* The calls of the program.                                               *)

\* Sizes up to SMALL_THRESHOLD and those between it and LARGE_THRESHOLD are
\* treated alike.
allocate(t, size) ==
  /\ ~terminated
  /\ \/ (size = 0 \/ size > MAX_SIZE) /\ UNCHANGED vars
     \/ size \in 1 .. MAX_SIZE /\ size <= TINY_THRESHOLD /\ alloc_tiny(t, size)
     \/ /\ size \in 1 .. MAX_SIZE
        /\ size > TINY_THRESHOLD /\ size < LARGE_THRESHOLD
        /\ alloc_small(t, size)
     \/ size \in 1 .. MAX_SIZE /\ size >= LARGE_THRESHOLD /\ alloc_large(size)

\* Any thread may give a block back.
deallocate(b) ==
  /\ ~terminated
  /\ b.header.class >= TINY_CLASSES /\ b.header.mmap
  /\ free_large(b)
  /\ blocks' = blocks \ {b}
  /\ UNCHANGED <<cache, terminated>>

cleanup(t) ==
  LET small == IF pool_mgr[t] = NULL THEN {}
               ELSE {e.pool : e \in UNION {Range(pool_mgr[t][c]) : c \in 0 .. SIZE_CLASSES - 1}}
  IN
  /\ ~terminated
  /\ heap' = Restrict(heap, DOMAIN heap \ (Range(tiny_pools[t]) \cup small))
  /\ tiny_pools' = [tiny_pools EXCEPT ![t] = [c \in 0 .. TINY_CLASSES - 1 |-> NULL]]
  /\ pool_mgr' = [pool_mgr EXCEPT ![t] = NULL]
  /\ UNCHANGED <<mapped, blocks, terminated>>

Next ==
  \/ \E t \in Threads : cleanup(t) \/ \E size \in Sizes : allocate(t, size)
  \/ \E b \in blocks : deallocate(b)

Spec == Init /\ [][Next]_vars
-----------------------------------------------------------------------------
(* Properties.                                                             *)

\* No tiny or small request is ever answered: pools are made and kept, but their
\* bitmaps start as all used (allocator.inl:172, 211) and nothing can free a slot,
\* so every block the program has is a mapping of its own.
OnlyLargeServed ==
  \A b \in blocks : b.header.mmap /\ b.size >= LARGE_THRESHOLD

\* The places of a thread_cache that hold pool p.
Holders(p) ==
  {x \in Threads \X (0 .. TINY_CLASSES - 1) \X {0} : tiny_pools[x[1]][x[2]] = p}
    \cup {x \in Threads \X (0 .. SIZE_CLASSES - 1) \X (1 .. MAX_POOLS) :
            /\ pool_mgr[x[1]] # NULL
            /\ x[3] \in DOMAIN pool_mgr[x[1]][x[2]]
            /\ pool_mgr[x[1]][x[2]][x[3]].pool = p}

\* Through any calls of allocate, failed ones too, deallocate and cleanup, memory is
\* neither lost nor released twice: the mapped pages are those that hold a byte of a
\* block or its header, although deallocate has only the header to tell how many
\* (allocator.inl:223-236, 294-304), and every pool is held at exactly one place of
\* one thread, a class never holding more than max_pools (allocator.inl:186-220, 350-381).
MemoryAccounted ==
  /\ mapped = UNION {{<<b.region, i \div PAGE>> : i \in 0 .. HEADER + b.size - 1} :
                       b \in {x \in blocks : x.header.mmap}}
  /\ \A p \in DOMAIN heap : Cardinality(Holders(p)) = 1
  /\ \A t \in Threads :
       /\ Range(tiny_pools[t]) \subseteq DOMAIN heap \cup {NULL}
       /\ pool_mgr[t] # NULL =>
            \A c \in 0 .. SIZE_CLASSES - 1 :
              /\ Len(pool_mgr[t][c]) <= MAX_POOLS
              /\ {e.pool : e \in Range(pool_mgr[t][c])} \subseteq DOMAIN heap
=============================================================================
