------------------------------ MODULE Algorithms ------------------------------
(***************************************************************************)
(* The templates of src/algorithm: heaps, sorting and selection, sequence  *)
(* operations, searches, comparisons and sums.                             *)
(*                                                                         *)
(* A caller works on one array t of N elements, indexed from 0 as in the   *)
(* code: it calls a function on a part of the array (Call), looks at what  *)
(* it did (Return), and calls the next.  A pointer into the array is an    *)
(* index, a for loop a fold over the values of its variable.  heap and     *)
(* popped are what the caller knows: the first heap elements are a heap,   *)
(* and popped elements behind them came out of it one after the other.     *)
(***************************************************************************)
EXTENDS Integers, FiniteSets, SequencesExt

CONSTANTS
  N,       \* elements of the array; calls take every n <= N
  Values   \* what an element can be

ASSUME AlgorithmsAssumption == N \in Nat \ {0} /\ Values \subseteq Int

VARIABLES t, heap, popped, call

vars == <<t, heap, popped, call>>

\* The values of a loop variable.
Up(a, b)   == [k \in 1 .. b - a + 1 |-> a + k - 1]
Down(a, b) == [k \in 1 .. a - b + 1 |-> a - k + 1]

-----------------------------------------------------------------------------
(* compare.inl and heap.inl.                                               *)

swap(s, i, j) == [s EXCEPT ![i] = s[j], ![j] = s[i]]

min(a, b) == IF b < a THEN b ELSE a
max(a, b) == IF a < b THEN b ELSE a

RECURSIVE sift_up(_, _)
sift_up(s, pos) ==
  LET parent == (pos - 1) \div 2 IN
  IF pos = 0 \/ s[parent] >= s[pos] THEN s ELSE sift_up(swap(s, parent, pos), parent)

RECURSIVE sift_down(_, _, _)
sift_down(s, pos, n) ==
  LET left    == 2 * pos + 1
      right   == 2 * pos + 2
      first   == IF left < n /\ s[left] > s[pos] THEN left ELSE pos
      max_idx == IF right < n /\ s[right] > s[first] THEN right ELSE first
  IN IF max_idx = pos THEN s ELSE sift_down(swap(s, pos, max_idx), max_idx, n)

make_heap(s, n) == FoldLeft(LAMBDA u, i : sift_down(u, i - 1, n), s, Down(n \div 2, 1))

push_heap(s, n) == sift_up(s, n - 1)

\* Mutant: the element taken out is still part of the heap.
pop_heap_keeps(s, n) == IF n <= 1 THEN s ELSE sift_down(swap(s, 0, n - 1), 0, n)

pop_heap(s, n) == IF n <= 1 THEN s ELSE sift_down(swap(s, 0, n - 1), 0, n - 1)

sort_heap(s, n) ==
  FoldLeft(LAMBDA u, i : sift_down(swap(u, 0, i - 1), 0, i - 1), s, Down(n, 2))

-----------------------------------------------------------------------------
(* sort.inl.  The functions that the code gives t + o take the offset o.   *)

partition(s, o, n) ==
  LET pivot      == s[o + n - 1]
      Step(u, j) == IF u.s[o + j] <= pivot
                      THEN [s |-> swap(u.s, o + u.i, o + j), i |-> u.i + 1]
                      ELSE u
      last       == FoldLeft(Step, [s |-> s, i |-> 0], Up(0, n - 2))
  IN [s |-> swap(last.s, o + last.i, o + n - 1), i |-> last.i]

RECURSIVE quick_sort(_, _, _)
quick_sort(s, o, n) ==
  IF n <= 1 THEN s
  ELSE LET p == partition(s, o, n) IN
       quick_sort(quick_sort(p.s, o, p.i), o + p.i + 1, n - p.i - 1)

sort(s, num) == quick_sort(s, 0, num)

\* The second sift_down takes the last index of the heap, not its length.
sift_down_to(s, start, end) == sift_down(s, start, end + 1)

\* The least m of the first num elements come to the front, as a heap.
\* Mutant: the last element is left out.
select_least_short(s, num, m) ==
  FoldLeft(LAMBDA u, i : IF u[i] < u[0] THEN sift_down_to(swap(u, 0, i), 0, m - 1) ELSE u,
           FoldLeft(LAMBDA u, i : sift_down_to(u, i, m - 1), s, Down((m - 1) \div 2, 0)),
           Up(m, num - 2))

select_least(s, num, m) ==
  FoldLeft(LAMBDA u, i : IF u[i] < u[0] THEN sift_down_to(swap(u, 0, i), 0, m - 1) ELSE u,
           FoldLeft(LAMBDA u, i : sift_down_to(u, i, m - 1), s, Down((m - 1) \div 2, 0)),
           Up(m, num - 1))

\* With m = 0 < num the code computes m - 1 in a size_t and leaves the array.
partial_sort(s, num, m) ==
  IF m >= num THEN sort(s, num)
  ELSE FoldLeft(LAMBDA u, i : sift_down_to(swap(u, 0, i), 0, i - 1),
                select_least(s, num, m), Down(m - 1, 1))

\* The loop of nth_element on t[left .. right].
RECURSIVE nth_element_in(_, _, _, _)
nth_element_in(s, nth, left, right) ==
  LET part == partition(s, left, right - left + 1)
      p    == part.i + left
  IN CASE p = nth -> part.s
       [] p < nth -> nth_element_in(part.s, nth, p + 1, right)
       [] p > nth -> nth_element_in(part.s, nth, left, p - 1)

nth_element(s, num, nth) == IF nth >= num THEN s ELSE nth_element_in(s, nth, 0, num - 1)

-----------------------------------------------------------------------------
(* sequence.inl.                                                           *)

\* Mutant: always from the front.
copy_forward(s, src, dest, n) ==
  FoldLeft(LAMBDA u, i : [u EXCEPT ![dest + i] = u[src + i]], s, Up(0, n - 1))

\* src and dest are in the same array: the order decides when they overlap.
copy(s, src, dest, n) ==
  FoldLeft(LAMBDA u, i : [u EXCEPT ![dest + i] = u[src + i]], s,
           IF dest > src /\ dest < src + n THEN Down(n - 1, 0) ELSE Up(0, n - 1))

fill(s, n, value) == FoldLeft(LAMBDA u, i : [u EXCEPT ![i] = value], s, Up(0, n - 1))

reverse(s, o, n) ==
  FoldLeft(LAMBDA u, i : swap(u, o + i, o + n - 1 - i), s, Up(0, (n \div 2) - 1))

rotate(s, n, mid) ==
  IF mid = 0 \/ mid = n THEN s
  ELSE reverse(reverse(reverse(s, 0, mid), mid, n - mid), 0, n)

-----------------------------------------------------------------------------
(* search.inl, numeric.inl and the rest of compare.inl.                    *)

\* lower_bound, upper_bound and binary_search walk an implicit tree in
\* t[1 .. n]: element k has the children 2k and 2k + 1.
descend(Right(_), n) ==
  LET from[k \in 1 .. n + 1] ==
        IF k <= n \div 2 THEN from[2 * k + (IF Right(k) THEN 1 ELSE 0)] ELSE k
  IN from[1]

\* k >>= __builtin_ctz(~k)
RECURSIVE drop_ones(_)
drop_ones(k) == IF k % 2 = 1 THEN drop_ones(k \div 2) ELSE k

\* The index the three end at, before lower_bound cuts it.
end_index(Right(_), n) ==
  LET k == descend(Right, n) IN
  drop_ones(2 * k + (IF k <= n /\ Right(k) THEN 1 ELSE 0))

lower_bound_index(s, n, x) ==
  LET k == end_index(LAMBDA j : s[j] < x, n) IN IF k < n THEN k ELSE n - 1

upper_bound_index(s, n, x) == end_index(LAMBDA j : s[j] <= x, n)

\* The index of the first element that is value, n if there is none.
RECURSIVE find_from(_, _, _, _)
find_from(s, n, value, i) ==
  IF i >= n \/ s[i] = value THEN min(i, n) ELSE find_from(s, n, value, i + 1)

find(s, n, value) == find_from(s, n, value, 0)

count(s, n, value) ==
  FoldLeft(LAMBDA c, i : c + (IF s[i] = value THEN 1 ELSE 0), 0, Up(0, n - 1))

RECURSIVE equal(_, _, _, _)
equal(s, first1, first2, n) ==
  n = 0 \/ (s[first1] = s[first2] /\ equal(s, first1 + 1, first2 + 1, n - 1))

RECURSIVE lexicographical_compare(_, _, _, _, _)
lexicographical_compare(s, t1, n1, t2, n2) ==
  IF min(n1, n2) = 0 THEN n1 < n2
  ELSE s[t1] < s[t2] \/ (~(s[t2] < s[t1]) /\
         lexicographical_compare(s, t1 + 1, n1 - 1, t2 + 1, n2 - 1))

accumulate(s, n, init) == FoldLeft(LAMBDA a, i : a + s[i], init, Up(0, n - 1))

\* The result is another array of n elements.
adjacent_difference(s, n) ==
  [i \in 0 .. n - 1 |-> IF i = 0 THEN s[0] ELSE s[i] - s[i - 1]]

-----------------------------------------------------------------------------
(* The caller.                                                             *)

NoCall == [op |-> "none"]

Init ==
  /\ t \in [0 .. N - 1 -> Values]
  /\ heap = 0
  /\ popped = 0
  /\ call = NoCall

\* A call that leaves s in the array and returns result.
Call(op, args, s, result) ==
  /\ call = NoCall
  /\ t' = s
  /\ call' = [op |-> op, args |-> args, before |-> t, result |-> result]

Knows(h, p) == heap' = h /\ popped' = p

Return == call # NoCall /\ call' = NoCall /\ UNCHANGED <<t, heap, popped>>

MakeHeap(n) == Call("make_heap", <<n>>, make_heap(t, n), 0) /\ Knows(n, 0)

\* The caller has put the new element behind the heap.
PushHeap == heap < N /\ Call("push_heap", <<heap + 1>>, push_heap(t, heap + 1), 0) /\ Knows(heap + 1, 0)

PopHeap == heap > 0 /\ Call("pop_heap", <<heap>>, pop_heap(t, heap), 0) /\ Knows(heap - 1, popped + 1)

SortHeap == heap > 0 /\ Call("sort_heap", <<heap>>, sort_heap(t, heap), 0) /\ Knows(0, 0)

Sort(n) == Call("sort", <<n>>, sort(t, n), 0) /\ Knows(0, 0)

PartialSort(n, m) ==
  (m > 0 \/ n = 0) /\ Call("partial_sort", <<n, m>>, partial_sort(t, n, m), 0) /\ Knows(0, 0)

NthElement(n, nth) == Call("nth_element", <<n, nth>>, nth_element(t, n, nth), 0) /\ Knows(0, 0)

Copy(src, dest, n) ==
  /\ src + n <= N /\ dest + n <= N
  /\ Call("copy", <<src, dest, n>>, copy(t, src, dest, n), 0)
  /\ Knows(0, 0)

Fill(n, value) == Call("fill", <<n, value>>, fill(t, n, value), 0) /\ Knows(0, 0)

Reversal(n) == Call("reverse", <<n>>, reverse(t, 0, n), 0) /\ Knows(0, 0)

Rotate(n, mid) ==
  mid <= n /\ Call("rotate", <<n, mid>>, rotate(t, n, mid), mid) /\ Knows(0, 0)

\* Functions that only look at the array.
Ask(op, args, result) == Call(op, args, t, result) /\ UNCHANGED <<heap, popped>>

Find(n, x)       == Ask("find", <<n, x>>, find(t, n, x))
Count(n, x)      == Ask("count", <<n, x>>, count(t, n, x))
Accumulate(n, x) == Ask("accumulate", <<n, x>>, accumulate(t, n, x))
Differences(n)   == Ask("adjacent_difference", <<n>>, adjacent_difference(t, n))

Equal(o, n) == o + n <= N /\ Ask("equal", <<o, n>>, equal(t, 0, o, n))

Compare(n1, o, n2) ==
  o + n2 <= N /\ Ask("lexicographical_compare", <<n1, o, n2>>,
                     lexicographical_compare(t, 0, n1, o, n2))

MinMax(a, b) == Ask("min_max", <<a, b>>, <<min(a, b), max(a, b)>>)

\* What reading t[k] can give: anything when k is not in the array.
Reads(k) == IF k \in DOMAIN t THEN {t[k]} ELSE Values

LowerBound(n, x) ==
  LET k == lower_bound_index(t, n, x) IN
  \E v \in Reads(k) : Ask("lower_bound", <<n, x, k>>, v)

UpperBound(n, x) ==
  LET k == upper_bound_index(t, n, x) IN
  \E v \in Reads(k) : Ask("upper_bound", <<n, x, k>>, v)

BinarySearch(n, x) ==
  LET k == upper_bound_index(t, n, x) IN
  \E v \in Reads(k) : Ask("binary_search", <<n, x, k>>, v = x)

HeapCalls == PushHeap \/ PopHeap \/ SortHeap \/ \E n \in 0 .. N : MakeHeap(n)

OrderCalls ==
  \E n \in 0 .. N : Sort(n) \/ \E m \in 0 .. N : PartialSort(n, m) \/ NthElement(n, m)

SequenceCalls ==
  \E n \in 0 .. N :
    \/ Reversal(n)
    \/ \E x \in Values : Fill(n, x)
    \/ \E mid \in 0 .. N : Rotate(n, mid)
    \/ \E src, dest \in 0 .. N : Copy(src, dest, n)

Questions ==
  \/ \E a, b \in Values : MinMax(a, b)
  \/ \E n \in 0 .. N :
       \/ Differences(n)
       \/ \E x \in Values : Find(n, x) \/ Count(n, x) \/ Accumulate(n, x)
       \/ \E o \in 0 .. N : Equal(o, n) \/ \E n1 \in 0 .. N : Compare(n1, o, n)
  \/ \E n \in 1 .. N - 1, x \in Values : LowerBound(n, x) \/ UpperBound(n, x) \/ BinarySearch(n, x)

Next == HeapCalls \/ OrderCalls \/ SequenceCalls \/ Questions \/ Return

Spec == Init /\ [][Next]_vars
-----------------------------------------------------------------------------
(* Properties.                                                             *)

Called(op) == call.op = op
Sorted(s, a, b) == \A i, j \in a .. b : i <= j => s[i] <= s[j]

\* The first n elements are those of before in some order, the others unchanged.
Rearranged(before, n) ==
  /\ \A x \in Values : Cardinality({i \in 0 .. n - 1 : t[i] = x})
                         = Cardinality({i \in 0 .. n - 1 : before[i] = x})
  /\ \A i \in n .. N - 1 : t[i] = before[i]

\* However make_heap, push_heap and pop_heap follow one another, the heap has its
\* order, it loses and invents no element, and the elements popped one after the
\* other stand sorted behind it, none below one still in it (heap.inl:43-64).
HeapDiscipline ==
  /\ \A i \in 1 .. heap - 1 : t[(i - 1) \div 2] >= t[i]
  /\ Sorted(t, heap, heap + popped - 1)
  /\ \A i \in 0 .. heap - 1, j \in heap .. heap + popped - 1 : t[i] <= t[j]
  /\ call.op \in {"make_heap", "push_heap", "pop_heap", "sort_heap"} =>
       Rearranged(call.before, call.args[1])

\* sort and sort_heap sort, partial_sort brings the least m elements sorted to the
\* front, nth_element splits the array at nth, and all only rearrange the elements
\* they were given (sort.inl:62-117, heap.inl:66-73).
SelectionRight ==
  call.op \in {"sort", "sort_heap", "partial_sort", "nth_element"} =>
    LET n == call.args[1]
        m == IF Len(call.args) = 2 THEN call.args[2] ELSE n
    IN
    /\ Rearranged(call.before, n)
    /\ IF Called("nth_element")
         THEN m < n => \A i \in 0 .. m, j \in m .. n - 1 : t[i] <= t[m] /\ t[m] <= t[j]
         ELSE /\ Sorted(t, 0, min(n, m) - 1)
              /\ \A i \in 0 .. min(n, m) - 1, j \in m .. n - 1 : t[i] <= t[j]

\* copy gives the destination what the source held before the call also when they
\* overlap; reverse and rotate move every element to its place and nothing else
\* changes (sequence.inl:5-45).
MovesRight ==
  LET old == call.before  a == call.args IN
  /\ Called("copy") =>
       t = [i \in DOMAIN t |-> IF i \in a[2] .. a[2] + a[3] - 1 THEN old[i - a[2] + a[1]] ELSE old[i]]
  /\ Called("fill") => t = [i \in DOMAIN t |-> IF i < a[1] THEN a[2] ELSE old[i]]
  /\ Called("reverse") => t = [i \in DOMAIN t |-> IF i < a[1] THEN old[a[1] - 1 - i] ELSE old[i]]
  /\ Called("rotate") => t = [i \in DOMAIN t |-> IF i < a[1] THEN old[(i + a[2]) % a[1]] ELSE old[i]]

\* The answers agree with what they are meant to say of the array: the first
\* position of a value, how many there are, which of two parts comes first, and the
\* sums and differences, which undo each other; lower_bound reads an element of the
\* array (search.inl:5-65, compare.inl, numeric.inl).
AnswersRight ==
  LET a == call.args  r == call.result
      Part(o, n) == [k \in 1 .. n |-> t[o + k - 1]]
      Before(p, q) == \E k \in 1 .. Len(q) :
                        /\ \A j \in 1 .. k - 1 : j <= Len(p) /\ p[j] = q[j]
                        /\ k = Len(p) + 1 \/ (k <= Len(p) /\ p[k] < q[k])
  IN
  /\ Called("find") =>
       /\ \A i \in 0 .. r - 1 : t[i] # a[2]
       /\ IF r = a[1] THEN TRUE ELSE r < a[1] /\ t[r] = a[2]
  /\ Called("count") => r = Cardinality({i \in 0 .. a[1] - 1 : t[i] = a[2]})
  /\ Called("equal") => r = (Part(0, a[2]) = Part(a[1], a[2]))
  /\ Called("lexicographical_compare") => r = Before(Part(0, a[1]), Part(a[2], a[3]))
  /\ Called("adjacent_difference") =>
       \A n \in 1 .. a[1] : accumulate(r, n, 0) = t[n - 1]
  /\ Called("accumulate") =>
       r = a[2] + FoldLeft(LAMBDA x, v : x + v * count(t, a[1], v), 0, SetToSeq(Values))
  /\ Called("min_max") => r[1] <= r[2] /\ {r[1], r[2]} = {a[1], a[2]}
  /\ Called("lower_bound") => a[3] \in 0 .. a[1] - 1

\* Sequence operations, searches, comparisons and sums: both of the above.
SequencesRight == MovesRight /\ AnswersRight

\* The order of the implicit tree: what lies left of k is not above it, what lies
\* right of it not below.
InTreeOrder(s, n) ==
  \A j \in 1 .. n, d \in 1 .. n :
    LET child == j \div (2 ^ (d - 1))  k == child \div 2 IN
    k > 0 => IF child % 2 = 0 THEN s[j] <= s[k] ELSE s[k] <= s[j]

\* README.md promises "common algorithms including search": binary_search says of
\* an array in tree order whether it holds x.  Only calls that end at an element
\* are looked at (search.inl:28-38).  The walk goes right at elements that are equal
\* to x too, and of the elements it passed only one is compared with x at the end.
BinarySearchFinds ==
  Called("binary_search") /\ InTreeOrder(t, call.args[1]) /\ call.args[3] \in 1 .. call.args[1] =>
    call.result = \E i \in 1 .. call.args[1] : t[i] = call.args[2]
=============================================================================
