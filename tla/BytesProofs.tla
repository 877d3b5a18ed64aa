----------------------------- MODULE BytesProofs -----------------------------
(***************************************************************************)
(* Proofs about the functions on bytes, for every size of a word, every    *)
(* memory, alignment, overlap and count.                                   *)
(***************************************************************************)
EXTENDS Bytes, SequenceTheorems, WellFoundedInduction, TLAPS

-----------------------------------------------------------------------------
(* Least and greatest elements, division.                                  *)

\* A set of natural numbers that is not empty has a least element.
LEMMA LeastNatural ==
  ASSUME NEW T \in SUBSET Nat, T # {}
  PROVE  \E n \in T : \A m \in T : n <= m
<1> DEFINE Less == OpToRel(<, Nat)
<1>1. IsWellFoundedOn(Less, Nat)
  BY NatLessThanWellFounded
<1>2. \A x, y \in Nat : x < y => <<x, y>> \in Less
  BY DEF OpToRel
<1> HIDE DEF Less
<1>3. PICK n \in T : \A m \in T : ~ (<<m, n>> \in Less)
  BY <1>1, WFMin
<1>4. ASSUME NEW m \in T PROVE n <= m
  <2>1. ~(m < n)
    BY <1>2, <1>3
  <2>2. QED BY <2>1
<1>5. QED BY <1>4

\* Min and Max are what they are called.
LEMMA MinIs ==
  ASSUME NEW S \in SUBSET Int, NEW x \in S, \A y \in S : x <= y
  PROVE  Min(S) = x
<1>1. \A z \in S : (\A y \in S : z =< y) => z = x
  OBVIOUS
<1>2. Min(S) \in S /\ \A y \in S : Min(S) =< y
  BY DEF Min
<1>3. QED BY <1>1, <1>2

\* An element that no other exceeds is the maximum.
LEMMA MaxIs ==
  ASSUME NEW S \in SUBSET Int, NEW x \in S, \A y \in S : x >= y
  PROVE  Max(S) = x
<1>1. \A z \in S : (\A y \in S : z >= y) => z = x
  OBVIOUS
<1>2. Max(S) \in S /\ \A y \in S : Max(S) >= y
  BY DEF Max
<1>3. QED BY <1>1, <1>2

\* A set of natural numbers that is not empty has its minimum.
LEMMA MinOf ==
  ASSUME NEW S \in SUBSET Nat, S # {}
  PROVE  Min(S) \in S /\ \A y \in S : Min(S) <= y
<1>1. PICK x \in S : \A y \in S : x <= y
  BY LeastNatural
<1>2. Min(S) = x
  BY <1>1, MinIs
<1>3. QED BY <1>1, <1>2

\* The lesser of two numbers.
LEMMA MinPair ==
  ASSUME NEW a \in Int, NEW b \in Int
  PROVE  Min({a, b}) = IF a <= b THEN a ELSE b
<1>1. CASE a <= b
  BY <1>1, MinIs
<1>2. CASE ~(a <= b)
  BY <1>2, MinIs
<1>3. QED BY <1>1, <1>2

\* The greater of two numbers.
LEMMA MaxPair ==
  ASSUME NEW a \in Int, NEW b \in Int
  PROVE  Max({a, b}) = IF a >= b THEN a ELSE b
<1>1. CASE a >= b
  BY <1>1, MaxIs
<1>2. CASE ~(a >= b)
  BY <1>2, MaxIs
<1>3. QED BY <1>1, <1>2

\* Division with remainder.
LEMMA Remainder ==
  ASSUME NEW W \in Nat \ {0}, NEW i \in Nat
  PROVE  i % W \in 0 .. W - 1 /\ i \div W \in Nat /\ i = W * (i \div W) + (i % W)
  OBVIOUS

-----------------------------------------------------------------------------
(* The pieces of mem_op.cpp.                                               *)

Pieces == [at : Nat, size : Nat \ {0}]

EndOf(ps, a, k) == IF k = 0 THEN a ELSE ps[k].at + ps[k].size

\* The pieces of a run follow each other from a to n.
Run(ps, a, n) ==
  /\ ps \in Seq(Pieces)
  /\ \A k \in 1 .. Len(ps) : ps[k].at = EndOf(ps, a, k - 1)
  /\ EndOf(ps, a, Len(ps)) = n

\* Pieces end one behind the other, the last at n.
LEMMA PiecesOrdered ==
  ASSUME NEW n \in Nat, NEW ps, Run(ps, 0, n)
  PROVE  /\ \A k \in 0 .. Len(ps) : EndOf(ps, 0, k) \in 0 .. n
         /\ \A k \in 1 .. Len(ps) :
              /\ ps[k].at \in 0 .. n /\ ps[k].size \in 1 .. n /\ ps[k].at + ps[k].size <= n
              /\ ps[k].at + ps[k].size = EndOf(ps, 0, k) /\ ps[k].at = EndOf(ps, 0, k - 1)
<1> DEFINE L == Len(ps)
<1>0. L \in Nat
  <2>1. ps \in Seq(Pieces)
    BY DEF Run
  <2>2. QED BY <2>1
<1>1. \A k \in 1 .. L : ps[k] \in Pieces /\ ps[k].at \in Nat /\ ps[k].size \in Nat \ {0}
  <2>1. ps \in Seq(Pieces)
    BY DEF Run
  <2>2. \A k \in 1 .. L : ps[k] \in Pieces
    BY <2>1, ElementOfSeq
  <2>3. QED BY <2>2 DEF Pieces
<1>2. \A k \in 1 .. L : EndOf(ps, 0, k) = ps[k].at + ps[k].size /\ ps[k].at = EndOf(ps, 0, k - 1)
  BY <1>0 DEF Run, EndOf
<1>3. \A k \in 0 .. L : EndOf(ps, 0, k) \in Nat
  BY <1>0, <1>1 DEF EndOf
<1>4. \A k \in 1 .. L : EndOf(ps, 0, k - 1) < EndOf(ps, 0, k)
  <2> SUFFICES ASSUME NEW k \in 1 .. L PROVE EndOf(ps, 0, k - 1) < EndOf(ps, 0, k)
    OBVIOUS
  <2>1. ps[k].at \in Nat /\ ps[k].size \in Nat \ {0}
    BY <1>1
  <2>2. QED BY <1>2, <2>1
<1>5. EndOf(ps, 0, L) = n
  BY DEF Run
<1> HIDE DEF L
<1>6. \A k \in 0 .. L : EndOf(ps, 0, k) <= n
  <2> DEFINE Bad == {j \in 0 .. L : ~(EndOf(ps, 0, L - j) <= n)}
  <2> SUFFICES Bad = {}
    <3>1. ASSUME NEW k \in 0 .. L PROVE EndOf(ps, 0, k) <= n
      <4>1. L - k \in 0 .. L /\ L - (L - k) = k
        BY <1>0
      <4>2. L - k \notin Bad
        OBVIOUS
      <4>3. QED BY <4>1, <4>2
    <3>2. QED BY <3>1
  <2>1. SUFFICES ASSUME Bad # {} PROVE FALSE
    OBVIOUS
  <2>2. PICK j \in Bad : \A i \in Bad : j <= i
    <3>1. Bad \in SUBSET Nat
      BY <1>0
    <3> HIDE DEF Bad
    <3>2. QED BY <2>1, <3>1, LeastNatural
  <2>3. j # 0
    BY <1>0, <1>5, <2>2
  <2>4. j - 1 \in 0 .. L /\ j - 1 \notin Bad
    BY <1>0, <2>2, <2>3
  <2>5. EndOf(ps, 0, L - (j - 1)) <= n
    BY <2>4
  <2>6. L - (j - 1) \in 1 .. L /\ (L - (j - 1)) - 1 = L - j /\ L - j \in 0 .. L
    BY <1>0, <2>3
  <2>7. EndOf(ps, 0, L - j) < EndOf(ps, 0, L - (j - 1))
    BY <1>4, <2>6
  <2>8. EndOf(ps, 0, L - j) \in Nat /\ EndOf(ps, 0, L - (j - 1)) \in Nat
    BY <1>3, <2>6
  <2>9. EndOf(ps, 0, L - j) <= n
    BY <2>5, <2>7, <2>8
  <2>10. QED BY <2>2, <2>9
<1>7. ASSUME NEW k \in 0 .. L PROVE EndOf(ps, 0, k) \in 0 .. n
  BY <1>3, <1>6
<1>8. ASSUME NEW k \in 1 .. L
      PROVE  /\ ps[k].at \in 0 .. n /\ ps[k].size \in 1 .. n /\ ps[k].at + ps[k].size <= n
             /\ ps[k].at + ps[k].size = EndOf(ps, 0, k) /\ ps[k].at = EndOf(ps, 0, k - 1)
  <2>1. ps[k].at \in Nat /\ ps[k].size \in Nat \ {0}
    BY <1>1
  <2>2. EndOf(ps, 0, k) = ps[k].at + ps[k].size /\ ps[k].at = EndOf(ps, 0, k - 1)
    BY <1>2
  <2>3. EndOf(ps, 0, k) <= n
    BY <1>0, <1>6
  <2>4. QED BY <2>1, <2>2, <2>3
<1>9. QED BY <1>7, <1>8 DEF L

\* One run after the other.
LEMMA RunConcat ==
  ASSUME NEW a, NEW b, NEW c, NEW ps, NEW qs, Run(ps, a, b), Run(qs, b, c)
  PROVE  Run(ps \o qs, a, c)
<1> DEFINE rs == ps \o qs
<1>1. ps \in Seq(Pieces) /\ qs \in Seq(Pieces)
  BY DEF Run
<1>2. rs \in Seq(Pieces) /\ Len(rs) = Len(ps) + Len(qs) /\ Len(ps) \in Nat /\ Len(qs) \in Nat
  BY <1>1
<1>3. \A k \in 1 .. Len(ps) : rs[k] = ps[k]
  BY <1>1
<1>4. \A k \in 1 .. Len(qs) : rs[Len(ps) + k] = qs[k]
  BY <1>1
<1> HIDE DEF rs
<1>5. \A k \in 0 .. Len(ps) : EndOf(rs, a, k) = EndOf(ps, a, k)
  BY <1>2, <1>3 DEF EndOf
<1>6. EndOf(ps, a, Len(ps)) = b /\ EndOf(qs, b, Len(qs)) = c
  BY DEF Run
<1>7. \A k \in 0 .. Len(qs) : EndOf(rs, a, Len(ps) + k) = EndOf(qs, b, k)
  <2>1. EndOf(rs, a, Len(ps)) = b
    BY <1>2, <1>5, <1>6
  <2>2. ASSUME NEW k \in 1 .. Len(qs) PROVE EndOf(rs, a, Len(ps) + k) = EndOf(qs, b, k)
    BY <1>2, <1>4 DEF EndOf
  <2>3. EndOf(qs, b, 0) = b /\ Len(ps) + 0 = Len(ps)
    BY <1>2 DEF EndOf
  <2>4. QED BY <1>2, <2>1, <2>2, <2>3
<1>8. ASSUME NEW k \in 1 .. Len(rs) PROVE rs[k].at = EndOf(rs, a, k - 1)
  <2>1. CASE k <= Len(ps)
    <3>1. k \in 1 .. Len(ps) /\ k - 1 \in 0 .. Len(ps)
      BY <1>2, <2>1
    <3>2. ps[k].at = EndOf(ps, a, k - 1)
      BY <3>1 DEF Run
    <3>3. QED BY <1>3, <1>5, <3>1, <3>2
  <2>2. CASE ~(k <= Len(ps))
    <3>1. PICK j : j = k - Len(ps)
      OBVIOUS
    <3>2. /\ j \in 1 .. Len(qs) /\ j - 1 \in 0 .. Len(qs)
          /\ k = Len(ps) + j /\ k - 1 = Len(ps) + (j - 1)
      BY <1>2, <2>2, <3>1
    <3>3. qs[j].at = EndOf(qs, b, j - 1)
      BY <3>2 DEF Run
    <3>4. rs[Len(ps) + j] = qs[j] /\ EndOf(rs, a, Len(ps) + (j - 1)) = EndOf(qs, b, j - 1)
      BY <1>4, <1>7, <3>2
    <3>5. QED BY <3>2, <3>3, <3>4
  <2>3. QED BY <2>1, <2>2
<1>9. EndOf(rs, a, Len(rs)) = c
  BY <1>2, <1>6, <1>7
<1>10. Run(rs, a, c)
  BY <1>2, <1>8, <1>9 DEF Run
<1>11. QED BY <1>10 DEF rs

\* n bytes, and n words, from an address on.
LEMMA EachRun ==
  ASSUME NEW a \in Nat, NEW n \in Nat
  PROVE  Run(Each(a, n), a, a + n)
<1> DEFINE ps == Each(a, n)
<1>1. ps \in Seq(Pieces) /\ Len(ps) = n /\ \A k \in 1 .. n : ps[k].at = a + k - 1 /\ ps[k].size = 1
  BY DEF Each, Pieces
<1> HIDE DEF ps
<1>2. \A k \in 0 .. n : EndOf(ps, a, k) = a + k
  BY <1>1 DEF EndOf
<1>3. Run(ps, a, a + n)
  BY <1>1, <1>2 DEF Run
<1>4. QED BY <1>3 DEF ps

\* The pieces of n words cover them without a gap.
LEMMA WordsRun ==
  ASSUME NEW a \in Nat, NEW n \in Nat
  PROVE  Run(Words(a, n), a, a + n * WORD)
<1> DEFINE ps == Words(a, n)
           off(k) == k * WORD
<1>0. WORD \in Nat \ {0}
  BY BytesAssumption
<1>1. \A k \in Nat : off(k) \in Nat /\ off(k + 1) = off(k) + WORD
  BY <1>0
<1>2. off(0) = 0
  BY <1>0
<1>3. /\ ps \in Seq(Pieces) /\ Len(ps) = n
      /\ \A k \in 1 .. n : ps[k].at = a + off(k - 1) /\ ps[k].size = WORD
  <2>1. \A k \in 1 .. n : [at |-> a + (k - 1) * WORD, size |-> WORD] \in Pieces
    <3>1. \A k \in 1 .. n : a + off(k - 1) \in Nat
      <4>1. \A k \in 1 .. n : k - 1 \in Nat
        OBVIOUS
      <4> HIDE DEF off
      <4>2. QED BY <1>1, <4>1
    <3>2. QED BY <1>0, <3>1 DEF Pieces
  <2>2. QED BY <2>1 DEF Words
<1> HIDE DEF ps, off
<1>4. ASSUME NEW k \in 0 .. n PROVE EndOf(ps, a, k) = a + off(k)
  <2>1. CASE k = 0
    BY <1>2, <2>1 DEF EndOf
  <2>2. CASE k # 0
    <3>1. k - 1 \in Nat /\ k \in 1 .. n
      BY <2>2
    <3>2. off(k - 1) \in Nat /\ off((k - 1) + 1) = off(k - 1) + WORD
      BY <1>1, <3>1
    <3>3. EndOf(ps, a, k) = (a + off(k - 1)) + WORD
      BY <1>3, <2>2, <3>1 DEF EndOf
    <3>4. QED BY <1>0, <3>1, <3>2, <3>3
  <2>3. QED BY <2>1, <2>2
<1>5. Run(ps, a, a + off(n))
  <2>1. ASSUME NEW k \in 1 .. n PROVE ps[k].at = EndOf(ps, a, k - 1)
    BY <1>3, <1>4
  <2>2. QED BY <1>3, <1>4, <2>1 DEF Run
<1>6. QED BY <1>5 DEF ps, off

\* Bytes, words and bytes again cover the count, whatever the address.
LEMMA UpwardRun ==
  ASSUME NEW d \in Int, NEW count \in Nat
  PROVE  Run(upward(d, count), 0, count)
<1>1. CASE count < SMALL
  <2>1. Run(Each(0, count), 0, 0 + count)
    BY EachRun
  <2>2. QED BY <1>1, <2>1 DEF upward
<1>2. CASE ~(count < SMALL)
  <2> DEFINE align == (-d) % WORD
             n     == (count - align) \div WORD
             rest  == (count - align) % WORD
  <2>1. WORD \in Nat \ {0} /\ WORD <= count
    BY <1>2, BytesAssumption
  <2>2. align \in 0 .. WORD - 1
    BY <2>1
  <2>3. count - align \in Nat
    <3> HIDE DEF align
    <3>1. QED BY <2>1, <2>2
  <2>4. upward(d, count) =
          Each(0, align) \o Words(align, n) \o Each(align + n * WORD, rest)
    BY <1>2 DEF upward
  <2> HIDE DEF align
  <2>5. n \in Nat /\ rest \in Nat /\ count - align = WORD * n + rest
    <3>1. PICK c \in Nat : c = count - align
      BY <2>3
    <3>2. /\ c % WORD \in 0 .. WORD - 1 /\ c \div WORD \in Nat
          /\ c = WORD * (c \div WORD) + (c % WORD)
      BY <2>1, Remainder, Zenon
    <3>3. n = c \div WORD /\ rest = c % WORD
      BY <3>1
    <3> HIDE DEF n, rest
    <3>4. rest \in Nat
      BY <2>1, <3>2, <3>3
    <3>5. QED BY <3>1, <3>2, <3>3, <3>4
  <2> HIDE DEF n, rest
  <2>6. n * WORD \in Nat /\ count = (align + n * WORD) + rest
    BY <2>1, <2>2, <2>5
  <2>7. Run(Each(0, align), 0, align)
    <3>1. Run(Each(0, align), 0, 0 + align)
      BY <2>2, EachRun
    <3>2. QED BY <2>2, <3>1
  <2>8. Run(Words(align, n), align, align + n * WORD)
    BY <2>2, <2>5, WordsRun
  <2>9. PICK e \in Nat : e = align + n * WORD
    BY <2>2, <2>6
  <2>10. Run(Each(e, rest), e, e + rest)
    BY <2>5, EachRun
  <2>11. Run(Each(0, align) \o Words(align, n), 0, e)
    BY <2>7, <2>8, <2>9, RunConcat
  <2>12. Run((Each(0, align) \o Words(align, n)) \o Each(e, rest), 0, e + rest)
    BY <2>10, <2>11, RunConcat
  <2>13. QED BY <2>4, <2>6, <2>9, <2>12
<1>3. QED BY <1>1, <1>2


\* The same from the end.
LEMMA DownwardRun ==
  ASSUME NEW d \in Int, NEW count \in Nat
  PROVE  \E ps : Run(ps, 0, count) /\ downward(d, count) = Reverse(ps)
<1>1. CASE count < SMALL
  <2>1. Run(Each(0, count), 0, 0 + count)
    BY EachRun
  <2>2. QED BY <1>1, <2>1 DEF downward
<1>2. CASE ~(count < SMALL)
  <2> DEFINE align == (d + count) % WORD
             n     == (count - align) \div WORD
             rest  == (count - align) % WORD
  <2>1. WORD \in Nat \ {0} /\ WORD <= count
    BY <1>2, BytesAssumption
  <2>2. align \in 0 .. WORD - 1
    BY <2>1
  <2>3. count - align \in Nat
    <3> HIDE DEF align
    <3>1. QED BY <2>1, <2>2
  <2>4. downward(d, count) =
          Reverse(Each(0, rest) \o Words(rest, n) \o Each(rest + n * WORD, align))
    BY <1>2 DEF downward
  <2> HIDE DEF align
  <2>5. n \in Nat /\ rest \in Nat /\ count - align = WORD * n + rest
    <3>1. PICK c \in Nat : c = count - align
      BY <2>3
    <3>2. /\ c % WORD \in 0 .. WORD - 1 /\ c \div WORD \in Nat
          /\ c = WORD * (c \div WORD) + (c % WORD)
      BY <2>1, Remainder, Zenon
    <3>3. n = c \div WORD /\ rest = c % WORD
      BY <3>1
    <3> HIDE DEF n, rest
    <3>4. rest \in Nat
      BY <2>1, <3>2, <3>3
    <3>5. QED BY <3>1, <3>2, <3>3, <3>4
  <2> HIDE DEF n, rest
  <2>6. n * WORD \in Nat /\ count = (rest + n * WORD) + align
    BY <2>1, <2>2, <2>5
  <2>7. Run(Each(0, rest), 0, rest)
    <3>1. Run(Each(0, rest), 0, 0 + rest)
      BY <2>5, EachRun
    <3>2. QED BY <2>5, <3>1
  <2>8. Run(Words(rest, n), rest, rest + n * WORD)
    BY <2>5, WordsRun
  <2>9. PICK e \in Nat : e = rest + n * WORD
    BY <2>5, <2>6
  <2>10. Run(Each(e, align), e, e + align)
    BY <2>2, EachRun
  <2>11. Run(Each(0, rest) \o Words(rest, n), 0, e)
    BY <2>7, <2>8, <2>9, RunConcat
  <2>12. Run((Each(0, rest) \o Words(rest, n)) \o Each(e, align), 0, e + align)
    BY <2>10, <2>11, RunConcat
  <2>13. QED BY <2>4, <2>6, <2>9, <2>12
<1>3. QED BY <1>1, <1>2

-----------------------------------------------------------------------------
(* Copies in pieces.                                                       *)

Memory == [0 .. M - 1 -> 0 .. 255]

\* w holds the memories after each piece of a move, of a memset.
MoveSteps(w, m, dest, src, ps) ==
  /\ Len(ps) \in Nat
  /\ w = [k \in 0 .. Len(ps) |-> w[k]]
  /\ w[0] = m
  /\ \A k \in 1 .. Len(ps) :
       w[k] = Copied(w[k - 1], dest + ps[k].at, src + ps[k].at, ps[k].size)

SetSteps(w, m, s, b, ps) ==
  /\ Len(ps) \in Nat
  /\ w = [k \in 0 .. Len(ps) |-> w[k]]
  /\ w[0] = m
  /\ \A k \in 1 .. Len(ps) :
       w[k] = Put(w[k - 1], s + ps[k].at, [j \in 1 .. ps[k].size |-> b])

\* The last of these memories is what the move, or memset, leaves.
LEMMA MoveIs ==
  ASSUME NEW m, NEW dest, NEW src, NEW ps, NEW w, MoveSteps(w, m, dest, src, ps)
  PROVE  move(m, dest, src, ps) = w[Len(ps)]
<1> DEFINE L == Len(ps)
           Step(u, k) == Copied(u, dest + ps[k].at, src + ps[k].at, ps[k].size)
           Loop(f) == [k \in 0 .. L |-> IF k = 0 THEN m ELSE Step(f[k - 1], k)]
           after == CHOOSE f : f = Loop(f)
<1>0. /\ L \in Nat /\ w = [k \in 0 .. L |-> w[k]] /\ w[0] = m
      /\ \A k \in 1 .. L : w[k] = Step(w[k - 1], k)
  BY DEF MoveSteps
<1>1. move(m, dest, src, ps) = after[L]
  BY DEF move
<1>2. \A k \in 1 .. L : w[k] = Step(w[k - 1], k)
  BY <1>0
<1> HIDE DEF Step
<1>3. w = Loop(w)
  <2>1. ASSUME NEW k \in 0 .. L PROVE w[k] = Loop(w)[k]
    <3>1. CASE k = 0
      BY <1>0, <3>1
    <3>2. CASE k # 0
      BY <1>2, <3>2
    <3>3. QED BY <3>1, <3>2
  <2>2. Loop(w) = [k \in 0 .. L |-> Loop(w)[k]]
    OBVIOUS
  <2> HIDE DEF Loop
  <2>3. QED BY <1>0, <2>1, <2>2
<1>4. after = Loop(after)
  <2> HIDE DEF Loop
  <2>1. QED BY <1>3
<1> HIDE DEF after
<1>5. after[0] = m /\ \A k \in 1 .. L : after[k] = Step(after[k - 1], k)
  <2>1. 0 \in 0 .. L /\ \A k \in 1 .. L : k \in 0 .. L /\ k # 0
    BY <1>0
  <2>2. QED BY <1>4, <2>1
<1> HIDE DEF Loop
<1> DEFINE Bad == {k \in 0 .. L : after[k] # w[k]}
<1>6. Bad = {}
  <2> SUFFICES ASSUME Bad # {} PROVE FALSE
    OBVIOUS
  <2>1. Bad \in SUBSET Nat
    BY <1>0
  <2>2. PICK k \in Bad : \A j \in Bad : k <= j
    <3> HIDE DEF Bad
    <3>1. QED BY <2>1, LeastNatural
  <2>3. k # 0
    BY <1>0, <1>5
  <2>4. k \in 1 .. L /\ k - 1 \in 0 .. L /\ ~(k <= k - 1)
    BY <1>0, <2>3
  <2>5. after[k - 1] = w[k - 1]
    BY <2>2, <2>4
  <2>6. QED BY <1>2, <1>5, <2>4, <2>5
<1>7. after[L] = w[L]
  <2>1. L \in 0 .. L
    BY <1>0
  <2>2. QED BY <1>6, <2>1
<1>8. QED BY <1>1, <1>7

\* memset leaves what any function that obeys its steps gives after the last.
LEMMA SetIs ==
  ASSUME NEW m, NEW s, NEW b, NEW count, NEW ps, ps = upward(s, count), NEW w,
         SetSteps(w, m, s, b, ps)
  PROVE  memset(m, s, b, count).mem = w[Len(ps)]
<1> DEFINE L == Len(ps)
           Step(u, k) == Put(u, s + ps[k].at, [j \in 1 .. ps[k].size |-> b])
           Loop(f) == [k \in 0 .. L |-> IF k = 0 THEN m ELSE Step(f[k - 1], k)]
           after == CHOOSE f : f = Loop(f)
<1>0. /\ L \in Nat /\ w = [k \in 0 .. L |-> w[k]] /\ w[0] = m
      /\ \A k \in 1 .. L : w[k] = Step(w[k - 1], k)
  BY DEF SetSteps
<1>1. memset(m, s, b, count).mem = after[L]
  BY DEF memset, Gives
<1>2. \A k \in 1 .. L : w[k] = Step(w[k - 1], k)
  BY <1>0
<1> HIDE DEF Step
<1>3. w = Loop(w)
  <2>1. ASSUME NEW k \in 0 .. L PROVE w[k] = Loop(w)[k]
    <3>1. CASE k = 0
      BY <1>0, <3>1
    <3>2. CASE k # 0
      BY <1>2, <3>2
    <3>3. QED BY <3>1, <3>2
  <2>2. Loop(w) = [k \in 0 .. L |-> Loop(w)[k]]
    OBVIOUS
  <2> HIDE DEF Loop
  <2>3. QED BY <1>0, <2>1, <2>2
<1>4. after = Loop(after)
  <2> HIDE DEF Loop
  <2>1. QED BY <1>3
<1> HIDE DEF after
<1>5. after[0] = m /\ \A k \in 1 .. L : after[k] = Step(after[k - 1], k)
  <2>1. 0 \in 0 .. L /\ \A k \in 1 .. L : k \in 0 .. L /\ k # 0
    BY <1>0
  <2>2. QED BY <1>4, <2>1
<1> HIDE DEF Loop
<1> DEFINE Bad == {k \in 0 .. L : after[k] # w[k]}
<1>6. Bad = {}
  <2> SUFFICES ASSUME Bad # {} PROVE FALSE
    OBVIOUS
  <2>1. Bad \in SUBSET Nat
    BY <1>0
  <2>2. PICK k \in Bad : \A j \in Bad : k <= j
    <3> HIDE DEF Bad
    <3>1. QED BY <2>1, LeastNatural
  <2>3. k # 0
    BY <1>0, <1>5
  <2>4. k \in 1 .. L /\ k - 1 \in 0 .. L /\ ~(k <= k - 1)
    BY <1>0, <2>3
  <2>5. after[k - 1] = w[k - 1]
    BY <2>2, <2>4
  <2>6. QED BY <1>2, <1>5, <2>4, <2>5
<1>7. after[L] = w[L]
  <2>1. L \in 0 .. L
    BY <1>0
  <2>2. QED BY <1>6, <2>1
<1>8. QED BY <1>1, <1>7


\* The e bytes at a are the next of a copy of n bytes from s to d, which goes
\* upward because no byte of the source comes to lie behind its copy, or downward.
UpPart(d, s, n, a, e) ==
  /\ d \in Nat /\ s \in Nat /\ n \in Nat /\ a \in Nat /\ e \in Nat
  /\ s + n <= M /\ a + e <= n
  /\ d <= s \/ s + n <= d

DownPart(d, s, n, a, e) ==
  /\ d \in Nat /\ s \in Nat /\ n \in Nat /\ a \in Nat /\ e \in Nat
  /\ s + n <= M /\ a + e <= n
  /\ s < d

\* A part of a copy and the next part make a longer part, when no byte of the
\* next part has been overwritten.
LEMMA CopyUp ==
  ASSUME NEW m \in Memory, NEW d, NEW s, NEW n, NEW a, NEW e, UpPart(d, s, n, a, e)
  PROVE  Copied(Copied(m, d, s, a), d + a, s + a, e) = Copied(m, d, s, a + e)
<1> DEFINE u == Copied(m, d, s, a)
           v == Copied(u, d + a, s + a, e)
           w == Copied(m, d, s, a + e)
<1>0. /\ M \in Nat /\ d \in Nat /\ s \in Nat /\ n \in Nat /\ a \in Nat /\ e \in Nat
      /\ s + n <= M /\ a + e <= n /\ (d <= s \/ s + n <= d)
  BY BytesAssumption DEF M, UpPart
<1>1. DOMAIN u = 0 .. M - 1 /\ \A x \in 0 .. M - 1 :
        u[x] = IF x \in d .. d + a - 1 THEN m[s + (x - d)] ELSE m[x]
  BY <1>0 DEF Copied, Memory
<1> HIDE DEF u
<1>2. v = [x \in 0 .. M - 1 |->
             IF x \in d + a .. (d + a) + e - 1 THEN u[(s + a) + (x - (d + a))] ELSE u[x]]
  BY <1>1 DEF Copied
<1>3. w = [x \in 0 .. M - 1 |-> IF x \in d .. d + (a + e) - 1 THEN m[s + (x - d)] ELSE m[x]]
  BY <1>0 DEF Copied, Memory
<1> HIDE DEF v, w
<1>4. ASSUME NEW x \in 0 .. M - 1 PROVE v[x] = w[x]
  <2>1. CASE x \in d + a .. (d + a) + e - 1
    <3>1. PICK y : y = s + (x - d)
      OBVIOUS
    <3>2. y = (s + a) + (x - (d + a)) /\ y \in 0 .. M - 1 /\ y \notin d .. d + a - 1
      BY <1>0, <2>1, <3>1
    <3>3. x \in d .. d + (a + e) - 1
      BY <1>0, <2>1
    <3>4. v[x] = u[y] /\ w[x] = m[y]
      BY <1>2, <1>3, <2>1, <3>1, <3>2, <3>3
    <3>5. QED BY <1>1, <3>2, <3>4
  <2>2. CASE x \notin d + a .. (d + a) + e - 1
    <3>1. x \in d .. d + (a + e) - 1 <=> x \in d .. d + a - 1
      BY <1>0, <2>2
    <3>2. QED BY <1>1, <1>2, <1>3, <2>2, <3>1
  <2>3. QED BY <2>1, <2>2
<1>5. v = w
  BY <1>2, <1>3, <1>4
<1>6. QED BY <1>5 DEF u, v, w

\* The same for the parts in front of each other.
LEMMA CopyDown ==
  ASSUME NEW m \in Memory, NEW d, NEW s, NEW n, NEW a, NEW e, DownPart(d, s, n, a, e)
  PROVE  Copied(Copied(m, d + (a + e), s + (a + e), n - (a + e)), d + a, s + a, e)
           = Copied(m, d + a, s + a, n - a)
<1> DEFINE u == Copied(m, d + (a + e), s + (a + e), n - (a + e))
           v == Copied(u, d + a, s + a, e)
           w == Copied(m, d + a, s + a, n - a)
<1>0. /\ M \in Nat /\ d \in Nat /\ s \in Nat /\ n \in Nat /\ a \in Nat /\ e \in Nat
      /\ s + n <= M /\ a + e <= n /\ s < d
  BY BytesAssumption DEF M, DownPart
<1>1. DOMAIN u = 0 .. M - 1 /\ \A x \in 0 .. M - 1 :
        u[x] = IF x \in d + (a + e) .. (d + (a + e)) + (n - (a + e)) - 1
                 THEN m[(s + (a + e)) + (x - (d + (a + e)))] ELSE m[x]
  BY <1>0 DEF Copied, Memory
<1> HIDE DEF u
<1>2. v = [x \in 0 .. M - 1 |->
             IF x \in d + a .. (d + a) + e - 1 THEN u[(s + a) + (x - (d + a))] ELSE u[x]]
  BY <1>1 DEF Copied
<1>3. w = [x \in 0 .. M - 1 |->
             IF x \in d + a .. (d + a) + (n - a) - 1 THEN m[(s + a) + (x - (d + a))] ELSE m[x]]
  BY <1>0 DEF Copied, Memory
<1> HIDE DEF v, w
<1>4. ASSUME NEW x \in 0 .. M - 1 PROVE v[x] = w[x]
  <2>0. PICK y : y = s + (x - d)
    OBVIOUS
  <2>00. y \in Int /\ y = (s + a) + (x - (d + a)) /\ y = (s + (a + e)) + (x - (d + (a + e)))
    BY <1>0, <2>0
  <2>1. CASE x \in d + a .. (d + a) + e - 1
    <3>2. /\ y \in 0 .. M - 1
          /\ y \notin d + (a + e) .. (d + (a + e)) + (n - (a + e)) - 1
      BY <1>0, <2>0, <2>1
    <3>3. x \in d + a .. (d + a) + (n - a) - 1
      BY <1>0, <2>1
    <3>4. v[x] = u[y] /\ w[x] = m[y]
      BY <1>2, <1>3, <2>00, <2>1, <3>2, <3>3
    <3>5. QED BY <1>1, <3>2, <3>4
  <2>2. CASE x \notin d + a .. (d + a) + e - 1
    <3>1. x \in d + a .. (d + a) + (n - a) - 1
            <=> x \in d + (a + e) .. (d + (a + e)) + (n - (a + e)) - 1
      BY <1>0, <2>2
    <3>2. v[x] = u[x]
      BY <1>2, <2>2
    <3>3. QED BY <1>1, <1>3, <2>00, <3>1, <3>2
  <2>3. QED BY <2>1, <2>2
<1>5. v = w
  BY <1>2, <1>3, <1>4
<1>6. QED BY <1>5 DEF u, v, w

\* Nothing is copied when the count is 0.
LEMMA CopyNone ==
  ASSUME NEW m \in Memory, NEW d \in Int, NEW s \in Int
  PROVE  Copied(m, d, s, 0) = m
<1>1. \A x : ~(x \in d .. d + 0 - 1)
  OBVIOUS
<1>2. QED BY <1>1 DEF Copied, Memory


\* A move in ascending pieces is a copy, unless the destination starts inside the
\* source.
LEMMA MoveUp ==
  ASSUME NEW m \in Memory, NEW d \in Nat, NEW s \in Nat, NEW count \in Nat,
         s + count <= M, d <= s \/ s + count <= d,
         NEW ps, Run(ps, 0, count)
  PROVE  move(m, d, s, ps) = Copied(m, d, s, count)
<1> DEFINE L == Len(ps)
           End(k) == EndOf(ps, 0, k)
           w == [k \in 0 .. L |-> Copied(m, d, s, End(k))]
<1>0. L \in Nat
  <2>1. ps \in Seq(Pieces)
    BY DEF Run
  <2>2. QED BY <2>1
<1>1. /\ \A k \in 0 .. L : End(k) \in 0 .. count
      /\ \A k \in 1 .. L :
           /\ ps[k].at \in 0 .. count /\ ps[k].size \in 1 .. count
           /\ ps[k].at + ps[k].size <= count
           /\ ps[k].at + ps[k].size = End(k) /\ ps[k].at = End(k - 1)
  BY PiecesOrdered
<1>2. End(0) = 0 /\ End(L) = count
  BY DEF EndOf, Run
<1> HIDE DEF End, L
<1>3. w[0] = m
  <2>1. w[0] = Copied(m, d, s, 0)
    BY <1>0, <1>2
  <2>2. QED BY <2>1, CopyNone
<1>4. ASSUME NEW k \in 1 .. L
      PROVE  w[k] = Copied(w[k - 1], d + ps[k].at, s + ps[k].at, ps[k].size)
  <2>1. PICK a \in Nat, e \in Nat : a = ps[k].at /\ e = ps[k].size
    BY <1>1
  <2>2. a + e <= count /\ End(k) = a + e /\ End(k - 1) = a
    BY <1>1, <2>1
  <2>3. w[k] = Copied(m, d, s, a + e) /\ w[k - 1] = Copied(m, d, s, a)
    BY <1>0, <2>2
  <2>4. Copied(Copied(m, d, s, a), d + a, s + a, e) = Copied(m, d, s, a + e)
    <3>1. UpPart(d, s, count, a, e)
      BY <2>2 DEF UpPart
    <3>2. QED BY <3>1, CopyUp
  <2>5. QED BY <2>1, <2>3, <2>4
<1>5. w = [k \in 0 .. L |-> w[k]]
  OBVIOUS
<1>6. w[L] = Copied(m, d, s, count)
  <2>1. L \in 0 .. L
    BY <1>0
  <2>2. QED BY <1>2, <2>1
<1> HIDE DEF w
<1>7. move(m, d, s, ps) = w[L]
  <2>1. MoveSteps(w, m, d, s, ps)
    BY <1>0, <1>3, <1>4, <1>5 DEF L, MoveSteps
  <2>2. QED BY <2>1, MoveIs DEF L
<1>8. QED BY <1>6, <1>7

\* A move in descending pieces is a copy, when the destination is behind the source.
LEMMA MoveDown ==
  ASSUME NEW m \in Memory, NEW d \in Nat, NEW s \in Nat, NEW count \in Nat,
         s + count <= M, s < d,
         NEW ps, Run(ps, 0, count)
  PROVE  move(m, d, s, Reverse(ps)) = Copied(m, d, s, count)
<1> DEFINE L == Len(ps)
           End(k) == EndOf(ps, 0, k)
           rs == Reverse(ps)
           w == [k \in 0 .. L |-> Copied(m, d + End(L - k), s + End(L - k), count - End(L - k))]
<1>0. L \in Nat
  <2>1. ps \in Seq(Pieces)
    BY DEF Run
  <2>2. QED BY <2>1
<1>00. Len(rs) = L /\ \A k \in 1 .. L : rs[k] = ps[(L - k) + 1]
  BY <1>0 DEF Reverse
<1>1. /\ \A k \in 0 .. L : End(k) \in 0 .. count
      /\ \A k \in 1 .. L :
           /\ ps[k].at \in 0 .. count /\ ps[k].size \in 1 .. count
           /\ ps[k].at + ps[k].size <= count
           /\ ps[k].at + ps[k].size = End(k) /\ ps[k].at = End(k - 1)
  BY PiecesOrdered
<1>2. End(0) = 0 /\ End(L) = count
  BY DEF EndOf, Run
<1> HIDE DEF End, L, rs
<1>3. w[0] = m
  <2>1. w[0] = Copied(m, d + count, s + count, 0)
    <3>1. L - 0 = L /\ 0 \in 0 .. L /\ count - count = 0
      BY <1>0
    <3>2. QED BY <1>2, <3>1
  <2>2. QED BY <2>1, CopyNone
<1>4. ASSUME NEW k \in 1 .. L
      PROVE  w[k] = Copied(w[k - 1], d + rs[k].at, s + rs[k].at, rs[k].size)
  <2>0. PICK j : j = (L - k) + 1
    OBVIOUS
  <2>00. j \in 1 .. L /\ j - 1 = L - k /\ j = L - (k - 1) /\ k - 1 \in 0 .. L /\ k \in 0 .. L
    BY <1>0, <2>0
  <2>1. PICK a \in Nat, e \in Nat : a = ps[j].at /\ e = ps[j].size
    BY <1>1, <2>00
  <2>2. a + e <= count /\ End(j) = a + e /\ End(j - 1) = a
    BY <1>1, <2>00, <2>1
  <2>3. /\ w[k] = Copied(m, d + a, s + a, count - a)
        /\ w[k - 1] = Copied(m, d + (a + e), s + (a + e), count - (a + e))
    BY <2>00, <2>2
  <2>4. Copied(Copied(m, d + (a + e), s + (a + e), count - (a + e)), d + a, s + a, e)
          = Copied(m, d + a, s + a, count - a)
    <3>1. DownPart(d, s, count, a, e)
      BY <2>2 DEF DownPart
    <3>2. QED BY <3>1, CopyDown
  <2>5. rs[k] = ps[j]
    BY <1>00, <2>0
  <2>6. QED BY <2>1, <2>3, <2>4, <2>5
<1>5. w = [k \in 0 .. L |-> w[k]]
  OBVIOUS
<1>6. w[L] = Copied(m, d, s, count)
  <2>1. L \in 0 .. L /\ L - L = 0 /\ d + 0 = d /\ s + 0 = s /\ count - 0 = count
    BY <1>0
  <2>2. QED BY <1>2, <2>1
<1> HIDE DEF w
<1>7. move(m, d, s, rs) = w[L]
  <2>1. Len(rs) \in Nat /\ Len(rs) = L
    BY <1>0, <1>00
  <2>2. \A k \in 1 .. Len(rs) :
          w[k] = Copied(w[k - 1], d + rs[k].at, s + rs[k].at, rs[k].size)
    BY <1>4, <2>1
  <2>3. w = [k \in 0 .. Len(rs) |-> w[k]]
    BY <1>5, <2>1
  <2>4. MoveSteps(w, m, d, s, rs)
    BY <1>3, <2>1, <2>2, <2>3 DEF MoveSteps
  <2>5. QED BY <2>1, <2>4, MoveIs
<1>8. QED BY <1>6, <1>7 DEF rs

\* memset in ascending pieces sets every byte asked for.
LEMMA SetRight ==
  ASSUME NEW m \in Memory, NEW s \in Nat, NEW b, NEW count \in Nat
  PROVE  memset(m, s, b, count).mem
           = [a \in DOMAIN m |-> IF a \in s .. s + count - 1 THEN b ELSE m[a]]
<1> DEFINE ps == upward(s, count)
           L == Len(ps)
           End(k) == EndOf(ps, 0, k)
           Set(n) == [a \in 0 .. M - 1 |-> IF a \in s .. s + n - 1 THEN b ELSE m[a]]
           w == [k \in 0 .. L |-> Set(End(k))]
<1>00. Run(ps, 0, count)
  BY UpwardRun
<1> HIDE DEF ps
<1>0. L \in Nat
  <2>1. ps \in Seq(Pieces)
    BY <1>00 DEF Run
  <2>2. QED BY <2>1
<1>1. /\ \A k \in 0 .. L : End(k) \in 0 .. count
      /\ \A k \in 1 .. L :
           /\ ps[k].at \in 0 .. count /\ ps[k].size \in 1 .. count
           /\ ps[k].at + ps[k].size <= count
           /\ ps[k].at + ps[k].size = End(k) /\ ps[k].at = End(k - 1)
  BY <1>00, PiecesOrdered
<1>2. End(0) = 0 /\ End(L) = count
  BY <1>00 DEF EndOf, Run
<1>3. Set(0) = m
  <2>1. \A x : ~(x \in s .. s + 0 - 1)
    OBVIOUS
  <2>2. QED BY <2>1 DEF Memory
<1>4. ASSUME NEW a \in Nat, NEW e \in Nat
      PROVE  Put(Set(a), s + a, [j \in 1 .. e |-> b]) = Set(a + e)
  <2> DEFINE q == [j \in 1 .. e |-> b]
             u == Set(a)
             v == Put(u, s + a, q)
             z == Set(a + e)
  <2>1. DOMAIN u = 0 .. M - 1 /\ \A x \in 0 .. M - 1 : u[x] = IF x \in s .. s + a - 1 THEN b ELSE m[x]
    OBVIOUS
  <2>2. Len(q) = e /\ \A j \in 1 .. e : q[j] = b
    OBVIOUS
  <2> HIDE DEF u, q
  <2>3. v = [x \in 0 .. M - 1 |->
               IF x \in s + a .. (s + a) + e - 1 THEN q[x - (s + a) + 1] ELSE u[x]]
    BY <2>1, <2>2 DEF Put
  <2>4. z = [x \in 0 .. M - 1 |-> IF x \in s .. s + (a + e) - 1 THEN b ELSE m[x]]
    OBVIOUS
  <2> HIDE DEF v, z
  <2>5. M \in Nat
    BY BytesAssumption DEF M
  <2>6. ASSUME NEW x \in 0 .. M - 1 PROVE v[x] = z[x]
    <3>1. CASE x \in s + a .. (s + a) + e - 1
      <4>1. x - (s + a) + 1 \in 1 .. e /\ x \in s .. s + (a + e) - 1
        BY <2>5, <3>1
      <4>2. QED BY <2>2, <2>3, <2>4, <3>1, <4>1
    <3>2. CASE x \notin s + a .. (s + a) + e - 1
      <4>1. x \in s .. s + (a + e) - 1 <=> x \in s .. s + a - 1
        BY <2>5, <3>2
      <4>2. QED BY <2>1, <2>3, <2>4, <3>2, <4>1
    <3>3. QED BY <3>1, <3>2
  <2>7. v = z
    BY <2>3, <2>4, <2>6
  <2>8. QED BY <2>7 DEF u, v, z, q
<1> HIDE DEF End, L, Set
<1>5. ASSUME NEW k \in 1 .. L
      PROVE  w[k] = Put(w[k - 1], s + ps[k].at, [j \in 1 .. ps[k].size |-> b])
  <2>1. PICK a \in Nat, e \in Nat : a = ps[k].at /\ e = ps[k].size
    BY <1>1
  <2>2. End(k) = a + e /\ End(k - 1) = a
    BY <1>1, <2>1
  <2>3. w[k] = Set(a + e) /\ w[k - 1] = Set(a)
    BY <1>0, <2>2
  <2>4. Put(Set(a), s + a, [j \in 1 .. e |-> b]) = Set(a + e)
    BY <1>4
  <2>5. QED BY <2>1, <2>3, <2>4
<1>6. w[0] = m /\ w[L] = Set(count)
  <2>1. L \in 0 .. L /\ 0 \in 0 .. L
    BY <1>0
  <2>2. QED BY <1>2, <1>3, <2>1
<1>7. w = [k \in 0 .. L |-> w[k]]
  OBVIOUS
<1> HIDE DEF w
<1>8. memset(m, s, b, count).mem = w[L]
  <2>1. ps = upward(s, count)
    BY DEF ps
  <2>2. SetSteps(w, m, s, b, ps)
    BY <1>0, <1>5, <1>6, <1>7 DEF L, SetSteps
  <2>3. QED BY <2>1, <2>2, SetIs DEF L
<1>9. QED BY <1>6, <1>8 DEF Set, Memory


-----------------------------------------------------------------------------
(* Comparison in pieces.                                                   *)

\* Ends grow from piece to piece.
LEMMA EndsGrow ==
  ASSUME NEW n \in Nat, NEW ps, Run(ps, 0, n), NEW j \in 0 .. Len(ps), NEW k \in j .. Len(ps)
  PROVE  EndOf(ps, 0, j) <= EndOf(ps, 0, k)
<1> DEFINE L == Len(ps)
           End(i) == EndOf(ps, 0, i)
           Bad == {i \in j .. L : ~(End(j) <= End(i))}
<1>0. L \in Nat
  <2>1. ps \in Seq(Pieces)
    BY DEF Run
  <2>2. QED BY <2>1
<1>1. /\ \A i \in 0 .. L : End(i) \in 0 .. n
      /\ \A i \in 1 .. L : /\ ps[i].at \in 0 .. n /\ ps[i].size \in 1 .. n
                           /\ ps[i].at + ps[i].size = End(i) /\ ps[i].at = End(i - 1)
  BY PiecesOrdered
<1>2. \A i \in 1 .. L : End(i - 1) <= End(i) /\ End(i - 1) \in Nat /\ End(i) \in Nat
  <2> HIDE DEF End, L
  <2> SUFFICES ASSUME NEW i \in 1 .. L
               PROVE  End(i - 1) <= End(i) /\ End(i - 1) \in Nat /\ End(i) \in Nat
    OBVIOUS
  <2>1. PICK a \in Nat, e \in Nat : a = ps[i].at /\ e = ps[i].size
    BY <1>1
  <2>2. End(i) = a + e /\ End(i - 1) = a
    BY <1>1, <2>1
  <2>3. QED BY <2>2
<1>3. End(j) \in Nat
  BY <1>1
<1> HIDE DEF End, L
<1>4. Bad = {}
  <2> SUFFICES ASSUME Bad # {} PROVE FALSE
    OBVIOUS
  <2>1. Bad \in SUBSET Nat
    BY <1>0 DEF L
  <2>2. PICK i \in Bad : \A x \in Bad : i <= x
    <3> HIDE DEF Bad
    <3>1. QED BY <2>1, LeastNatural
  <2>3. i # j
    BY <1>3, <2>2
  <2>4. i \in 1 .. L /\ i - 1 \in j .. L /\ ~(i <= i - 1)
    BY <1>0, <2>2, <2>3 DEF L
  <2>5. End(j) <= End(i - 1)
    BY <2>2, <2>4
  <2>6. End(j) <= End(i)
    BY <1>2, <1>3, <2>4, <2>5
  <2>7. QED BY <2>2, <2>6
<1>5. k \in j .. L
  BY DEF L
<1>6. End(j) <= End(k)
  BY <1>4, <1>5
<1>7. QED BY <1>6 DEF End

\* Every byte is in a piece.
LEMMA PieceOf ==
  ASSUME NEW n \in Nat, NEW ps, Run(ps, 0, n), NEW i \in 0 .. n - 1
  PROVE  \E k \in 1 .. Len(ps) : i \in ps[k].at .. ps[k].at + ps[k].size - 1
<1> DEFINE L == Len(ps)
           End(k) == EndOf(ps, 0, k)
           After == {k \in 0 .. L : i < End(k)}
<1>0. L \in Nat
  <2>1. ps \in Seq(Pieces)
    BY DEF Run
  <2>2. QED BY <2>1
<1>1. /\ \A k \in 0 .. L : End(k) \in 0 .. n
      /\ \A k \in 1 .. L : /\ ps[k].at \in 0 .. n /\ ps[k].size \in 1 .. n
                           /\ ps[k].at + ps[k].size = End(k) /\ ps[k].at = End(k - 1)
  BY PiecesOrdered
<1>2. End(0) = 0 /\ End(L) = n
  BY DEF EndOf, Run
<1> HIDE DEF End, L
<1>3. L \in After
  BY <1>0, <1>2
<1>4. PICK k \in After : \A x \in After : k <= x
  <2>1. After \in SUBSET Nat
    BY <1>0
  <2> HIDE DEF After
  <2>2. QED BY <1>3, <2>1, LeastNatural
<1>5. k # 0
  BY <1>2, <1>4
<1>6. k \in 1 .. L /\ k - 1 \in 0 .. L /\ ~(k <= k - 1)
  BY <1>0, <1>4, <1>5
<1>7. ~(i < End(k - 1))
  BY <1>4, <1>6
<1>8. PICK a \in Nat, e \in Nat : a = ps[k].at /\ e = ps[k].size
  BY <1>1, <1>6
<1>9. End(k) = a + e /\ End(k - 1) = a
  BY <1>1, <1>6, <1>8
<1>10. i < a + e /\ ~(i < a)
  BY <1>4, <1>7, <1>9
<1>11. i \in a .. a + e - 1
  BY <1>8, <1>10
<1>12. QED BY <1>6, <1>8, <1>11 DEF L

\* The difference of the first bytes that differ.
Compared(m, d, s, n) ==
  LET at == {i \in 0 .. n - 1 : m[d + i] # m[s + i]} IN
  IF at = {} THEN 0 ELSE m[d + Min(at)] - m[s + Min(at)]

\* The first byte that differs in the first piece that differs is the first that
\* differs.
LEMMA CompareRight ==
  ASSUME NEW m \in Memory, NEW cs \in Nat, NEW ct \in Nat, NEW count \in Nat
  PROVE  memcmp(m, cs, ct, count).ret = Compared(m, cs, ct, count)
<1> DEFINE ps == upward(cs, count)
           L == Len(ps)
           Differs(i) == m[cs + i] # m[ct + i]
           Piece(c) == c.at .. c.at + c.size - 1
           unequal == {k \in DOMAIN ps : \E i \in Piece(ps[k]) : Differs(i)}
           here == {j \in Piece(ps[Min(unequal)]) : Differs(j)}
           at == {i \in 0 .. count - 1 : Differs(i)}
<1>0. Run(ps, 0, count)
  BY UpwardRun
<1>1. memcmp(m, cs, ct, count).ret =
        IF unequal = {} THEN 0 ELSE m[cs + Min(here)] - m[ct + Min(here)]
  BY DEF memcmp, Gives
<1> HIDE DEF ps
<1>2. L \in Nat /\ DOMAIN ps = 1 .. L
  <2>1. ps \in Seq(Pieces)
    BY <1>0 DEF Run
  <2>2. QED BY <2>1
<1>3. \A k \in 1 .. L : /\ ps[k].at \in 0 .. count /\ ps[k].size \in 1 .. count
                        /\ ps[k].at + ps[k].size <= count
                        /\ ps[k].at + ps[k].size = EndOf(ps, 0, k) /\ ps[k].at = EndOf(ps, 0, k - 1)
  BY <1>0, PiecesOrdered
<1>31. \A k \in 1 .. L : ps[k].at \in Nat /\ ps[k].size \in Nat
  BY <1>3
<1>4. \A i \in 0 .. count - 1 : \E k \in 1 .. L : i \in Piece(ps[k])
  BY <1>0, PieceOf
<1>5. \A k \in 1 .. L : Piece(ps[k]) \subseteq 0 .. count - 1
  <2> SUFFICES ASSUME NEW k \in 1 .. L PROVE Piece(ps[k]) \subseteq 0 .. count - 1
    OBVIOUS
  <2>0. ps[k].at \in Nat /\ ps[k].size \in Nat /\ ps[k].at + ps[k].size <= count
    BY <1>3
  <2>1. PICK a \in Nat, e \in Nat : a = ps[k].at /\ e = ps[k].size
    BY <2>0
  <2>2. Piece(ps[k]) = a .. a + e - 1 /\ a + e <= count
    BY <2>0, <2>1
  <2> HIDE DEF Piece
  <2>3. QED BY <2>2
<1>6. ASSUME NEW j \in 1 .. L, NEW k \in 1 .. L, j < k,
             NEW x \in Piece(ps[j]), NEW y \in Piece(ps[k])
      PROVE  x <= y
  <2>1. j \in 0 .. L /\ k - 1 \in j .. L
    BY <1>2, <1>6
  <2>2. EndOf(ps, 0, j) <= EndOf(ps, 0, k - 1)
    BY <1>0, <2>1, EndsGrow
  <2>0. /\ ps[j].at \in Nat /\ ps[j].size \in Nat
        /\ ps[k].at \in Nat /\ ps[k].size \in Nat
    BY <1>31
  <2>3. PICK a \in Nat, e \in Nat : a = ps[j].at /\ e = ps[j].size
    BY <2>0
  <2>4. PICK b \in Nat, f \in Nat : b = ps[k].at /\ f = ps[k].size
    BY <2>0
  <2>5. a + e <= b
    BY <1>3, <2>2, <2>3, <2>4
  <2>6. x \in a .. a + e - 1 /\ y \in b .. b + f - 1
    BY <1>6, <2>3, <2>4
  <2>7. QED BY <2>5, <2>6
<1> HIDE DEF L, Piece, Differs
<1>7. unequal = {} <=> at = {}
  BY <1>2, <1>4, <1>5
<1>8. ASSUME unequal # {} PROVE Min(here) = Min(at)
  <2>1. unequal \in SUBSET Nat
    BY <1>2
  <2>2. PICK k : k = Min(unequal)
    OBVIOUS
  <2>3. k \in unequal /\ \A j \in unequal : k <= j
    <3> HIDE DEF unequal
    <3>1. QED BY <1>8, <2>1, <2>2, MinOf
  <2>4. k \in 1 .. L
    BY <1>2, <2>3
  <2>5. here = {j \in Piece(ps[k]) : Differs(j)} /\ here # {}
    BY <2>2, <2>3
  <2>6. here \in SUBSET Nat /\ here \subseteq at
    BY <1>5, <2>4, <2>5
  <2>7. PICK x : x = Min(here)
    OBVIOUS
  <2>8. x \in here /\ \A y \in here : x <= y
    <3> HIDE DEF here
    <3>1. QED BY <2>5, <2>6, <2>7, MinOf
  <2>9. ASSUME NEW y \in at PROVE x <= y
    <3>1. y \in 0 .. count - 1 /\ Differs(y)
      BY <2>9
    <3>2. PICK j \in 1 .. L : y \in Piece(ps[j])
      BY <1>4, <3>1
    <3>3. j \in unequal
      BY <1>2, <3>1, <3>2
    <3>4. k <= j
      BY <2>3, <3>3
    <3>5. CASE j = k
      BY <2>5, <2>8, <3>1, <3>2, <3>5
    <3>6. CASE k < j
      BY <1>6, <2>4, <2>5, <2>8, <3>2, <3>6
    <3>7. QED BY <2>4, <3>4, <3>5, <3>6
  <2>10. at \in SUBSET Int /\ x \in at
    BY <2>6, <2>8
  <2> HIDE DEF at
  <2>11. Min(at) = x
    BY <2>9, <2>10, MinIs
  <2>12. QED BY <2>7, <2>11
<1>9. memcmp(m, cs, ct, count).ret = IF at = {} THEN 0 ELSE m[cs + Min(at)] - m[ct + Min(at)]
  <2> HIDE DEF unequal, here, at
  <2>1. QED BY <1>1, <1>7, <1>8
<1>10. QED BY <1>9 DEF Differs, Compared


-----------------------------------------------------------------------------
(* The functions of mem_op.cpp, whatever the block.                        *)

\* Before the call the memory and its arguments are as they were set up.
Ready ==
  \/ \E x, y \in Strings, a, b \in 0 .. WORD - 1 :
       /\ mem = Layout(x, a, y, b)
       /\ args = [kind |-> "strings", s1 |-> a, s2 |-> R + b]
  \/ /\ mem \in Blocks
     /\ args = [kind |-> "block"]

CallInv == call = NoCall => Ready

\* Before the first call.
LEMMA CallInit == Init => CallInv
  BY DEF Init, CallInv, Ready

\* A call is the last step.
LEMMA CallLast ==
  ASSUME NEW op, op # "none", NEW more, NEW result, Call(op, more, result)
  PROVE  /\ call' # NoCall /\ call'.op = op /\ call'.args = more /\ call'.before = mem
         /\ call'.ret = result.ret /\ call'.reads = result.reads /\ mem' = result.mem
         /\ args' = args
  BY DEF Call, NoCall

\* memcpy, memmove, memset and memcmp on blocks within the memory.
LEMMA BlockOps ==
  ASSUME NEW m \in Memory, NEW d \in Nat, NEW s \in Nat, NEW n \in Nat, s + n <= M
  PROVE  /\ d + n <= s \/ s + n <= d =>
              memcpy(m, d, s, n).mem = Copied(m, d, s, n) /\ memcpy(m, d, s, n).ret = d
         /\ memmove(m, d, s, n).mem = Copied(m, d, s, n) /\ memmove(m, d, s, n).ret = d
<1>1. Run(upward(d, n), 0, n)
  BY UpwardRun
<1>2. ASSUME d <= s \/ s + n <= d PROVE move(m, d, s, upward(d, n)) = Copied(m, d, s, n)
  <2>1. PICK ps : ps = upward(d, n)
    OBVIOUS
  <2>2. QED BY <1>1, <1>2, <2>1, MoveUp
<1>3. ASSUME s < d PROVE move(m, d, s, downward(d, n)) = Copied(m, d, s, n)
  <2>1. PICK ps : Run(ps, 0, n) /\ downward(d, n) = Reverse(ps)
    BY DownwardRun
  <2>2. QED BY <1>3, <2>1, MoveDown
<1>4. d + n <= s \/ s + n <= d =>
        memcpy(m, d, s, n).mem = Copied(m, d, s, n) /\ memcpy(m, d, s, n).ret = d
  <2>1. d + n <= s => d <= s
    OBVIOUS
  <2>2. QED BY <1>2, <2>1 DEF memcpy, Gives
<1>5. memmove(m, d, s, n).ret = d
  BY DEF memmove, Gives
<1>6. memmove(m, d, s, n).mem = Copied(m, d, s, n)
  <2>1. CASE d = s \/ n = 0
    <3>1. Copied(m, d, s, n) = m
      <4>1. CASE n = 0
        BY <4>1, CopyNone
      <4>2. CASE d = s
        <5>1. \A a \in 0 .. M - 1 : s + (a - d) = a
          BY <4>2, BytesAssumption DEF M
        <5>2. QED BY <5>1 DEF Copied, Memory
      <4>3. QED BY <2>1, <4>1, <4>2
    <3>2. QED BY <2>1, <3>1 DEF memmove, Gives
  <2>2. CASE ~(d = s \/ n = 0) /\ d > s /\ d < s + n
    BY <1>3, <2>2 DEF memmove, Gives
  <2>3. CASE ~(d = s \/ n = 0) /\ ~(d > s /\ d < s + n)
    BY <1>2, <2>3 DEF memmove, Gives
  <2>4. QED BY <2>1, <2>2, <2>3
<1>7. QED BY <1>4, <1>5, <1>6


\* The memory of a block call.
LEMMA BlockMemory ==
  ASSUME CallInv, BlockCall
  PROVE  mem \in Memory
<1>1. mem \in Blocks
  BY DEF CallInv, Ready, BlockCall
<1>2. QED BY <1>1, BytesAssumption DEF Memory

\* Only BlockCall makes calls of mem_op.cpp.
LEMMA StringOps ==
  ASSUME StringCall
  PROVE  call'.op \notin {"none", "memcpy", "memmove", "memset", "memcmp"}
<1> DEFINE s1 == args.s1
           s2 == args.s2
           m == mem
<1>1. ASSUME NEW op, op \notin {"none", "memcpy", "memmove", "memset", "memcmp"}, NEW more,
             NEW result, Call(op, more, result)
      PROVE  call'.op \notin {"none", "memcpy", "memmove", "memset", "memcmp"}
  BY <1>1 DEF Call
<1>2. CASE Call("strlen", <<>>, strlen(m, s1)) \/ Call("strcpy", <<>>, strcpy(m, s1, s2))
  BY <1>2 DEF Call
<1>3. CASE Call("strcat", <<>>, strcat(m, s1, s2)) \/ Call("strcmp", <<>>, strcmp(m, s1, s2))
  BY <1>3 DEF Call
<1>4. CASE Call("strcasecmp", <<>>, strcasecmp(m, s1, s2)) \/ Call("strstr", <<>>, strstr(m, s1, s2))
  BY <1>4 DEF Call
<1>5. ASSUME NEW n \in Counts,
             \/ Call("strnlen", <<n>>, strnlen(m, s1, n))
             \/ Call("strncpy", <<n>>, strncpy(m, s1, s2, n))
             \/ Call("strlcpy", <<n>>, strlcpy(m, s1, s2, n))
             \/ Call("strncat", <<n>>, strncat(m, s1, s2, n))
             \/ Call("strlcat", <<n>>, strlcat(m, s1, s2, n))
             \/ Call("strncmp", <<n>>, strncmp(m, s1, s2, n))
             \/ Call("strncasecmp", <<n>>, strncasecmp(m, s1, s2, n))
             \/ Call("strnstr", <<n>>, strnstr(m, s1, s2, n))
      PROVE  call'.op \notin {"none", "memcpy", "memmove", "memset", "memcmp"}
  BY <1>5 DEF Call
<1>6. ASSUME NEW c \in Chars,
             \/ Call("strchr", <<c>>, strchr(m, s1, c))
             \/ Call("strrchr", <<c>>, strrchr(m, s1, c))
             \/ \E n \in Counts : Call("strnchr", <<n, c>>, strnchr(m, s1, n, c))
      PROVE  call'.op \notin {"none", "memcpy", "memmove", "memset", "memcmp"}
  BY <1>6 DEF Call
<1>7. QED BY <1>2, <1>3, <1>4, <1>5, <1>6, Zenon DEF StringCall

\* The calls of BlockCall, with their arguments.
LEMMA BlockKinds ==
  ASSUME BlockCall
  PROVE  \E d, s, n \in Nat :
           /\ d + n <= M /\ s + n <= M
           /\ \/ (d + n <= s \/ s + n <= d) /\ Call("memcpy", <<d, s, n>>, memcpy(mem, d, s, n))
              \/ Call("memmove", <<d, s, n>>, memmove(mem, d, s, n))
              \/ Call("memcmp", <<d, s, n>>, memcmp(mem, d, s, n))
              \/ Call("memset", <<d, n>>, memset(mem, d, 255, n))
<1>0. M \in Nat
  BY BytesAssumption DEF M
<1>1. PICK d \in 0 .. M - 1, s \in 0 .. M - 1 :
        \E n \in 0 .. M - Max({d, s}) :
          \/ (d + n <= s \/ s + n <= d) /\ Call("memcpy", <<d, s, n>>, memcpy(mem, d, s, n))
          \/ Call("memmove", <<d, s, n>>, memmove(mem, d, s, n))
          \/ Call("memcmp", <<d, s, n>>, memcmp(mem, d, s, n))
          \/ s = 0 /\ Call("memset", <<d, n>>, memset(mem, d, 255, n))
  BY Zenon DEF BlockCall
<1>2. PICK n \in 0 .. M - Max({d, s}) :
        \/ (d + n <= s \/ s + n <= d) /\ Call("memcpy", <<d, s, n>>, memcpy(mem, d, s, n))
        \/ Call("memmove", <<d, s, n>>, memmove(mem, d, s, n))
        \/ Call("memcmp", <<d, s, n>>, memcmp(mem, d, s, n))
        \/ s = 0 /\ Call("memset", <<d, n>>, memset(mem, d, 255, n))
  BY <1>1
<1>3. Max({d, s}) = IF d >= s THEN d ELSE s
  BY <1>0, MaxPair
<1>4. d \in Nat /\ s \in Nat /\ n \in Nat /\ d + n <= M /\ s + n <= M
  BY <1>0, <1>3
<1>5. QED BY <1>2, <1>4, Zenon

\* Every step keeps what is known of the call.
LEMMA CallNext ==
  ASSUME CallInv, [Next]_vars
  PROVE  CallInv'
<1>1. CASE StringCall
  <2>1. call'.op # "none"
    BY <1>1, StringOps
  <2>2. QED BY <2>1 DEF CallInv, NoCall
<1>2. CASE BlockCall
  <2>1. call'.op # "none"
    <3>1. PICK d, s, n \in Nat :
            /\ d + n <= M /\ s + n <= M
            /\ \/ (d + n <= s \/ s + n <= d) /\ Call("memcpy", <<d, s, n>>, memcpy(mem, d, s, n))
               \/ Call("memmove", <<d, s, n>>, memmove(mem, d, s, n))
               \/ Call("memcmp", <<d, s, n>>, memcmp(mem, d, s, n))
               \/ Call("memset", <<d, n>>, memset(mem, d, 255, n))
      BY <1>2, BlockKinds
    <3>2. QED BY <3>1 DEF Call
  <2>2. QED BY <2>1 DEF CallInv, NoCall
<1>3. CASE UNCHANGED vars
  BY <1>3 DEF vars, CallInv, Ready
<1>4. QED BY <1>1, <1>2, <1>3 DEF Next

\* Every step keeps BlocksRight.
LEMMA BlocksNext ==
  ASSUME CallInv, BlocksRight, [Next]_vars
  PROVE  BlocksRight'
<1>1. CASE StringCall
  <2>1. call'.op \notin {"none", "memcpy", "memmove", "memset", "memcmp"}
    BY <1>1, StringOps
  <2>2. QED BY <2>1 DEF BlocksRight, Called
<1>2. CASE BlockCall
  <2>0. mem \in Memory
    BY <1>2, BlockMemory
  <2>1. PICK d, s, n \in Nat :
          /\ d + n <= M /\ s + n <= M
          /\ \/ (d + n <= s \/ s + n <= d) /\ Call("memcpy", <<d, s, n>>, memcpy(mem, d, s, n))
             \/ Call("memmove", <<d, s, n>>, memmove(mem, d, s, n))
             \/ Call("memcmp", <<d, s, n>>, memcmp(mem, d, s, n))
             \/ Call("memset", <<d, n>>, memset(mem, d, 255, n))
    BY <1>2, BlockKinds
  <2>2. /\ d + n <= s \/ s + n <= d =>
             memcpy(mem, d, s, n).mem = Copied(mem, d, s, n) /\ memcpy(mem, d, s, n).ret = d
        /\ memmove(mem, d, s, n).mem = Copied(mem, d, s, n) /\ memmove(mem, d, s, n).ret = d
    BY <2>0, <2>1, BlockOps
  <2>3. CASE (d + n <= s \/ s + n <= d) /\ Call("memcpy", <<d, s, n>>, memcpy(mem, d, s, n))
    <3>1. /\ call'.op = "memcpy" /\ call'.args = <<d, s, n>> /\ call'.before = mem
          /\ call'.ret = d /\ mem' = Copied(mem, d, s, n)
      BY <2>2, <2>3 DEF Call
    <3>2. QED BY <3>1 DEF BlocksRight, Called
  <2>4. CASE Call("memmove", <<d, s, n>>, memmove(mem, d, s, n))
    <3>1. /\ call'.op = "memmove" /\ call'.args = <<d, s, n>> /\ call'.before = mem
          /\ call'.ret = d /\ mem' = Copied(mem, d, s, n)
      BY <2>2, <2>4 DEF Call
    <3>2. QED BY <3>1 DEF BlocksRight, Called
  <2>5. CASE Call("memcmp", <<d, s, n>>, memcmp(mem, d, s, n))
    <3>1. /\ call'.op = "memcmp" /\ call'.args = <<d, s, n>> /\ call'.before = mem
          /\ call'.ret = memcmp(mem, d, s, n).ret
      BY <2>5 DEF Call
    <3>2. memcmp(mem, d, s, n).ret = Compared(mem, d, s, n)
      BY <2>0, CompareRight
    <3>3. QED BY <3>1, <3>2 DEF BlocksRight, Called, Compared
  <2>6. CASE Call("memset", <<d, n>>, memset(mem, d, 255, n))
    <3>1. /\ call'.op = "memset" /\ call'.args = <<d, n>> /\ call'.before = mem
          /\ mem' = memset(mem, d, 255, n).mem
      BY <2>6 DEF Call
    <3>2. memset(mem, d, 255, n).mem =
            [a \in DOMAIN mem |-> IF a \in d .. d + n - 1 THEN 255 ELSE mem[a]]
      BY <2>0, SetRight
    <3>3. QED BY <3>1, <3>2 DEF BlocksRight, Called
  <2>7. QED BY <2>1, <2>3, <2>4, <2>5, <2>6
<1>3. CASE UNCHANGED vars
  BY <1>3 DEF vars, BlocksRight, Called
<1>4. QED BY <1>1, <1>2, <1>3 DEF Next

\* memset, memcpy, memmove and memcmp do what they promise for every word size,
\* memory, alignment, count and overlap, although they work in pieces and memmove
\* chooses its direction from the addresses alone (mem_op.cpp).
THEOREM BlocksCorrect == Spec => []BlocksRight
<1>1. Init => BlocksRight
  BY DEF Init, BlocksRight, Called, NoCall
<1>2. CallInv /\ BlocksRight /\ [Next]_vars => CallInv' /\ BlocksRight'
  BY CallNext, BlocksNext
<1>3. QED BY <1>1, <1>2, CallInit, PTL DEF Spec


-----------------------------------------------------------------------------
(* Strings in memory.                                                      *)

\* The string x stands at p, with its NUL.
IsString(m, p, x) ==
  /\ x \in Seq(1 .. 255) /\ p \in Nat /\ p + Len(x) < M
  /\ \A i \in 0 .. Len(x) - 1 : m[p + i] = x[i + 1] /\ m[p + i] \in 1 .. 255
  /\ m[p + Len(x)] = 0

\* What a Put leaves.
LEMMA PutIs ==
  ASSUME NEW m \in Memory, NEW d \in Nat, NEW s \in Seq(0 .. 255)
  PROVE  /\ Put(m, d, s) \in Memory
         /\ \A i \in 0 .. Len(s) - 1 : d + i < M => Put(m, d, s)[d + i] = s[i + 1]
         /\ \A a \in 0 .. M - 1 : ~(a \in d .. d + Len(s) - 1) => Put(m, d, s)[a] = m[a]
<1>0. M \in Nat /\ Len(s) \in Nat /\ DOMAIN m = 0 .. M - 1
  BY BytesAssumption DEF M, Memory
<1>1. \A k \in 1 .. Len(s) : s[k] \in 0 .. 255
  BY ElementOfSeq
<1>2. \A a \in 0 .. M - 1 : m[a] \in 0 .. 255
  BY DEF Memory
<1>3. Put(m, d, s) \in Memory
  <2>1. ASSUME NEW a \in 0 .. M - 1
        PROVE  (IF a \in d .. d + Len(s) - 1 THEN s[a - d + 1] ELSE m[a]) \in 0 .. 255
    <3>1. a \in d .. d + Len(s) - 1 => a - d + 1 \in 1 .. Len(s)
      BY <1>0
    <3>2. QED BY <1>1, <1>2, <3>1
  <2>2. QED BY <1>0, <2>1 DEF Put, Memory
<1>4. ASSUME NEW i \in 0 .. Len(s) - 1, d + i < M PROVE Put(m, d, s)[d + i] = s[i + 1]
  <2>1. d + i \in 0 .. M - 1 /\ d + i \in d .. d + Len(s) - 1 /\ (d + i) - d + 1 = i + 1
    BY <1>0, <1>4
  <2>2. PICK a : a = d + i
    OBVIOUS
  <2>3. Put(m, d, s)[a] = s[a - d + 1] /\ a - d + 1 = i + 1
    BY <1>0, <2>1, <2>2 DEF Put
  <2>4. QED BY <2>2, <2>3
<1>5. ASSUME NEW a \in 0 .. M - 1, ~(a \in d .. d + Len(s) - 1) PROVE Put(m, d, s)[a] = m[a]
  BY <1>0, <1>5 DEF Put
<1>6. QED BY <1>3, <1>4, <1>5

\* A string and its NUL.
LEMMA WithNul ==
  ASSUME NEW x \in Seq(1 .. 255)
  PROVE  /\ Len(x) \in Nat
         /\ x \o <<0>> \in Seq(0 .. 255) /\ Len(x \o <<0>>) = Len(x) + 1
         /\ \A i \in 0 .. Len(x) - 1 : (x \o <<0>>)[i + 1] = x[i + 1] /\ x[i + 1] \in 1 .. 255
         /\ (x \o <<0>>)[Len(x) + 1] = 0
<1>1. Len(x) \in Nat
  OBVIOUS
<1>2. \A k \in 1 .. Len(x) : x[k] \in 1 .. 255
  BY ElementOfSeq
<1>3. x \in Seq(0 .. 255)
  BY <1>1, <1>2
<1>4. x \o <<0>> \in Seq(0 .. 255) /\ Len(x \o <<0>>) = Len(x) + 1
  BY <1>3
<1>5. ASSUME NEW i \in 0 .. Len(x) - 1 PROVE (x \o <<0>>)[i + 1] = x[i + 1] /\ x[i + 1] \in 1 .. 255
  <2>1. i + 1 \in 1 .. Len(x)
    BY <1>1
  <2>2. QED BY <1>2, <1>3, <2>1
<1>6. (x \o <<0>>)[Len(x) + 1] = 0
  BY <1>1, <1>3
<1>7. QED BY <1>1, <1>4, <1>5, <1>6

\* Both strings of a call stand in the memory that Layout makes.
LEMMA LayoutRight ==
  ASSUME NEW x \in Strings, NEW y \in Strings,
         NEW a \in 0 .. WORD - 1, NEW b \in 0 .. WORD - 1
  PROVE  /\ Layout(x, a, y, b) \in Memory
         /\ IsString(Layout(x, a, y, b), a, x)
         /\ IsString(Layout(x, a, y, b), R + b, y)
<1> DEFINE X == x \o <<0>>
           Y == y \o <<0>>
           m0 == [p \in 0 .. M - 1 |-> Filler]
           m1 == Put(m0, a, X)
           m2 == Put(m1, R + b, Y)
<1>0. /\ x \in Seq(1 .. 255) /\ y \in Seq(1 .. 255) /\ WORD \in Nat \ {0} /\ R \in Nat
      /\ M \in Nat /\ M = 2 * R
  BY BytesAssumption DEF M
<1>1. m0 \in Memory
  BY <1>0, BytesAssumption DEF Memory
<1>2. /\ Len(x) \in Nat /\ X \in Seq(0 .. 255) /\ Len(X) = Len(x) + 1
      /\ \A i \in 0 .. Len(x) - 1 : X[i + 1] = x[i + 1] /\ x[i + 1] \in 1 .. 255
      /\ X[Len(x) + 1] = 0
  BY <1>0, WithNul
<1>3. /\ Len(y) \in Nat /\ Y \in Seq(0 .. 255) /\ Len(Y) = Len(y) + 1
      /\ \A i \in 0 .. Len(y) - 1 : Y[i + 1] = y[i + 1] /\ y[i + 1] \in 1 .. 255
      /\ Y[Len(y) + 1] = 0
  BY <1>0, WithNul
<1>4. WORD + Len(x) <= R /\ WORD + Len(y) <= R
  <2>1. WORD + Len(x) + Len(y) <= R
    BY RoomAssumption
  <2>2. QED BY <1>0, <1>2, <1>3, <2>1
<1>5. a \in Nat /\ R + b \in Nat /\ a + Len(x) < R + b /\ a + Len(x) < M /\ (R + b) + Len(y) < M
  BY <1>0, <1>2, <1>3, <1>4
<1> HIDE DEF X, Y, m0
<1>6. /\ m1 \in Memory
      /\ \A i \in 0 .. Len(X) - 1 : a + i < M => m1[a + i] = X[i + 1]
  BY <1>1, <1>2, <1>5, PutIs
<1> HIDE DEF m1
<1>7. PICK q \in Nat : q = R + b
  BY <1>5
<1>8. /\ m2 \in Memory
      /\ \A i \in 0 .. Len(Y) - 1 : q + i < M => m2[q + i] = Y[i + 1]
      /\ \A c \in 0 .. M - 1 : ~(c \in q .. q + Len(Y) - 1) => m2[c] = m1[c]
  <2>1. m2 = Put(m1, q, Y)
    BY <1>7
  <2> HIDE DEF m2
  <2>2. m1 \in Memory /\ Y \in Seq(0 .. 255)
    BY <1>3, <1>6
  <2>3. /\ Put(m1, q, Y) \in Memory
        /\ \A i \in 0 .. Len(Y) - 1 : q + i < M => Put(m1, q, Y)[q + i] = Y[i + 1]
        /\ \A c \in 0 .. M - 1 : ~(c \in q .. q + Len(Y) - 1) => Put(m1, q, Y)[c] = m1[c]
    BY <2>2, PutIs, Zenon
  <2>4. QED BY <2>1, <2>3, Zenon
<1> HIDE DEF m2
<1>9. IsString(m2, q, y)
  <2>1. ASSUME NEW i \in 0 .. Len(y) - 1 PROVE m2[q + i] = y[i + 1] /\ m2[q + i] \in 1 .. 255
    <3>1. i \in 0 .. Len(Y) - 1 /\ q + i < M
      BY <1>0, <1>3, <1>5, <1>7
    <3>2. QED BY <1>3, <1>8, <3>1
  <2>2. m2[q + Len(y)] = 0
    <3>1. Len(y) \in 0 .. Len(Y) - 1 /\ q + Len(y) < M
      BY <1>3, <1>5, <1>7
    <3>2. QED BY <1>3, <1>8, <3>1
  <2>3. q + Len(y) < M
    BY <1>5, <1>7
  <2>4. QED BY <1>0, <2>1, <2>2, <2>3 DEF IsString
<1>10. IsString(m2, a, x)
  <2>1. ASSUME NEW i \in 0 .. Len(x) PROVE m2[a + i] = X[i + 1]
    <3>1. i \in 0 .. Len(X) - 1 /\ a + i < M /\ a + i \in 0 .. M - 1 /\ ~(a + i \in q .. q + Len(Y) - 1)
      BY <1>0, <1>2, <1>3, <1>5, <1>7
    <3>2. QED BY <1>6, <1>8, <3>1
  <2>2. ASSUME NEW i \in 0 .. Len(x) - 1 PROVE m2[a + i] = x[i + 1] /\ m2[a + i] \in 1 .. 255
    <3>1. i \in 0 .. Len(x)
      BY <1>2
    <3>2. QED BY <1>2, <2>1, <3>1
  <2>3. m2[a + Len(x)] = 0
    BY <1>2, <2>1
  <2>4. QED BY <1>0, <1>5, <2>2, <2>3 DEF IsString
<1>11. Layout(x, a, y, b) = m2
  BY DEF Layout, m2, m1, m0, X, Y
<1>12. QED BY <1>7, <1>8, <1>9, <1>10, <1>11

\* The string that stands at p is what the properties find there.
LEMMA StringAtIs ==
  ASSUME NEW m, NEW p, NEW x, IsString(m, p, x)
  PROVE  StringAt(m, p) = x
<1>0. /\ x \in Seq(1 .. 255) /\ p \in Nat /\ p + Len(x) < M /\ M \in Nat /\ Len(x) \in Nat
      /\ \A i \in 0 .. Len(x) - 1 : m[p + i] = x[i + 1] /\ m[p + i] \in 1 .. 255
      /\ m[p + Len(x)] = 0
  <2>1. x \in Seq(1 .. 255)
    BY DEF IsString
  <2>2. QED BY <2>1, BytesAssumption DEF IsString, M
<1> DEFINE Z == {q \in p .. M - 1 : m[q] = 0}
<1>1. p + Len(x) \in Z
  BY <1>0
<1>2. ASSUME NEW q \in Z PROVE p + Len(x) <= q
  <2>1. PICK i : i = q - p
    OBVIOUS
  <2>2. q = p + i /\ i \in Nat /\ m[p + i] = 0
    BY <1>0, <2>1
  <2>3. ~(i \in 0 .. Len(x) - 1)
    <3> SUFFICES ASSUME i \in 0 .. Len(x) - 1 PROVE FALSE
      OBVIOUS
    <3>1. m[p + i] \in 1 .. 255
      BY <1>0
    <3>2. QED BY <2>2, <3>1
  <2>4. QED BY <1>0, <2>2, <2>3
<1>3. Z \in SUBSET Int
  BY <1>0
<1> HIDE DEF Z
<1>4. Min(Z) = p + Len(x)
  BY <1>1, <1>2, <1>3, MinIs
<1>5. StringAt(m, p) = [k \in 1 .. Len(x) |-> m[p + k - 1]]
  <2>1. (p + Len(x)) - p = Len(x)
    BY <1>0
  <2>2. StringAt(m, p) = [k \in 1 .. Min(Z) - p |-> m[p + k - 1]]
    BY DEF StringAt, Z
  <2>3. QED BY <1>4, <2>1, <2>2
<1>6. ASSUME NEW k \in 1 .. Len(x) PROVE m[p + k - 1] = x[k]
  <2>1. PICK i \in 0 .. Len(x) - 1 : i = k - 1
    BY <1>0
  <2>2. p + i = p + k - 1 /\ i + 1 = k
    BY <1>0, <2>1
  <2>3. QED BY <1>0, <2>1, <2>2
<1>7. x = [k \in 1 .. Len(x) |-> x[k]]
  BY <1>0
<1>8. QED BY <1>5, <1>6, <1>7


-----------------------------------------------------------------------------
(* Aligned addresses.                                                      *)

\* Multiples of a positive number are ordered like their factors.
LEMMA Multiples ==
  ASSUME NEW W \in Nat \ {0}, NEW i \in Nat, NEW j \in Nat
  PROVE  /\ W * i \in Nat
         /\ W * (i + j) = W * i + W * j
         /\ i <= j <=> W * i <= W * j
         /\ W * i < W * j + W => i <= j
<1>1. W * i \in Nat /\ W * (i + j) = W * i + W * j
  OBVIOUS
<1>2. i <= j => W * i <= W * j
  <2> SUFFICES ASSUME i <= j PROVE W * i <= W * j
    OBVIOUS
  <2>1. PICK k \in Nat : j = i + k
    <3>1. j - i \in Nat /\ j = i + (j - i)
      OBVIOUS
    <3>2. QED BY <3>1
  <2>2. W * j = W * i + W * k /\ W * k \in Nat /\ W * i \in Nat
    BY <2>1
  <2>3. QED BY <2>2
<1>3. ~(i <= j) => W * i >= W * j + W
  <2> SUFFICES ASSUME ~(i <= j) PROVE W * i >= W * j + W
    OBVIOUS
  <2>1. PICK k \in Nat : i = j + (1 + k)
    <3>1. (i - j) - 1 \in Nat /\ i = j + (1 + ((i - j) - 1))
      OBVIOUS
    <3>2. QED BY <3>1
  <2>2. W * i = W * j + (W + W * k) /\ W * k \in Nat /\ W * j \in Nat
    BY <2>1
  <2>3. QED BY <2>2
<1>4. W * j \in Nat
  OBVIOUS
<1>5. QED
  <2>1. PICK a \in Nat, b \in Nat : a = W * i /\ b = W * j
    BY <1>1, <1>4
  <2>2. (i <= j => a <= b) /\ (~(i <= j) => a >= b + W)
    BY <1>2, <1>3, <2>1
  <2>3. (i <= j <=> a <= b) /\ (a < b + W => i <= j)
    BY <2>2
  <2>4. QED BY <1>1, <2>1, <2>3

\* Quotient and remainder are the only ones.
LEMMA DivUnique ==
  ASSUME NEW W \in Nat \ {0}, NEW n \in Nat, NEW q \in Nat, NEW r \in 0 .. W - 1, n = W * q + r
  PROVE  n \div W = q /\ n % W = r
<1>1. /\ n % W \in 0 .. W - 1 /\ n \div W \in Nat
      /\ n = W * (n \div W) + (n % W)
  BY Remainder, Zenon
<1>2. PICK k \in Nat, t \in 0 .. W - 1 : k = n \div W /\ t = n % W /\ n = W * k + t
  BY <1>1, Zenon
<1>3. W * k < W * q + W => k <= q
  BY Multiples
<1>4. W * q < W * k + W => q <= k
  BY Multiples
<1>5. PICK a \in Nat, b \in Nat : a = W * k /\ b = W * q
  BY Multiples
<1>6. k = q /\ r = t
  <2>1. a + t = b + r
    BY <1>2, <1>5
  <2>2. a < b + W /\ b < a + W
    BY <2>1
  <2>3. k = q
    BY <1>3, <1>4, <1>5, <2>2
  <2>4. a = b
    BY <1>5, <2>3
  <2>5. QED BY <2>1, <2>3, <2>4
<1>7. QED BY <1>2, <1>6

\* The aligned addresses are the multiples of WORD.
LEMMA AlignedForm ==
  ASSUME NEW a \in Nat
  PROVE  a % WORD = 0 <=> \E i \in Nat : a = WORD * i
<1>0. WORD \in Nat \ {0}
  BY BytesAssumption
<1>1. /\ a % WORD \in 0 .. WORD - 1 /\ a \div WORD \in Nat
      /\ a = WORD * (a \div WORD) + (a % WORD)
  BY <1>0, Remainder, Zenon
<1>2. ASSUME a % WORD = 0 PROVE \E i \in Nat : a = WORD * i
  <2>1. PICK i \in Nat : i = a \div WORD
    BY <1>1
  <2>2. WORD * i \in Nat
    BY <1>0, Multiples
  <2>3. a = WORD * i + 0
    BY <1>1, <1>2, <2>1
  <2>4. QED BY <2>2, <2>3
<1>3. ASSUME NEW i \in Nat, a = WORD * i PROVE a % WORD = 0
  <2>1. a = WORD * i + 0 /\ 0 \in 0 .. WORD - 1
    BY <1>0, <1>3
  <2>2. QED BY <1>0, <2>1, DivUnique
<1>4. QED BY <1>2, <1>3

\* The word that holds the byte at e.
WordStart(e) == e - (e % WORD)

\* The word that holds e begins at an aligned address, lies in the memory and is the
\* last to begin at or before e.
LEMMA WordFacts ==
  ASSUME NEW e \in 0 .. M - 1
  PROVE  /\ WordStart(e) \in Nat /\ WordStart(e) <= e /\ e < WordStart(e) + WORD
         /\ WordStart(e) % WORD = 0 /\ WordStart(e) + WORD <= M
         /\ \A c \in 0 .. WORD - 1 : (WordStart(e) + c) \div WORD = e \div WORD
         /\ \A a \in Nat : a % WORD = 0 /\ a <= e =>
              a <= WordStart(e) /\ (WordStart(e) - a) % WORD = 0
         /\ \A a \in Nat : a % WORD = 0 /\ e < a + WORD => WordStart(e) <= a
<1>0. WORD \in Nat \ {0} /\ M \in Nat /\ e \in Nat
  BY BytesAssumption DEF M
<1>1. PICK n \in Nat : M = WORD * n
  <2>1. R \in Nat /\ R % WORD = 0
    BY BytesAssumption
  <2>2. PICK i \in Nat : R = WORD * i
    BY <2>1, AlignedForm
  <2>3. M = WORD * i + WORD * i
    BY <1>0, <2>1, <2>2 DEF M
  <2>4. WORD * (i + i) = WORD * i + WORD * i
    BY <1>0, Multiples
  <2>5. QED BY <2>3, <2>4
<1>2. /\ e % WORD \in 0 .. WORD - 1 /\ e \div WORD \in Nat
      /\ e = WORD * (e \div WORD) + (e % WORD)
  BY <1>0, Remainder, Zenon
<1>3. PICK q \in Nat, r \in 0 .. WORD - 1 : q = e \div WORD /\ r = e % WORD /\ e = WORD * q + r
  BY <1>2, Zenon
<1>4. PICK b \in Nat : b = WORD * q
  BY <1>0, Multiples
<1>5. WordStart(e) = b
  <2>0. r = e % WORD
    BY <1>3
  <2>1. WordStart(e) = e - r
    BY <2>0, Zenon DEF WordStart
  <2>2. e = b + r
    BY <1>3, <1>4
  <2>3. QED BY <1>0, <2>1, <2>2
<1>6. b % WORD = 0
  BY <1>4, AlignedForm
<1>7. b <= e /\ e < b + WORD
  BY <1>0, <1>3, <1>4
<1>8. b + WORD <= M
  <2>1. WORD * n < WORD * q + WORD => n <= q
    BY <1>0, Multiples
  <2>2. n <= q <=> WORD * n <= WORD * q
    BY <1>0, Multiples
  <2>3. ~(M <= b)
    BY <1>0, <1>7
  <2>4. ~(M < b + WORD)
    BY <1>1, <1>4, <2>1, <2>2, <2>3
  <2>5. QED BY <1>0, <2>4
<1>9. ASSUME NEW c \in 0 .. WORD - 1 PROVE (b + c) \div WORD = e \div WORD
  <2>1. PICK k \in Nat : k = b + c
    BY <1>0
  <2>2. k = WORD * q + c
    BY <1>4, <2>1
  <2>3. k \div WORD = q
    BY <1>0, <2>2, DivUnique
  <2>4. QED BY <1>3, <2>1, <2>3
<1>10. ASSUME NEW a \in Nat, a % WORD = 0, a <= e PROVE a <= b /\ (b - a) % WORD = 0
  <2>1. PICK i \in Nat : a = WORD * i
    BY <1>10, AlignedForm
  <2>2. WORD * i < WORD * q + WORD => i <= q
    BY <1>0, Multiples
  <2>3. i <= q
    BY <1>0, <1>4, <1>7, <1>10, <2>1, <2>2
  <2>4. i <= q <=> WORD * i <= WORD * q
    BY <1>0, Multiples
  <2>5. a <= b
    BY <1>4, <2>1, <2>3, <2>4
  <2>6. PICK j \in Nat : q = i + j
    <3>1. q - i \in Nat /\ q = i + (q - i)
      BY <2>3
    <3>2. QED BY <3>1
  <2>7. WORD * (i + j) = WORD * i + WORD * j /\ WORD * j \in Nat
    BY <1>0, Multiples
  <2>8. b = a + WORD * j
    BY <1>4, <2>1, <2>6, <2>7
  <2>9. PICK d \in Nat : d = WORD * j
    BY <2>7
  <2>10. b - a = d
    BY <2>8, <2>9
  <2>11. d % WORD = 0
    BY <2>9, AlignedForm
  <2>12. QED BY <2>5, <2>10, <2>11
<1>11. ASSUME NEW a \in Nat, a % WORD = 0, e < a + WORD PROVE b <= a
  <2>1. PICK i \in Nat : a = WORD * i
    BY <1>11, AlignedForm
  <2>2. WORD * q < WORD * i + WORD => q <= i
    BY <1>0, Multiples
  <2>3. q <= i
    BY <1>0, <1>4, <1>7, <1>11, <2>1, <2>2
  <2>4. q <= i <=> WORD * q <= WORD * i
    BY <1>0, Multiples
  <2>5. QED BY <1>4, <2>1, <2>3, <2>4
<1>12. QED BY <1>5, <1>6, <1>7, <1>8, <1>9, <1>10, <1>11


-----------------------------------------------------------------------------
(* Walks through memory.                                                   *)

\* A walk by bytes ends at the first address of S, or behind the memory.
LEMMA FirstOf ==
  ASSUME NEW S \in SUBSET (0 .. M - 1), NEW p \in 0 .. M
  PROVE  /\ First(p, S) \in p .. M
         /\ First(p, S) \in S \/ First(p, S) = M
         /\ \A q \in S : q >= p => First(p, S) <= q
<1>0. M \in Nat
  BY BytesAssumption DEF M
<1> DEFINE T == {q \in S : q >= p} \cup {M}
<1>1. T \in SUBSET Nat /\ T # {} /\ \A q \in T : q \in p .. M
  <2>1. ASSUME NEW q \in T PROVE q \in Nat /\ q \in p .. M
    <3>1. CASE q = M
      BY <1>0, <3>1
    <3>2. CASE q \in S /\ q >= p
      <4>1. q \in 0 .. M - 1
        BY <3>2
      <4>2. QED BY <1>0, <3>2, <4>1
    <3>3. QED BY <3>1, <3>2
  <2>2. QED BY <2>1
<1>2. First(p, S) = Min(T)
  BY DEF First
<1>3. Min(T) \in T /\ \A q \in T : Min(T) <= q
  <2> HIDE DEF T
  <2>1. QED BY <1>1, MinOf
<1>4. PICK f : f = Min(T)
  OBVIOUS
<1>5. f \in p .. M /\ (f \in S \/ f = M) /\ \A q \in S : q >= p => f <= q
  BY <1>1, <1>3, <1>4
<1>6. QED BY <1>2, <1>4, <1>5

\* It ends at e if e is the first address of S.
LEMMA FirstIs ==
  ASSUME NEW S \in SUBSET (0 .. M - 1), NEW p \in 0 .. M, NEW e \in S, p <= e,
         \A q \in S : q >= p => e <= q
  PROVE  First(p, S) = e
<1>0. M \in Nat /\ e \in Nat
  BY BytesAssumption DEF M
<1>1. First(p, S) \in p .. M /\ (First(p, S) \in S \/ First(p, S) = M) /\ First(p, S) <= e
  BY FirstOf
<1>2. First(p, S) \in S
  BY <1>0, <1>1
<1>3. First(p, S) >= p
  BY <1>1
<1>4. e <= First(p, S)
  BY <1>2, <1>3
<1>5. QED BY <1>0, <1>1, <1>4

\* A walk can start later, up to where it ends.
LEMMA FirstLater ==
  ASSUME NEW S \in SUBSET (0 .. M - 1), NEW p \in 0 .. M, First(p, S) # M,
         NEW q \in p .. First(p, S)
  PROVE  First(q, S) = First(p, S)
<1>0. M \in Nat
  BY BytesAssumption DEF M
<1>1. PICK e : e = First(p, S)
  OBVIOUS
<1>2. e \in p .. M /\ e \in S /\ \A a \in S : a >= p => e <= a
  BY <1>1, FirstOf
<1>3. q \in 0 .. M /\ q <= e /\ \A a \in S : a >= q => e <= a
  BY <1>0, <1>1, <1>2
<1>4. First(q, S) = e
  BY <1>2, <1>3, FirstIs
<1>5. QED BY <1>1, <1>4

\* The words that hold a byte of S.
WordsWith(S) == {p \in 0 .. M - WORD : \E i \in 0 .. WORD - 1 : p + i \in S}

\* Where the walk to S by bytes, words and bytes comes: to the same end.
LEMMA WordWalk ==
  ASSUME NEW S \in SUBSET (0 .. M - 1), NEW p \in 0 .. M - 1, First(p, S) # M,
         NEW head, head = First(p, Aligned \cup S),
         NEW word, word = FirstWord(head, WordsWith(S))
  PROVE  /\ head \in p .. First(p, S)
         /\ head % WORD # 0 => head = First(p, S)
         /\ head % WORD = 0 => /\ word = WordStart(First(p, S))
                               /\ word \in p .. First(p, S)
                               /\ First(word, S) = First(p, S)
<1>0. M \in Nat /\ WORD \in Nat \ {0} /\ p \in 0 .. M
  BY BytesAssumption DEF M
<1>1. PICK e : e = First(p, S)
  OBVIOUS
<1>2. e \in S /\ e \in p .. M /\ e \in 0 .. M - 1 /\ \A a \in S : a >= p => e <= a
  <2>1. e \in p .. M /\ (e \in S \/ e = M) /\ \A a \in S : a >= p => e <= a
    BY <1>0, <1>1, FirstOf
  <2>2. e \in S
    BY <1>1, <2>1
  <2>3. QED BY <2>1, <2>2
<1> DEFINE T == Aligned \cup S
<1>3. T \in SUBSET (0 .. M - 1) /\ S \subseteq T
  BY DEF Aligned
<1>4. /\ head \in p .. M /\ (head \in T \/ head = M) /\ \A a \in T : a >= p => head <= a
  <2>1. head = First(p, T)
    OBVIOUS
  <2> HIDE DEF T
  <2>2. QED BY <1>0, <1>3, <2>1, FirstOf, Zenon
<1>5. head <= e /\ head \in T /\ head \in 0 .. M - 1
  <2>1. head <= e
    BY <1>2, <1>3, <1>4
  <2>2. QED BY <1>0, <1>2, <1>3, <1>4, <2>1
<1>6. head \in p .. e
  BY <1>2, <1>4, <1>5
<1>7. ASSUME head % WORD # 0 PROVE head = e
  <2>1. head \in S
    BY <1>5, <1>7 DEF Aligned
  <2>2. e <= head
    BY <1>2, <1>6, <2>1
  <2>3. QED BY <1>2, <1>5, <2>2
<1>8. ASSUME head % WORD = 0 PROVE word = WordStart(e) /\ word \in p .. e
  <2> DEFINE b == WordStart(e)
             Q == {q \in WordsWith(S) : q >= head /\ (q - head) % WORD = 0 /\ q + WORD <= M} \cup {M}
  <2>1. /\ b \in Nat /\ b <= e /\ e < b + WORD /\ b % WORD = 0 /\ b + WORD <= M
        /\ \A a \in Nat : a % WORD = 0 /\ a <= e => a <= b /\ (b - a) % WORD = 0
        /\ \A a \in Nat : a % WORD = 0 /\ e < a + WORD => b <= a
    BY <1>2, WordFacts
  <2> HIDE DEF b
  <2>2. head \in Nat /\ head <= b /\ (b - head) % WORD = 0
    BY <1>0, <1>5, <1>8, <2>1
  <2>3. b \in WordsWith(S)
    <3>1. PICK i : i = e - b
      OBVIOUS
    <3>2. i \in 0 .. WORD - 1 /\ b + i = e /\ b \in 0 .. M - WORD
      BY <1>0, <1>2, <2>1, <3>1
    <3>3. QED BY <1>2, <3>2 DEF WordsWith
  <2>4. b \in Q
    BY <2>1, <2>2, <2>3
  <2>5. ASSUME NEW q \in Q PROVE b <= q
    <3>1. CASE q = M
      BY <1>0, <2>1, <3>1
    <3>2. CASE q # M
      <4>1. q \in WordsWith(S) /\ q >= head /\ (q - head) % WORD = 0
        BY <3>2
      <4>2. PICK i \in 0 .. WORD - 1 : q + i \in S
        BY <4>1 DEF WordsWith
      <4>3. q \in 0 .. M - WORD
        BY <4>1 DEF WordsWith
      <4>4. q \in Nat /\ q + i >= p
        BY <1>0, <1>6, <4>1, <4>3
      <4>5. e <= q + i
        BY <1>2, <4>2, <4>4
      <4>6. e < q + WORD
        BY <1>0, <1>2, <4>4, <4>5
      <4>7. q % WORD = 0
        <5>1. PICK d \in Nat : d = q - head
          BY <2>2, <4>1, <4>4
        <5>2. d % WORD = 0
          BY <4>1, <5>1
        <5>3. PICK j \in Nat : d = WORD * j
          BY <5>2, AlignedForm
        <5>4. PICK k \in Nat : head = WORD * k
          BY <1>8, <2>2, AlignedForm
        <5>5. WORD * (k + j) = WORD * k + WORD * j
          BY <1>0, Multiples
        <5>6. q = head + d
          BY <2>2, <4>4, <5>1
        <5>7. q = WORD * (k + j) /\ k + j \in Nat
          BY <5>3, <5>4, <5>5, <5>6
        <5>8. QED BY <4>4, <5>7, AlignedForm
      <4>8. QED BY <2>1, <4>4, <4>6, <4>7
    <3>3. QED BY <3>1, <3>2
  <2>6. word = Min(Q)
    BY DEF FirstWord
  <2>7. Q \in SUBSET Int
    BY <1>0 DEF WordsWith
  <2> HIDE DEF Q
  <2>8. word = b
    BY <2>4, <2>5, <2>6, <2>7, MinIs
  <2>9. word \in p .. e
    BY <1>2, <1>6, <2>1, <2>2, <2>8
  <2>10. QED BY <2>8, <2>9 DEF b
<1>9. ASSUME head % WORD = 0 PROVE First(word, S) = e
  <2>1. word \in p .. e
    BY <1>8, <1>9
  <2>2. QED BY <1>0, <1>1, <2>1, FirstLater
<1>10. QED BY <1>1, <1>6, <1>7, <1>8, <1>9


\* The word trick finds a NUL exactly where there is one.
LEMMA HasZero ==
  ASSUME NEW m \in Memory, NEW p \in 0 .. M - WORD
  PROVE  has_zero(m, p) <=> \E i \in 0 .. WORD - 1 : m[p + i] = 0
<1>0. M \in Nat /\ WORD \in Nat \ {0}
  BY BytesAssumption DEF M
<1> DEFINE lent(i) == \E j \in 0 .. i - 1 : m[p + j] = 0 /\ \A k \in j + 1 .. i - 1 : m[p + k] = 1
           borrow(i) == IF lent(i) THEN 1 ELSE 0
<1>1. has_zero(m, p) <=>
        \E i \in 0 .. WORD - 1 : m[p + i] < 128 /\ (m[p + i] - 1 - borrow(i)) % 256 >= 128
  BY DEF has_zero
<1>2. \A i \in 0 .. WORD - 1 : m[p + i] \in 0 .. 255
  <2> SUFFICES ASSUME NEW i \in 0 .. WORD - 1 PROVE m[p + i] \in 0 .. 255
    OBVIOUS
  <2>1. p + i \in 0 .. M - 1
    BY <1>0
  <2>2. QED BY <2>1 DEF Memory
<1>3. ASSUME NEW i \in 0 .. WORD - 1, \A j \in 0 .. i - 1 : m[p + j] # 0
      PROVE  borrow(i) = 0
  BY <1>3
<1> HIDE DEF borrow, lent
<1>4. ASSUME \E i \in 0 .. WORD - 1 : m[p + i] = 0 PROVE has_zero(m, p)
  <2> DEFINE Z == {i \in 0 .. WORD - 1 : m[p + i] = 0}
  <2>1. Z \in SUBSET Nat /\ Z # {}
    <3>1. PICK i \in 0 .. WORD - 1 : m[p + i] = 0
      BY <1>4
    <3>2. i \in Z
      BY <3>1
    <3>3. Z \in SUBSET Nat
      BY <1>0
    <3>4. QED BY <3>2, <3>3
  <2>2. PICK i \in Z : \A j \in Z : i <= j
    <3> HIDE DEF Z
    <3>1. QED BY <2>1, LeastNatural
  <2>3. i \in 0 .. WORD - 1 /\ m[p + i] = 0
    BY <2>2
  <2>4. \A j \in 0 .. i - 1 : m[p + j] # 0
    <3> SUFFICES ASSUME NEW j \in 0 .. i - 1, m[p + j] = 0 PROVE FALSE
      OBVIOUS
    <3>1. j \in 0 .. WORD - 1 /\ ~(i <= j)
      BY <1>0, <2>3
    <3>2. j \in Z
      BY <3>1
    <3>3. QED BY <2>2, <3>1, <3>2
  <2>5. borrow(i) = 0
    BY <1>3, <2>3, <2>4
  <2>6. m[p + i] < 128 /\ (m[p + i] - 1 - borrow(i)) % 256 >= 128
    <3>1. (0 - 1 - 0) % 256 >= 128
      <4>1. PICK a \in Int : a = 0 - 1 - 0
        OBVIOUS
      <4>2. PICK q \in Int, r \in 0 .. 255 : r = a % 256 /\ a = 256 * q + r
        <5>1. a % 256 \in 0 .. 255 /\ a \div 256 \in Int /\ a = 256 * (a \div 256) + (a % 256)
          OBVIOUS
        <5>2. QED BY <5>1, Zenon
      <4>3. r = 255
        BY <4>1, <4>2
      <4>4. QED BY <4>1, <4>2, <4>3
    <3>2. QED BY <2>3, <2>5, <3>1
  <2>7. QED BY <1>1, <2>3, <2>6
<1>5. ASSUME \A i \in 0 .. WORD - 1 : m[p + i] # 0 PROVE ~has_zero(m, p)
  <2> SUFFICES ASSUME NEW i \in 0 .. WORD - 1, m[p + i] < 128,
                      (m[p + i] - 1 - borrow(i)) % 256 >= 128
               PROVE  FALSE
    BY <1>1
  <2>1. \A j \in 0 .. i - 1 : j \in 0 .. WORD - 1
    BY <1>0
  <2>2. borrow(i) = 0
    BY <1>3, <1>5, <2>1
  <2>3. m[p + i] \in 1 .. 127
    <3>1. m[p + i] \in 0 .. 255
      BY <1>2
    <3>2. m[p + i] # 0
      BY <1>5
    <3>3. QED BY <3>1, <3>2
  <2>4. PICK c \in 1 .. 127 : c = m[p + i]
    BY <2>3
  <2>5. (c - 1 - 0) % 256 >= 128
    BY <2>2, <2>4
  <2>6. (c - 1 - 0) \in 0 .. 126
    OBVIOUS
  <2>7. QED BY <2>5, <2>6
<1>6. QED BY <1>4, <1>5

\* The words that has_zero picks are those that hold a 0.
LEMMA ZeroWordsAre ==
  ASSUME NEW m \in Memory
  PROVE  Zeros(m) \in SUBSET (0 .. M - 1) /\ ZeroWords(m) = WordsWith(Zeros(m))
<1>0. M \in Nat /\ WORD \in Nat \ {0} /\ DOMAIN m = 0 .. M - 1
  BY BytesAssumption DEF M, Memory
<1>1. \A a : a \in Zeros(m) <=> a \in 0 .. M - 1 /\ m[a] = 0
  BY <1>0 DEF Zeros, Holding
<1>2. ASSUME NEW p \in 0 .. M - WORD
      PROVE  has_zero(m, p) <=> \E i \in 0 .. WORD - 1 : p + i \in Zeros(m)
  <2>1. \A i \in 0 .. WORD - 1 : p + i \in 0 .. M - 1
    BY <1>0
  <2>2. \A i \in 0 .. WORD - 1 : p + i \in Zeros(m) <=> m[p + i] = 0
    BY <1>1, <2>1
  <2>3. QED BY <2>2, HasZero
<1>3. QED BY <1>1, <1>2 DEF ZeroWords, WordsWith

\* The NUL of a string is where the walks end.
LEMMA NulFirst ==
  ASSUME NEW m \in Memory, NEW p, NEW x, IsString(m, p, x)
  PROVE  /\ p \in 0 .. M - 1 /\ Len(x) \in Nat /\ p + Len(x) \in 0 .. M - 1
         /\ Zeros(m) \in SUBSET (0 .. M - 1) /\ p + Len(x) \in Zeros(m)
         /\ First(p, Zeros(m)) = p + Len(x)
<1>0. /\ p \in Nat /\ Len(x) \in Nat /\ M \in Nat /\ p + Len(x) < M /\ DOMAIN m = 0 .. M - 1
      /\ \A i \in 0 .. Len(x) - 1 : m[p + i] \in 1 .. 255
      /\ m[p + Len(x)] = 0
  <2>1. x \in Seq(1 .. 255)
    BY DEF IsString
  <2>2. QED BY <2>1, BytesAssumption DEF IsString, M, Memory
<1>1. Zeros(m) \in SUBSET (0 .. M - 1) /\ \A a : a \in Zeros(m) <=> a \in 0 .. M - 1 /\ m[a] = 0
  BY <1>0 DEF Zeros, Holding
<1>2. p + Len(x) \in Zeros(m)
  BY <1>0, <1>1
<1>3. ASSUME NEW q \in Zeros(m), q >= p PROVE p + Len(x) <= q
  <2>1. PICK i : i = q - p
    OBVIOUS
  <2>2. q = p + i /\ i \in Nat /\ m[p + i] = 0
    BY <1>0, <1>1, <1>3, <2>1
  <2>3. ~(i \in 0 .. Len(x) - 1)
    <3> SUFFICES ASSUME i \in 0 .. Len(x) - 1 PROVE FALSE
      OBVIOUS
    <3>1. m[p + i] \in 1 .. 255
      BY <1>0
    <3>2. QED BY <2>2, <3>1
  <2>4. QED BY <1>0, <2>2, <2>3
<1>4. p \in 0 .. M /\ p <= p + Len(x)
  BY <1>0
<1>5. First(p, Zeros(m)) = p + Len(x)
  <2>1. PICK e : e = p + Len(x)
    OBVIOUS
  <2>2. e \in Zeros(m) /\ p <= e /\ \A q \in Zeros(m) : q >= p => e <= q
    BY <1>2, <1>3, <1>4, <2>1
  <2>3. First(p, Zeros(m)) = e
    BY <1>1, <1>4, <2>2, FirstIs
  <2>4. QED BY <2>1, <2>3
<1>6. QED BY <1>0, <1>1, <1>2, <1>5

\* The walk of strlen and strcpy ends at the NUL and stays in its word.
LEMMA WalkRight ==
  ASSUME NEW m \in Memory, NEW s, NEW x, IsString(m, s, x)
  PROVE  /\ word_walk(m, s).end = s + Len(x)
         /\ s .. word_walk(m, s).last \subseteq WordsOf(s, Len(x))
<1>0. M \in Nat /\ WORD \in Nat \ {0}
  BY BytesAssumption DEF M
<1>1. PICK e : e = s + Len(x)
  OBVIOUS
<1>2. /\ s \in 0 .. M - 1 /\ Len(x) \in Nat /\ e \in 0 .. M - 1 /\ e \in s .. M - 1
      /\ Zeros(m) \in SUBSET (0 .. M - 1) /\ First(s, Zeros(m)) = e
  BY <1>1, NulFirst
<1> DEFINE head == First(s, Aligned \cup Zeros(m))
           word == FirstWord(head, ZeroWords(m))
           w == word_walk(m, s)
<1>3. word = FirstWord(head, WordsWith(Zeros(m)))
  BY ZeroWordsAre
<1>4. /\ head % WORD # 0 => w.end = head /\ w.last = head
      /\ head % WORD = 0 => /\ w.end = First(word, Zeros(m))
                            /\ w.last = Max({First(word, Zeros(m)), word + WORD - 1})
  BY DEF word_walk
<1> HIDE DEF head, word, w
<1>5. /\ head \in s .. e
      /\ head % WORD # 0 => head = e
      /\ head % WORD = 0 => word = WordStart(e) /\ word \in s .. e /\ First(word, Zeros(m)) = e
  <2>1. head = First(s, Aligned \cup Zeros(m))
    BY DEF head
  <2>2. First(s, Zeros(m)) # M
    BY <1>0, <1>2
  <2>3. QED BY <1>2, <1>3, <2>1, <2>2, WordWalk
<1>6. w.end = e
  BY <1>4, <1>5
<1>7. ASSUME NEW a \in s .. e PROVE a \in WordsOf(s, Len(x))
  BY <1>0, <1>1, <1>2 DEF WordsOf
<1>8. s .. w.last \subseteq WordsOf(s, Len(x))
  <2>1. CASE head % WORD # 0
    BY <1>4, <1>5, <1>7, <2>1
  <2>2. CASE head % WORD = 0
    <3>1. /\ word \in Nat /\ word <= e /\ e < word + WORD /\ word + WORD <= M
          /\ \A c \in 0 .. WORD - 1 : (word + c) \div WORD = e \div WORD
      BY <1>2, <1>5, <2>2, WordFacts
    <3>2. Max({e, word + WORD - 1}) = word + WORD - 1
      BY <1>0, <1>2, <3>1, MaxPair
    <3>3. w.last = word + WORD - 1
      BY <1>4, <1>5, <2>2, <3>2
    <3>4. ASSUME NEW a \in s .. w.last, ~(a \in s .. e) PROVE a \in WordsOf(s, Len(x))
      <4>1. PICK c : c = a - word
        OBVIOUS
      <4>2. c \in 0 .. WORD - 1 /\ a = word + c /\ a \in 0 .. M - 1
        BY <1>0, <1>2, <3>1, <3>3, <3>4, <4>1
      <4>3. a \div WORD = e \div WORD
        BY <3>1, <4>2
      <4>4. e \in s .. s + Len(x)
        BY <1>1, <1>2
      <4>5. QED BY <4>2, <4>3, <4>4 DEF WordsOf
    <3>5. QED BY <1>7, <3>4
  <2>3. QED BY <2>1, <2>2
<1>9. QED BY <1>1, <1>6, <1>8 DEF w


-----------------------------------------------------------------------------
(* Copying strings.                                                        *)

\* A copy of bytes that are known is a Put of them.
LEMMA CopyPut ==
  ASSUME NEW m \in Memory, NEW d \in Nat, NEW s \in Nat, NEW t \in Seq(0 .. 255),
         \A i \in 0 .. Len(t) - 1 : m[s + i] = t[i + 1]
  PROVE  Copied(m, d, s, Len(t)) = Put(m, d, t)
<1>0. Len(t) \in Nat /\ M \in Nat /\ DOMAIN m = 0 .. M - 1
  BY BytesAssumption DEF M, Memory
<1>1. ASSUME NEW a \in 0 .. M - 1, a \in d .. d + Len(t) - 1
      PROVE  m[s + (a - d)] = t[a - d + 1]
  <2>1. PICK i \in 0 .. Len(t) - 1 : i = a - d
    BY <1>0, <1>1
  <2>2. s + (a - d) = s + i /\ a - d + 1 = i + 1
    BY <1>0, <2>1
  <2>3. QED BY <2>1, <2>2
<1>2. QED BY <1>0, <1>1 DEF Copied, Put

\* One Put behind the other.
LEMMA PutPut ==
  ASSUME NEW m \in Memory, NEW d \in Nat, NEW s \in Seq(0 .. 255), NEW t \in Seq(0 .. 255)
  PROVE  Put(Put(m, d, s), d + Len(s), t) = Put(m, d, s \o t)
<1>00. PICK e : e = d + Len(s)
  OBVIOUS
<1>0. Len(s) \in Nat /\ Len(t) \in Nat /\ M \in Nat /\ DOMAIN m = 0 .. M - 1 /\ e \in Nat
      /\ e = d + Len(s)
  BY <1>00, BytesAssumption DEF M, Memory
<1> DEFINE u == Put(m, d, s)
           v == Put(u, e, t)
           w == Put(m, d, s \o t)
<1>1. /\ s \o t \in Seq(0 .. 255) /\ Len(s \o t) = Len(s) + Len(t)
      /\ \A k \in 1 .. Len(s) : (s \o t)[k] = s[k]
      /\ \A k \in 1 .. Len(t) : (s \o t)[Len(s) + k] = t[k]
  OBVIOUS
<1>2. u = [a \in 0 .. M - 1 |-> IF a \in d .. d + Len(s) - 1 THEN s[a - d + 1] ELSE m[a]]
  BY <1>0 DEF Put
<1> HIDE DEF u
<1>3. v = [a \in 0 .. M - 1 |-> IF a \in e .. e + Len(t) - 1 THEN t[a - e + 1] ELSE u[a]]
  BY <1>2 DEF Put
<1>4. w = [a \in 0 .. M - 1 |->
             IF a \in d .. d + (Len(s) + Len(t)) - 1 THEN (s \o t)[a - d + 1] ELSE m[a]]
  BY <1>0, <1>1 DEF Put
<1> HIDE DEF v, w
<1>5. ASSUME NEW a \in 0 .. M - 1 PROVE v[a] = w[a]
  <2>1. CASE a \in e .. e + Len(t) - 1
    <3>0. a - e + 1 \in 1 .. Len(t)
      BY <1>0, <2>1
    <3>1. PICK k \in 1 .. Len(t) : k = a - e + 1
      BY <3>0
    <3>2. a - d + 1 = Len(s) + k /\ a \in d .. d + (Len(s) + Len(t)) - 1
      BY <1>0, <2>1, <3>1
    <3>3. v[a] = t[k]
      BY <1>3, <2>1, <3>1
    <3>4. w[a] = (s \o t)[Len(s) + k]
      BY <1>4, <3>2
    <3>5. QED BY <1>1, <3>3, <3>4
  <2>2. CASE a \in d .. d + Len(s) - 1
    <3>1. PICK k \in 1 .. Len(s) : k = a - d + 1
      BY <1>0, <2>2
    <3>2. ~(a \in e .. e + Len(t) - 1) /\ a \in d .. d + (Len(s) + Len(t)) - 1
      BY <1>0, <2>2
    <3>3. v[a] = s[k]
      BY <1>2, <1>3, <2>2, <3>1, <3>2
    <3>4. w[a] = (s \o t)[k]
      BY <1>4, <3>1, <3>2
    <3>5. QED BY <1>1, <3>3, <3>4
  <2>3. CASE ~(a \in e .. e + Len(t) - 1) /\ ~(a \in d .. d + Len(s) - 1)
    <3>1. ~(a \in d .. d + (Len(s) + Len(t)) - 1)
      BY <1>0, <2>3
    <3>2. QED BY <1>2, <1>3, <1>4, <2>3, <3>1
  <2>4. QED BY <2>1, <2>2, <2>3
<1>6. v = w
  BY <1>3, <1>4, <1>5
<1>7. QED BY <1>00, <1>6 DEF u, v, w

\* Putting nothing changes nothing.
LEMMA PutNone ==
  ASSUME NEW m \in Memory, NEW d \in Nat
  PROVE  Put(m, d, <<>>) = m
<1>1. \A a : ~(a \in d .. d + Len(<<>>) - 1)
  OBVIOUS
<1>2. QED BY <1>1 DEF Put, Memory

\* The first bytes of a string.
LEMMA PrefixIs ==
  ASSUME NEW S, NEW y \in Seq(S), NEW n \in Nat
  PROVE  /\ Prefix(y, n) \in Seq(S)
         /\ Len(Prefix(y, n)) = IF n <= Len(y) THEN n ELSE Len(y)
         /\ \A k \in 1 .. Len(Prefix(y, n)) : Prefix(y, n)[k] = y[k]
<1>1. Len(y) \in Nat
  OBVIOUS
<1>2. PICK l \in Nat : l = IF n <= Len(y) THEN n ELSE Len(y)
  BY <1>1
<1>3. Prefix(y, n) = SubSeq(y, 1, l) /\ l <= Len(y)
  BY <1>1, <1>2, MinPair DEF Prefix
<1>4. /\ SubSeq(y, 1, l) \in Seq(S) /\ Len(SubSeq(y, 1, l)) = l
      /\ \A k \in 1 .. l : SubSeq(y, 1, l)[k] = y[k]
  <2>1. \A k \in 1 .. l : y[k] \in S
    BY <1>1, <1>3, ElementOfSeq
  <2>2. QED BY <1>1, <1>3, <2>1
<1>5. QED BY <1>2, <1>3, <1>4

\* The first n bytes of a string copied, and a NUL behind them.
LEMMA CopyPrefix ==
  ASSUME NEW m \in Memory, NEW d \in Nat, NEW s, NEW y, NEW n \in Nat, IsString(m, s, y)
  PROVE  /\ Prefix(y, n) \in Seq(0 .. 255)
         /\ Copied(m, d, s, Len(Prefix(y, n))) = Put(m, d, Prefix(y, n))
         /\ Put(Copied(m, d, s, Len(Prefix(y, n))), d + Len(Prefix(y, n)), <<0>>)
              = Put(m, d, Prefix(y, n) \o <<0>>)
<1>0. /\ y \in Seq(1 .. 255) /\ s \in Nat /\ Len(y) \in Nat
      /\ \A i \in 0 .. Len(y) - 1 : m[s + i] = y[i + 1]
  <2>1. y \in Seq(1 .. 255)
    BY DEF IsString
  <2>2. QED BY <2>1 DEF IsString
<1>1. y \in Seq(0 .. 255)
  <2>1. \A k \in 1 .. Len(y) : y[k] \in 1 .. 255
    BY <1>0, ElementOfSeq
  <2>2. QED BY <1>0, <2>1
<1> DEFINE t == Prefix(y, n)
<1>2. /\ t \in Seq(0 .. 255) /\ Len(t) = IF n <= Len(y) THEN n ELSE Len(y)
      /\ \A k \in 1 .. Len(t) : t[k] = y[k]
  BY <1>1, PrefixIs
<1> HIDE DEF t
<1>3. Len(t) \in Nat /\ Len(t) <= Len(y)
  BY <1>0, <1>2
<1>4. ASSUME NEW i \in 0 .. Len(t) - 1 PROVE m[s + i] = t[i + 1]
  <2>1. i \in 0 .. Len(y) - 1 /\ i + 1 \in 1 .. Len(t)
    BY <1>0, <1>2, <1>3
  <2>2. QED BY <1>0, <1>2, <2>1
<1>5. Copied(m, d, s, Len(t)) = Put(m, d, t)
  BY <1>0, <1>2, <1>4, CopyPut
<1>6. Put(Put(m, d, t), d + Len(t), <<0>>) = Put(m, d, t \o <<0>>)
  <2>1. <<0>> \in Seq(0 .. 255) /\ t \in Seq(0 .. 255)
    BY <1>2
  <2>2. QED BY <2>1, PutPut, Zenon
<1>7. QED BY <1>2, <1>3, <1>5, <1>6 DEF t

\* The whole string with its NUL.
LEMMA CopyWhole ==
  ASSUME NEW m \in Memory, NEW d \in Nat, NEW s, NEW y, IsString(m, s, y)
  PROVE  Copied(m, d, s, Len(y) + 1) = Put(m, d, y \o <<0>>)
<1>0. /\ y \in Seq(1 .. 255) /\ s \in Nat
      /\ \A i \in 0 .. Len(y) - 1 : m[s + i] = y[i + 1]
      /\ m[s + Len(y)] = 0
  BY DEF IsString
<1> DEFINE t == y \o <<0>>
<1>1. /\ Len(y) \in Nat /\ t \in Seq(0 .. 255) /\ Len(t) = Len(y) + 1
      /\ \A i \in 0 .. Len(y) - 1 : t[i + 1] = y[i + 1]
      /\ t[Len(y) + 1] = 0
  BY <1>0, WithNul
<1> HIDE DEF t
<1>2. ASSUME NEW i \in 0 .. Len(t) - 1 PROVE m[s + i] = t[i + 1]
  <2>1. CASE i = Len(y)
    BY <1>0, <1>1, <2>1
  <2>2. CASE i # Len(y)
    <3>1. i \in 0 .. Len(y) - 1
      BY <1>1, <2>2
    <3>2. QED BY <1>0, <1>1, <3>1
  <2>3. QED BY <2>1, <2>2
<1>3. Copied(m, d, s, Len(t)) = Put(m, d, t)
  BY <1>0, <1>1, <1>2, CopyPut, Zenon
<1>4. QED BY <1>1, <1>3 DEF t


\* Two strings in a memory, and the words that hold them.
Strings2(m, s1, x, s2, y) == m \in Memory /\ IsString(m, s1, x) /\ IsString(m, s2, y)
Held(s1, x, s2, y) == WordsOf(s1, Len(x)) \cup WordsOf(s2, Len(y))

\* What the functions need to know of the two strings.
LEMMA StringFacts ==
  ASSUME NEW m, NEW s1, NEW x, NEW s2, NEW y, Strings2(m, s1, x, s2, y)
  PROVE  /\ m \in Memory /\ M \in Nat /\ IsString(m, s1, x) /\ IsString(m, s2, y)
         /\ s1 \in Nat /\ s2 \in Nat /\ Len(x) \in Nat /\ Len(y) \in Nat
         /\ s1 + Len(x) < M /\ s2 + Len(y) < M
         /\ x \in Seq(1 .. 255) /\ y \in Seq(1 .. 255)
         /\ First(s1, Zeros(m)) = s1 + Len(x) /\ First(s2, Zeros(m)) = s2 + Len(y)
         /\ s1 .. s1 + Len(x) \subseteq Held(s1, x, s2, y)
         /\ s2 .. s2 + Len(y) \subseteq Held(s1, x, s2, y)
<1>0. m \in Memory /\ M \in Nat /\ IsString(m, s1, x) /\ IsString(m, s2, y)
  BY BytesAssumption DEF M, Strings2
<1>1. x \in Seq(1 .. 255) /\ y \in Seq(1 .. 255)
  BY <1>0 DEF IsString
<1>2. /\ s1 \in Nat /\ s2 \in Nat /\ Len(x) \in Nat /\ Len(y) \in Nat
      /\ s1 + Len(x) < M /\ s2 + Len(y) < M
  BY <1>0, <1>1 DEF IsString
<1>3. First(s1, Zeros(m)) = s1 + Len(x)
  BY <1>0, NulFirst
<1>4. First(s2, Zeros(m)) = s2 + Len(y)
  BY <1>0, NulFirst
<1>5. ASSUME NEW a \in s1 .. s1 + Len(x) PROVE a \in WordsOf(s1, Len(x))
  BY <1>0, <1>2 DEF WordsOf
<1>6. ASSUME NEW a \in s2 .. s2 + Len(y) PROVE a \in WordsOf(s2, Len(y))
  BY <1>0, <1>2 DEF WordsOf
<1>7. QED BY <1>0, <1>1, <1>2, <1>3, <1>4, <1>5, <1>6 DEF Held

\* strlen gives the length of either string and stays in its words.
LEMMA StrlenRight ==
  ASSUME NEW m, NEW s1, NEW x, NEW s2, NEW y, Strings2(m, s1, x, s2, y)
  PROVE  /\ strlen(m, s1).mem = m /\ strlen(m, s1).ret = Len(x)
         /\ strlen(m, s1).reads \subseteq Held(s1, x, s2, y)
         /\ strlen(m, s2).ret = Len(y)
         /\ strlen(m, s2).reads \subseteq Held(s1, x, s2, y)
<1>1. /\ m \in Memory /\ IsString(m, s1, x) /\ IsString(m, s2, y)
      /\ s1 \in Nat /\ s2 \in Nat /\ Len(x) \in Nat /\ Len(y) \in Nat
  BY StringFacts
<1>2. /\ word_walk(m, s1).end = s1 + Len(x)
      /\ s1 .. word_walk(m, s1).last \subseteq WordsOf(s1, Len(x))
  BY <1>1, WalkRight
<1>3. /\ word_walk(m, s2).end = s2 + Len(y)
      /\ s2 .. word_walk(m, s2).last \subseteq WordsOf(s2, Len(y))
  BY <1>1, WalkRight
<1>4. /\ strlen(m, s1).mem = m /\ strlen(m, s1).ret = (s1 + Len(x)) - s1
      /\ strlen(m, s1).reads = s1 .. word_walk(m, s1).last
  BY <1>2 DEF strlen, Gives
<1>5. /\ strlen(m, s2).ret = (s2 + Len(y)) - s2
      /\ strlen(m, s2).reads = s2 .. word_walk(m, s2).last
  BY <1>3 DEF strlen, Gives
<1>6. (s1 + Len(x)) - s1 = Len(x) /\ (s2 + Len(y)) - s2 = Len(y)
  BY <1>1
<1>7. QED BY <1>2, <1>3, <1>4, <1>5, <1>6 DEF Held

\* strcpy leaves the source with its NUL at the destination.
LEMMA StrcpyRight ==
  ASSUME NEW m, NEW s1, NEW x, NEW s2, NEW y, Strings2(m, s1, x, s2, y)
  PROVE  /\ strcpy(m, s1, s2).mem = Put(m, s1, y \o <<0>>)
         /\ strcpy(m, s1, s2).reads \subseteq Held(s1, x, s2, y)
<1>1. /\ m \in Memory /\ IsString(m, s2, y)
      /\ s1 \in Nat /\ s2 \in Nat /\ Len(y) \in Nat
  BY StringFacts
<1>2. /\ word_walk(m, s2).end = s2 + Len(y)
      /\ s2 .. word_walk(m, s2).last \subseteq WordsOf(s2, Len(y))
  BY <1>1, WalkRight
<1>3. /\ strcpy(m, s1, s2).mem = Copied(m, s1, s2, (s2 + Len(y)) - s2 + 1)
      /\ strcpy(m, s1, s2).reads = s2 .. word_walk(m, s2).last
  BY <1>2 DEF strcpy, Gives
<1>4. (s2 + Len(y)) - s2 + 1 = Len(y) + 1
  BY <1>1
<1>5. Copied(m, s1, s2, Len(y) + 1) = Put(m, s1, y \o <<0>>)
  BY <1>1, CopyWhole
<1>6. QED BY <1>2, <1>3, <1>4, <1>5 DEF Held

\* strcat leaves the source with its NUL at the NUL of the destination.
LEMMA StrcatRight ==
  ASSUME NEW m, NEW s1, NEW x, NEW s2, NEW y, Strings2(m, s1, x, s2, y)
  PROVE  /\ strcat(m, s1, s2).mem = Put(m, s1 + Len(x), y \o <<0>>)
         /\ strcat(m, s1, s2).reads \subseteq Held(s1, x, s2, y)
<1>1. /\ m \in Memory /\ IsString(m, s2, y)
      /\ s1 \in Nat /\ s2 \in Nat /\ Len(x) \in Nat /\ Len(y) \in Nat /\ y \in Seq(1 .. 255)
      /\ First(s1, Zeros(m)) = s1 + Len(x) /\ First(s2, Zeros(m)) = s2 + Len(y)
      /\ s1 .. s1 + Len(x) \subseteq Held(s1, x, s2, y)
      /\ s2 .. s2 + Len(y) \subseteq Held(s1, x, s2, y)
  BY StringFacts
<1>2. PICK e \in Nat : e = s1 + Len(x)
  BY <1>1
<1>3. /\ strcat(m, s1, s2).mem = Copied(m, e, s2, (s2 + Len(y)) - s2 + 1)
      /\ strcat(m, s1, s2).reads = (s1 .. s1 + Len(x)) \cup (s2 .. s2 + Len(y))
  BY <1>1, <1>2 DEF strcat, Gives
<1>4. (s2 + Len(y)) - s2 + 1 = Len(y) + 1
  BY <1>1
<1>5. Copied(m, e, s2, Len(y) + 1) = Put(m, e, y \o <<0>>)
  BY <1>1, CopyWhole
<1>6. QED BY <1>1, <1>2, <1>3, <1>4, <1>5

\* strncat leaves at most n bytes of the source and a NUL there.
LEMMA StrncatRight ==
  ASSUME NEW m, NEW s1, NEW x, NEW s2, NEW y, Strings2(m, s1, x, s2, y), NEW n \in Nat
  PROVE  /\ strncat(m, s1, s2, n).mem = Put(m, s1 + Len(x), Prefix(y, n) \o <<0>>)
         /\ strncat(m, s1, s2, n).reads \subseteq Held(s1, x, s2, y)
<1>1. /\ m \in Memory /\ IsString(m, s2, y)
      /\ s1 \in Nat /\ s2 \in Nat /\ Len(x) \in Nat /\ Len(y) \in Nat /\ y \in Seq(1 .. 255)
      /\ First(s1, Zeros(m)) = s1 + Len(x) /\ First(s2, Zeros(m)) = s2 + Len(y)
      /\ s1 .. s1 + Len(x) \subseteq Held(s1, x, s2, y)
      /\ s2 .. s2 + Len(y) \subseteq Held(s1, x, s2, y)
  BY StringFacts
<1>2. PICK e \in Nat : e = s1 + Len(x)
  BY <1>1
<1>3. PICK l : l = Len(Prefix(y, n)) /\ l = IF n <= Len(y) THEN n ELSE Len(y)
  <2>1. m \in Memory /\ IsString(m, s2, y)
    BY <1>1
  <2>2. Len(Prefix(y, n)) = IF n <= Len(y) THEN n ELSE Len(y)
    BY <1>1, PrefixIs
  <2>3. QED BY <2>2
<1>4. l \in Nat /\ l <= Len(y) /\ Min({(s2 + Len(y)) - s2, n}) = l
  <2>1. (s2 + Len(y)) - s2 = Len(y)
    BY <1>1
  <2>2. Min({Len(y), n}) = IF Len(y) <= n THEN Len(y) ELSE n
    BY <1>1, MinPair
  <2>3. Min({(s2 + Len(y)) - s2, n}) = Min({Len(y), n})
    BY <2>1
  <2>4. l \in Nat /\ l <= Len(y) /\ l = IF Len(y) <= n THEN Len(y) ELSE n
    BY <1>1, <1>3
  <2>5. QED BY <2>2, <2>3, <2>4
<1>5. Put(Copied(m, e, s2, l), e + l, <<0>>) = Put(m, e, Prefix(y, n) \o <<0>>)
  <2>1. m \in Memory /\ IsString(m, s2, y)
    BY <1>1
  <2>2. Put(Copied(m, e, s2, Len(Prefix(y, n))), e + Len(Prefix(y, n)), <<0>>)
          = Put(m, e, Prefix(y, n) \o <<0>>)
    BY <2>1, CopyPrefix
  <2>3. QED BY <1>3, <2>2
<1>6. PICK k : k = Min({l, n - 1})
  OBVIOUS
<1>7. k \in Int /\ k <= Len(y)
  <2>1. Min({l, n - 1}) = IF l <= n - 1 THEN l ELSE n - 1
    BY <1>4, MinPair
  <2>2. QED BY <1>1, <1>4, <1>6, <2>1
<1>8. /\ strncat(m, s1, s2, n).mem = Put(Copied(m, e, s2, l), e + l, <<0>>)
      /\ strncat(m, s1, s2, n).reads = (s1 .. s1 + Len(x)) \cup (s2 .. s2 + k)
  BY <1>1, <1>2, <1>4, <1>6 DEF strncat, Gives
<1>9. s2 .. s2 + k \subseteq s2 .. s2 + Len(y)
  BY <1>1, <1>7
<1>10. QED BY <1>1, <1>2, <1>5, <1>8, <1>9


\* The length of what is copied: of the string, at most n.
LEMMA PrefixLength ==
  ASSUME NEW y \in Seq(1 .. 255), NEW s \in Nat, NEW n \in Nat
  PROVE  /\ Len(Prefix(y, n)) \in Nat /\ Len(Prefix(y, n)) <= Len(y) /\ Len(Prefix(y, n)) <= n
         /\ Len(Prefix(y, n)) = Len(y) \/ Len(Prefix(y, n)) = n
         /\ Min({(s + Len(y)) - s, n}) = Len(Prefix(y, n))
<1>0. Len(y) \in Nat
  OBVIOUS
<1>1. Len(Prefix(y, n)) = IF n <= Len(y) THEN n ELSE Len(y)
  BY PrefixIs
<1>2. (s + Len(y)) - s = Len(y)
  BY <1>0
<1>3. Min({Len(y), n}) = IF Len(y) <= n THEN Len(y) ELSE n
  BY <1>0, MinPair
<1>4. PICK l : l = Len(Prefix(y, n))
  OBVIOUS
<1>5. l \in Nat /\ l <= Len(y) /\ l <= n /\ (l = Len(y) \/ l = n) /\ l = IF Len(y) <= n THEN Len(y) ELSE n
  BY <1>0, <1>1, <1>4
<1>6. QED BY <1>2, <1>3, <1>4, <1>5, Zenon

\* strncpy writes n bytes, the source filled up with NULs.
LEMMA StrncpyRight ==
  ASSUME NEW m, NEW s1, NEW x, NEW s2, NEW y, Strings2(m, s1, x, s2, y), NEW n \in Nat
  PROVE  /\ strncpy(m, s1, s2, n).mem
              = Put(m, s1, [k \in 1 .. n |-> IF k <= Len(y) THEN y[k] ELSE 0])
         /\ strncpy(m, s1, s2, n).reads \subseteq Held(s1, x, s2, y)
<1>1. /\ m \in Memory /\ IsString(m, s2, y)
      /\ s1 \in Nat /\ s2 \in Nat /\ Len(y) \in Nat /\ y \in Seq(1 .. 255)
      /\ First(s2, Zeros(m)) = s2 + Len(y)
      /\ s2 .. s2 + Len(y) \subseteq Held(s1, x, s2, y)
  BY StringFacts
<1> DEFINE t == Prefix(y, n)
           z == [k \in 1 .. n - Len(t) |-> 0]
           full == [k \in 1 .. n |-> IF k <= Len(y) THEN y[k] ELSE 0]
<1>2. /\ Len(t) \in Nat /\ Len(t) <= Len(y) /\ Len(t) <= n /\ (Len(t) = Len(y) \/ Len(t) = n)
      /\ Min({(s2 + Len(y)) - s2, n}) = Len(t)
  BY <1>1, PrefixLength, Zenon
<1>3. /\ t \in Seq(0 .. 255) /\ Copied(m, s1, s2, Len(t)) = Put(m, s1, t)
  BY <1>1, CopyPrefix
<1>4. \A k \in 1 .. Len(t) : t[k] = y[k]
  BY <1>1, PrefixIs
<1>5. PICK k : k = Min({Len(t), n - 1})
  OBVIOUS
<1>6. /\ strncpy(m, s1, s2, n).mem = Put(Copied(m, s1, s2, Len(t)), s1 + Len(t), z)
      /\ strncpy(m, s1, s2, n).reads = s2 .. s2 + k
  <2> HIDE DEF t
  <2>1. QED BY <1>1, <1>2, <1>5 DEF strncpy, Gives
<1> HIDE DEF t
<1>7. z \in Seq(0 .. 255) /\ Len(z) = n - Len(t) /\ \A i \in 1 .. n - Len(t) : z[i] = 0
  BY <1>2
<1> HIDE DEF z
<1>8. Put(Put(m, s1, t), s1 + Len(t), z) = Put(m, s1, t \o z)
  BY <1>1, <1>3, <1>7, PutPut
<1>9. t \o z = full
  <2>1. /\ t \o z \in Seq(0 .. 255) /\ Len(t \o z) = n
        /\ \A i \in 1 .. Len(t) : (t \o z)[i] = t[i]
        /\ \A i \in 1 .. n - Len(t) : (t \o z)[Len(t) + i] = z[i]
    BY <1>2, <1>3, <1>7
  <2>2. ASSUME NEW i \in 1 .. n PROVE (t \o z)[i] = IF i <= Len(y) THEN y[i] ELSE 0
    <3>1. CASE i <= Len(t)
      <4>1. i \in 1 .. Len(t) /\ i <= Len(y)
        BY <1>1, <1>2, <3>1
      <4>2. QED BY <1>4, <2>1, <4>1
    <3>2. CASE ~(i <= Len(t))
      <4>1. PICK j \in 1 .. n - Len(t) : j = i - Len(t)
        BY <1>2, <3>2
      <4>2. i = Len(t) + j /\ ~(i <= Len(y))
        BY <1>1, <1>2, <3>2, <4>1
      <4>3. QED BY <1>7, <2>1, <4>1, <4>2
    <3>3. QED BY <3>1, <3>2
  <2>3. PICK w : w = t \o z
    OBVIOUS
  <2>4. w \in Seq(0 .. 255) /\ Len(w) = n
    BY <2>1, <2>3
  <2>5. w = [i \in 1 .. n |-> w[i]]
    BY <2>4
  <2>6. QED BY <2>2, <2>3, <2>5
<1>10. k \in Int /\ k <= Len(y)
  <2>1. Min({Len(t), n - 1}) = IF Len(t) <= n - 1 THEN Len(t) ELSE n - 1
    BY <1>2, MinPair
  <2>2. QED BY <1>1, <1>2, <1>5, <2>1
<1>11. s2 .. s2 + k \subseteq s2 .. s2 + Len(y)
  BY <1>1, <1>10
<1>12. QED BY <1>1, <1>3, <1>6, <1>8, <1>9, <1>11

\* strlcpy writes at most n bytes, the last a NUL, and returns the source's length.
LEMMA StrlcpyRight ==
  ASSUME NEW m, NEW s1, NEW x, NEW s2, NEW y, Strings2(m, s1, x, s2, y), NEW n \in Nat
  PROVE  /\ strlcpy(m, s1, s2, n).mem
              = Put(m, s1, IF n = 0 THEN <<>> ELSE Prefix(y, n - 1) \o <<0>>)
         /\ strlcpy(m, s1, s2, n).ret = Len(y)
         /\ strlcpy(m, s1, s2, n).reads \subseteq Held(s1, x, s2, y)
<1>1. /\ m \in Memory /\ IsString(m, s2, y)
      /\ s1 \in Nat /\ s2 \in Nat /\ Len(y) \in Nat /\ y \in Seq(1 .. 255)
      /\ First(s2, Zeros(m)) = s2 + Len(y)
      /\ s2 .. s2 + Len(y) \subseteq Held(s1, x, s2, y)
  BY StringFacts
<1>2. (s2 + Len(y)) - s2 = Len(y)
  BY <1>1
<1>3. /\ strlcpy(m, s1, s2, n).ret = Len(y)
      /\ strlcpy(m, s1, s2, n).reads = s2 .. s2 + Len(y)
  BY <1>1, <1>2 DEF strlcpy, Gives
<1>4. CASE n = 0
  <2>1. strlcpy(m, s1, s2, n).mem = m
    BY <1>4 DEF strlcpy, Gives
  <2>2. QED BY <1>1, <1>3, <1>4, <2>1, PutNone
<1>5. CASE n # 0
  <2>1. PICK i \in Nat : i = n - 1
    BY <1>5
  <2>2. Min({(s2 + Len(y)) - s2, i}) = Len(Prefix(y, i))
    <3>1. y \in Seq(1 .. 255) /\ s2 \in Nat
      BY <1>1
    <3>2. QED BY <3>1, PrefixLength
  <2>3. strlcpy(m, s1, s2, n).mem =
          Put(Copied(m, s1, s2, Len(Prefix(y, i))), s1 + Len(Prefix(y, i)), <<0>>)
    BY <1>1, <1>5, <2>1, <2>2 DEF strlcpy, Gives
  <2>4. Put(Copied(m, s1, s2, Len(Prefix(y, i))), s1 + Len(Prefix(y, i)), <<0>>)
          = Put(m, s1, Prefix(y, i) \o <<0>>)
    BY <1>1, CopyPrefix
  <2>5. QED BY <1>1, <1>3, <1>5, <2>1, <2>3, <2>4
<1>6. QED BY <1>4, <1>5

\* strlcat leaves at most n bytes in all and returns the length it tried for.
LEMMA StrlcatRight ==
  ASSUME NEW m, NEW s1, NEW x, NEW s2, NEW y, Strings2(m, s1, x, s2, y), NEW n \in Nat
  PROVE  /\ strlcat(m, s1, s2, n).mem
              = Put(m, s1 + Len(x), IF n <= Len(x) THEN <<>> ELSE Prefix(y, n - Len(x) - 1) \o <<0>>)
         /\ strlcat(m, s1, s2, n).ret = Min({Len(x), n}) + Len(y)
         /\ strlcat(m, s1, s2, n).reads \subseteq Held(s1, x, s2, y)
<1>1. /\ m \in Memory /\ IsString(m, s2, y)
      /\ s1 \in Nat /\ s2 \in Nat /\ Len(x) \in Nat /\ Len(y) \in Nat /\ y \in Seq(1 .. 255)
      /\ First(s1, Zeros(m)) = s1 + Len(x) /\ First(s2, Zeros(m)) = s2 + Len(y)
      /\ s1 .. s1 + Len(x) \subseteq Held(s1, x, s2, y)
      /\ s2 .. s2 + Len(y) \subseteq Held(s1, x, s2, y)
  BY StringFacts
<1>2. PICK e \in Nat : e = s1 + Len(x)
  BY <1>1
<1>3. Min({Len(x), n}) = IF Len(x) <= n THEN Len(x) ELSE n
  BY <1>1, MinPair
<1>4. Min({s1 + Len(x), s1 + n}) = IF Len(x) <= n THEN s1 + Len(x) ELSE s1 + n
  <2>1. Min({s1 + Len(x), s1 + n}) = IF s1 + Len(x) <= s1 + n THEN s1 + Len(x) ELSE s1 + n
    BY <1>1, MinPair
  <2>2. QED BY <1>1, <2>1
<1>5. (s2 + Len(y)) - s2 = Len(y) /\ (s1 + Len(x)) - s1 = Len(x) /\ (s1 + n) - s1 = n
  BY <1>1
<1>6. CASE n <= Len(x)
  <2>1. Min({s1 + Len(x), s1 + n}) = s1 + n /\ Min({Len(x), n}) = n
    BY <1>1, <1>3, <1>4, <1>6
  <2>2. n - n = 0
    OBVIOUS
  <2>3. strlen(m, s2).ret = Len(y) /\ strlen(m, s2).reads \subseteq Held(s1, x, s2, y)
    BY StrlenRight
  <2>4. strlcat(m, s1, s2, n) =
          Gives(m, n + strlen(m, s2).ret, (s1 .. (s1 + n) - 1) \cup strlen(m, s2).reads)
    BY <1>1, <1>5, <2>1, <2>2 DEF strlcat
  <2>5. (s1 .. (s1 + n) - 1) \subseteq s1 .. s1 + Len(x)
    BY <1>1, <1>6
  <2>6. /\ strlcat(m, s1, s2, n).mem = m /\ strlcat(m, s1, s2, n).ret = n + Len(y)
        /\ strlcat(m, s1, s2, n).reads \subseteq Held(s1, x, s2, y)
    BY <1>1, <2>3, <2>4, <2>5 DEF Gives
  <2>7. QED BY <1>1, <1>2, <1>6, <2>1, <2>6, PutNone
<1>7. CASE ~(n <= Len(x))
  <2>1. Min({s1 + Len(x), s1 + n}) = e /\ Min({Len(x), n}) = Len(x)
    BY <1>1, <1>2, <1>3, <1>4, <1>7
  <2>2. PICK i \in Nat : i = n - Len(x) - 1
    <3>1. n - Len(x) - 1 \in Nat
      BY <1>1, <1>7
    <3>2. QED BY <3>1
  <2>3. n - Len(x) # 0 /\ e - s1 = Len(x)
    BY <1>1, <1>2, <1>7
  <2>4. Min({(s2 + Len(y)) - s2, i}) = Len(Prefix(y, i))
    <3>1. y \in Seq(1 .. 255) /\ s2 \in Nat
      BY <1>1
    <3>2. QED BY <3>1, PrefixLength, Zenon
  <2>5. strlcat(m, s1, s2, n) =
          Gives(Put(Copied(m, e, s2, Len(Prefix(y, i))), e + Len(Prefix(y, i)), <<0>>),
                Len(x) + Len(y), (s1 .. e) \cup (s2 .. s2 + Len(y)))
    BY <1>1, <1>5, <2>1, <2>2, <2>3, <2>4 DEF strlcat
  <2>6. Put(Copied(m, e, s2, Len(Prefix(y, i))), e + Len(Prefix(y, i)), <<0>>)
          = Put(m, e, Prefix(y, i) \o <<0>>)
    BY <1>1, CopyPrefix
  <2>7. /\ strlcat(m, s1, s2, n).mem = Put(m, e, Prefix(y, i) \o <<0>>)
        /\ strlcat(m, s1, s2, n).ret = Len(x) + Len(y)
        /\ strlcat(m, s1, s2, n).reads = (s1 .. e) \cup (s2 .. s2 + Len(y))
    BY <2>5, <2>6 DEF Gives
  <2>8. QED BY <1>1, <1>2, <1>7, <2>1, <2>2, <2>7
<1>8. QED BY <1>6, <1>7

\* strnlen gives the lesser of the length and n.
LEMMA StrnlenRight ==
  ASSUME NEW m, NEW s1, NEW x, NEW s2, NEW y, Strings2(m, s1, x, s2, y), NEW n \in Nat
  PROVE  /\ strnlen(m, s1, n).ret = Min({Len(x), n})
         /\ strnlen(m, s1, n).reads \subseteq Held(s1, x, s2, y)
<1>1. /\ s1 \in Nat /\ Len(x) \in Nat /\ First(s1, Zeros(m)) = s1 + Len(x)
      /\ s1 .. s1 + Len(x) \subseteq Held(s1, x, s2, y)
  BY StringFacts
<1>3. Min({Len(x), n}) = IF Len(x) <= n THEN Len(x) ELSE n
  BY <1>1, MinPair
<1>4. Min({s1 + Len(x), s1 + n}) = IF s1 + Len(x) <= s1 + n THEN s1 + Len(x) ELSE s1 + n
  BY <1>1, MinPair
<1>5. PICK l \in Nat : l = Min({Len(x), n}) /\ l <= Len(x)
  BY <1>1, <1>3
<1>6. Min({s1 + Len(x), s1 + n}) = s1 + l
  BY <1>1, <1>3, <1>4, <1>5
<1>7. (s1 + l) - s1 = l
  BY <1>1
<1>8. strnlen(m, s1, n).ret = l /\ strnlen(m, s1, n).reads = s1 .. s1 + l
  BY <1>1, <1>6, <1>7 DEF strnlen, Gives
<1>9. s1 .. s1 + l \subseteq s1 .. s1 + Len(x)
  BY <1>1, <1>5
<1>10. QED BY <1>1, <1>5, <1>8, <1>9


-----------------------------------------------------------------------------
(* The copying functions, whatever the strings.                            *)

\* The first string lies before the second one, and a shorter first string leaves a
\* byte between its NUL and the second string.
Apart(s1, x, s2, y) == s1 + Len(x) < s2 /\ (Len(x) < Len(y) => s1 + Len(x) + 1 < s2)

\* The strings of a call.
LEMMA StringMemory ==
  ASSUME CallInv, StringCall
  PROVE  \E x, y : Strings2(mem, args.s1, x, args.s2, y) /\ Apart(args.s1, x, args.s2, y)
<1>1. call = NoCall /\ args.kind = "strings"
  BY DEF StringCall
<1>2. Ready /\ args # [kind |-> "block"]
  BY <1>1 DEF CallInv
<1>3. PICK x \in Strings, y \in Strings, a \in 0 .. WORD - 1, b \in 0 .. WORD - 1 :
        mem = Layout(x, a, y, b) /\ args = [kind |-> "strings", s1 |-> a, s2 |-> R + b]
  BY <1>2 DEF Ready
<1>4. args.s1 = a /\ args.s2 = R + b
  BY <1>3
<1>5. /\ Layout(x, a, y, b) \in Memory
      /\ IsString(Layout(x, a, y, b), a, x)
      /\ IsString(Layout(x, a, y, b), R + b, y)
  BY LayoutRight
<1>6. Apart(a, x, R + b, y)
  <2>1. WORD + Len(x) + Len(y) <= R
    BY RoomAssumption
  <2>2. x \in Seq(1 .. 255) /\ y \in Seq(1 .. 255) /\ R \in Nat /\ WORD \in Nat
    BY BytesAssumption
  <2>3. Len(x) \in Nat /\ Len(y) \in Nat
    BY <2>2
  <2>4. QED BY <2>1, <2>2, <2>3 DEF Apart
<1>7. QED BY <1>3, <1>4, <1>5, <1>6 DEF Strings2

\* The calls of StringCall.
LEMMA StringKinds ==
  ASSUME StringCall, NEW s1, s1 = args.s1, NEW s2, s2 = args.s2
  PROVE  \/ Call("strlen", <<>>, strlen(mem, s1))
         \/ Call("strcpy", <<>>, strcpy(mem, s1, s2))
         \/ Call("strcat", <<>>, strcat(mem, s1, s2))
         \/ Call("strcmp", <<>>, strcmp(mem, s1, s2))
         \/ Call("strcasecmp", <<>>, strcasecmp(mem, s1, s2))
         \/ Call("strstr", <<>>, strstr(mem, s1, s2))
         \/ \E n \in Counts :
              \/ Call("strnlen", <<n>>, strnlen(mem, s1, n))
              \/ Call("strncpy", <<n>>, strncpy(mem, s1, s2, n))
              \/ Call("strlcpy", <<n>>, strlcpy(mem, s1, s2, n))
              \/ Call("strncat", <<n>>, strncat(mem, s1, s2, n))
              \/ Call("strlcat", <<n>>, strlcat(mem, s1, s2, n))
              \/ Call("strncmp", <<n>>, strncmp(mem, s1, s2, n))
              \/ Call("strncasecmp", <<n>>, strncasecmp(mem, s1, s2, n))
              \/ Call("strnstr", <<n>>, strnstr(mem, s1, s2, n))
         \/ \E c \in Chars :
              \/ Call("strchr", <<c>>, strchr(mem, s1, c))
              \/ Call("strrchr", <<c>>, strrchr(mem, s1, c))
              \/ \E n \in Counts : Call("strnchr", <<n, c>>, strnchr(mem, s1, n, c))
  BY Zenon DEF StringCall

\* A call remembers what was there, and leaves its arguments alone.
LEMMA CallKeeps ==
  ASSUME StringCall
  PROVE  call'.before = mem /\ args' = args
<1>1. PICK s1, s2 : s1 = args.s1 /\ s2 = args.s2
  OBVIOUS
<1> DEFINE Kept == call'.before = mem /\ args' = args
<1>2. ASSUME NEW op, NEW more, NEW result, Call(op, more, result) PROVE Kept
  BY <1>2 DEF Call
<1> HIDE DEF Kept
<1>3. Kept
  BY <1>1, <1>2, StringKinds, Zenon
<1>4. QED BY <1>3 DEF Kept


\* A call on a block is one of mem_op.cpp.
LEMMA BlockCalls ==
  ASSUME BlockCall
  PROVE  call'.op \in {"memcpy", "memmove", "memcmp", "memset"}
<1>1. PICK d, s, n \in Nat :
          /\ d + n <= M /\ s + n <= M
          /\ \/ (d + n <= s \/ s + n <= d) /\ Call("memcpy", <<d, s, n>>, memcpy(mem, d, s, n))
             \/ Call("memmove", <<d, s, n>>, memmove(mem, d, s, n))
             \/ Call("memcmp", <<d, s, n>>, memcmp(mem, d, s, n))
             \/ Call("memset", <<d, n>>, memset(mem, d, 255, n))
  BY BlockKinds
<1>2. QED BY <1>1 DEF Call

\* The calls that copy.
Copying == {"strcpy", "strcat", "strncpy", "strncat", "strlcpy", "strlcat"}

\* Every step keeps CopiesRight.
LEMMA CopiesNext ==
  ASSUME CallInv, CopiesRight, [Next]_vars
  PROVE  CopiesRight'
<1>1. CASE StringCall
  <2>1. PICK x, y : Strings2(mem, args.s1, x, args.s2, y)
    BY <1>1, StringMemory
  <2>2. PICK s1, s2 : s1 = args.s1 /\ s2 = args.s2
    OBVIOUS
  <2>3. Strings2(mem, s1, x, s2, y)
    BY <2>1, <2>2
  <2>4. call'.before = mem /\ args'.s1 = s1 /\ args'.s2 = s2
    BY <1>1, <2>2, CallKeeps
  <2>5. StringAt(mem, s1) = x /\ StringAt(mem, s2) = y
    BY <2>3, StringAtIs DEF Strings2
  <2>6. StringAt(call'.before, args'.s1) = x /\ StringAt(call'.before, args'.s2) = y
    BY <2>4, <2>5
  <2>7. ASSUME call'.op \notin Copying PROVE CopiesRight'
    BY <2>7 DEF CopiesRight, Called, Copying
  <2>8. CASE Call("strcpy", <<>>, strcpy(mem, s1, s2))
    <3>1. call'.op = "strcpy" /\ mem' = strcpy(mem, s1, s2).mem
      BY <2>8 DEF Call
    <3>2. mem' = Put(call'.before, args'.s1, y \o <<0>>)
      BY <2>3, <2>4, <3>1, StrcpyRight
    <3>3. QED BY <2>6, <3>1, <3>2 DEF CopiesRight, Called, Str
  <2>9. CASE Call("strcat", <<>>, strcat(mem, s1, s2))
    <3>1. call'.op = "strcat" /\ mem' = strcat(mem, s1, s2).mem
      BY <2>9 DEF Call
    <3>2. mem' = Put(call'.before, args'.s1 + Len(x), y \o <<0>>)
      BY <2>3, <2>4, <3>1, StrcatRight
    <3>3. QED BY <2>6, <3>1, <3>2 DEF CopiesRight, Called, Str
  <2>10. ASSUME NEW n \in Counts, Call("strncpy", <<n>>, strncpy(mem, s1, s2, n))
         PROVE  CopiesRight'
    <3>1. call'.op = "strncpy" /\ call'.args[1] = n /\ mem' = strncpy(mem, s1, s2, n).mem
      BY <2>10 DEF Call
    <3>2. n \in Nat
      BY BytesAssumption
    <3>3. mem' = Put(call'.before, args'.s1, [k \in 1 .. n |-> IF k <= Len(y) THEN y[k] ELSE 0])
      BY <2>3, <2>4, <3>1, <3>2, StrncpyRight
    <3>4. QED BY <2>6, <3>1, <3>3 DEF CopiesRight, Called, Str
  <2>11. ASSUME NEW n \in Counts, Call("strncat", <<n>>, strncat(mem, s1, s2, n))
         PROVE  CopiesRight'
    <3>1. call'.op = "strncat" /\ call'.args[1] = n /\ mem' = strncat(mem, s1, s2, n).mem
      BY <2>11 DEF Call
    <3>2. n \in Nat
      BY BytesAssumption
    <3>3. mem' = Put(call'.before, args'.s1 + Len(x), Prefix(y, n) \o <<0>>)
      BY <2>3, <2>4, <3>1, <3>2, StrncatRight
    <3>4. QED BY <2>6, <3>1, <3>3 DEF CopiesRight, Called, Str
  <2>12. ASSUME NEW n \in Counts, Call("strlcpy", <<n>>, strlcpy(mem, s1, s2, n))
         PROVE  CopiesRight'
    <3>1. /\ call'.op = "strlcpy" /\ call'.args[1] = n
          /\ mem' = strlcpy(mem, s1, s2, n).mem /\ call'.ret = strlcpy(mem, s1, s2, n).ret
      BY <2>12 DEF Call
    <3>2. n \in Nat
      BY BytesAssumption
    <3>3. /\ mem' = Put(call'.before, args'.s1, IF n = 0 THEN <<>> ELSE Prefix(y, n - 1) \o <<0>>)
          /\ call'.ret = Len(y)
      BY <2>3, <2>4, <3>1, <3>2, StrlcpyRight
    <3>4. QED BY <2>6, <3>1, <3>3 DEF CopiesRight, Called, Str
  <2>13. ASSUME NEW n \in Counts, Call("strlcat", <<n>>, strlcat(mem, s1, s2, n))
         PROVE  CopiesRight'
    <3>1. /\ call'.op = "strlcat" /\ call'.args[1] = n
          /\ mem' = strlcat(mem, s1, s2, n).mem /\ call'.ret = strlcat(mem, s1, s2, n).ret
      BY <2>13 DEF Call
    <3>2. n \in Nat
      BY BytesAssumption
    <3>3. /\ mem' = Put(call'.before, args'.s1 + Len(x),
                        IF n <= Len(x) THEN <<>> ELSE Prefix(y, n - Len(x) - 1) \o <<0>>)
          /\ call'.ret = Min({Len(x), n}) + Len(y)
      BY <2>3, <2>4, <3>1, <3>2, StrlcatRight
    <3>4. QED BY <2>6, <3>1, <3>3 DEF CopiesRight, Called, Str
  <2>14. ASSUME NEW op, op \notin Copying, NEW more, NEW result, Call(op, more, result)
         PROVE  CopiesRight'
    <3>1. call'.op = op
      BY <2>14 DEF Call
    <3>2. QED BY <2>7, <2>14, <3>1
  <2>15. /\ "strlen" \notin Copying /\ "strcmp" \notin Copying /\ "strcasecmp" \notin Copying
         /\ "strstr" \notin Copying /\ "strnlen" \notin Copying /\ "strncmp" \notin Copying
         /\ "strncasecmp" \notin Copying /\ "strnstr" \notin Copying /\ "strchr" \notin Copying
         /\ "strrchr" \notin Copying /\ "strnchr" \notin Copying
    BY DEF Copying
  <2>16. QED
    <3> DEFINE Goal == CopiesRight'
    <3> SUFFICES Goal
      OBVIOUS
    <3> HIDE DEF Goal
    <3>1. ASSUME NEW op, op \notin Copying, NEW more, NEW result, Call(op, more, result)
          PROVE  Goal
      BY <2>14, <3>1 DEF Goal
    <3>2. CASE Call("strcpy", <<>>, strcpy(mem, s1, s2)) \/ Call("strcat", <<>>, strcat(mem, s1, s2))
      BY <2>8, <2>9, <3>2 DEF Goal
    <3>3. ASSUME NEW n \in Counts,
                 \/ Call("strncpy", <<n>>, strncpy(mem, s1, s2, n))
                 \/ Call("strlcpy", <<n>>, strlcpy(mem, s1, s2, n))
                 \/ Call("strncat", <<n>>, strncat(mem, s1, s2, n))
                 \/ Call("strlcat", <<n>>, strlcat(mem, s1, s2, n))
          PROVE  Goal
      BY <2>10, <2>11, <2>12, <2>13, <3>3 DEF Goal
    <3>4. QED BY <1>1, <2>2, <2>15, <3>1, <3>2, <3>3, StringKinds, Zenon
<1>2. CASE BlockCall
  <2>1. call'.op \in {"memcpy", "memmove", "memcmp", "memset"}
    BY <1>2, BlockCalls
  <2>2. QED BY <2>1 DEF CopiesRight, Called
<1>3. CASE UNCHANGED vars
  BY <1>3 DEF vars, CopiesRight, Called, Str
<1>4. QED BY <1>1, <1>2, <1>3 DEF Next

\* Whatever the strings, their alignment, the size of a word and the count, strcpy,
\* strcat, strncpy, strncat, strlcpy and strlcat leave and return what they promise
\* (string.cpp:51-164).
THEOREM CopiesCorrect == Spec => []CopiesRight
<1>1. Init => CopiesRight
  BY DEF Init, CopiesRight, Called, NoCall
<1>2. CallInv /\ CopiesRight /\ [Next]_vars => CallInv' /\ CopiesRight'
  BY CallNext, CopiesNext
<1>3. QED BY <1>1, <1>2, CallInit, PTL DEF Spec


-----------------------------------------------------------------------------
(* Comparing strings.                                                      *)

\* Two strings are the same as far as both go.
Same(s, t) == \A k \in 1 .. Len(s) : k <= Len(t) => s[k] = t[k]

\* They part behind their first e elements.
Part(s, t, e) ==
  /\ e \in Nat /\ e < Len(s) /\ e < Len(t)
  /\ \A k \in 1 .. e : s[k] = t[k]
  /\ s[e + 1] # t[e + 1]

\* Sequences that are not the same part at a first place.
LEMMA SameOrPart ==
  ASSUME NEW S, NEW s \in Seq(S), NEW t \in Seq(S), ~Same(s, t)
  PROVE  \E e \in Nat : Part(s, t, e)
<1>0. Len(s) \in Nat /\ Len(t) \in Nat
  OBVIOUS
<1> DEFINE T == {k \in Nat : k < Len(s) /\ k < Len(t) /\ s[k + 1] # t[k + 1]}
<1>1. T # {}
  <2>1. PICK k \in 1 .. Len(s) : k <= Len(t) /\ s[k] # t[k]
    BY DEF Same
  <2>2. PICK i \in Nat : k = i + 1
    <3>1. k - 1 \in Nat /\ k = (k - 1) + 1
      BY <1>0
    <3>2. QED BY <3>1
  <2>3. i \in T
    BY <1>0, <2>1, <2>2
  <2>4. QED BY <2>3
<1>2. PICK e \in T : \A k \in T : e <= k
  <2>1. T \in SUBSET Nat
    OBVIOUS
  <2> HIDE DEF T
  <2>2. QED BY <1>1, <2>1, LeastNatural
<1>3. ASSUME NEW k \in 1 .. e PROVE s[k] = t[k]
  <2>1. PICK i \in Nat : k = i + 1
    <3>1. k - 1 \in Nat /\ k = (k - 1) + 1
      BY <1>0
    <3>2. QED BY <3>1
  <2>2. i < e /\ i < Len(s) /\ i < Len(t)
    BY <1>0, <1>2, <2>1
  <2>3. ~(i \in T)
    BY <1>2, <2>2
  <2>4. QED BY <2>1, <2>2, <2>3
<1>4. QED BY <1>2, <1>3 DEF Part

\* What the properties say the comparison of two strings gives.
LEMMA DifferenceIs ==
  ASSUME NEW s \in Seq(Nat), NEW t \in Seq(Nat)
  PROVE  /\ Same(s, t) => Difference(s, t) = 0
         /\ \A e \in Nat : Part(s, t, e) =>
              Difference(s, t) = s[e + 1] - t[e + 1] /\ Difference(s, t) # 0
<1>0. Len(s) \in Nat /\ Len(t) \in Nat
  OBVIOUS
<1>00. Min({Len(s), Len(t)}) = IF Len(s) <= Len(t) THEN Len(s) ELSE Len(t)
  <2>1. Len(s) \in Int /\ Len(t) \in Int
    BY <1>0
  <2>2. QED BY <2>1, MinPair, Zenon
<1>1. PICK l \in Nat : l = Min({Len(s), Len(t)}) /\ l = IF Len(s) <= Len(t) THEN Len(s) ELSE Len(t)
  BY <1>0, <1>00
<1> DEFINE at == {k \in 1 .. l : s[k] # t[k]}
<1>2. Difference(s, t) = IF at = {} THEN 0 ELSE s[Min(at)] - t[Min(at)]
  BY <1>1 DEF Difference
<1>3. ASSUME Same(s, t) PROVE Difference(s, t) = 0
  <2>1. ASSUME NEW k \in 1 .. l PROVE s[k] = t[k]
    <3>1. k \in 1 .. Len(s) /\ k <= Len(t)
      BY <1>0, <1>1
    <3>2. QED BY <1>3, <3>1 DEF Same
  <2>3. at = {}
    BY <2>1
  <2> HIDE DEF at
  <2>4. QED BY <1>2, <2>3
<1>4. ASSUME NEW e \in Nat, Part(s, t, e)
      PROVE  Difference(s, t) = s[e + 1] - t[e + 1] /\ Difference(s, t) # 0
  <2>1. e + 1 \in at /\ at \in SUBSET Int
    BY <1>0, <1>1, <1>4 DEF Part
  <2>2. ASSUME NEW k \in at PROVE e + 1 <= k
    <3>1. \A j \in 1 .. e : s[j] = t[j]
      BY <1>4 DEF Part
    <3>2. k \in Nat /\ k >= 1 /\ s[k] # t[k]
      BY <1>1
    <3>3. ~(k \in 1 .. e)
      BY <3>1, <3>2
    <3>4. QED BY <1>4, <3>2, <3>3
  <2>3. s[e + 1] \in Nat /\ t[e + 1] \in Nat /\ s[e + 1] # t[e + 1]
    BY <1>0, <1>4, ElementOfSeq DEF Part
  <2> HIDE DEF at
  <2>4. PICK f : f = e + 1
    OBVIOUS
  <2>5. Min(at) = f
    BY <2>1, <2>2, <2>4, MinIs
  <2>6. Difference(s, t) = s[e + 1] - t[e + 1]
    BY <1>2, <2>1, <2>4, <2>5
  <2>7. QED BY <2>3, <2>6
<1>5. QED BY <1>3, <1>4

\* A memory, or the folded one, holds the bytes t at p.
Holds(f, p, t) ==
  /\ f \in [0 .. M - 1 -> Nat] /\ p \in Nat /\ t \in Seq(Nat) /\ p + Len(t) <= M
  /\ \A i \in 0 .. Len(t) - 1 : f[p + i] = t[i + 1]

\* A string's memory holds its bytes and its NUL.
LEMMA HoldsWithNul ==
  ASSUME NEW m \in Memory, NEW p, NEW x, IsString(m, p, x)
  PROVE  Holds(m, p, x \o <<0>>)
<1>0. /\ x \in Seq(1 .. 255) /\ p \in Nat /\ M \in Nat /\ p + Len(x) < M /\ Len(x) \in Nat
      /\ \A i \in 0 .. Len(x) - 1 : m[p + i] = x[i + 1]
      /\ m[p + Len(x)] = 0
  <2>1. x \in Seq(1 .. 255)
    BY DEF IsString
  <2>2. QED BY <2>1, BytesAssumption DEF IsString, M
<1> DEFINE X == x \o <<0>>
<1>1. /\ X \in Seq(0 .. 255) /\ Len(X) = Len(x) + 1
      /\ \A i \in 0 .. Len(x) - 1 : X[i + 1] = x[i + 1]
      /\ X[Len(x) + 1] = 0
  BY <1>0, WithNul
<1> HIDE DEF X
<1>2. X \in Seq(Nat)
  <2>1. ASSUME NEW k \in 1 .. Len(X) PROVE X[k] \in Nat
    <3>1. X[k] \in 0 .. 255
      BY <1>1, ElementOfSeq
    <3>2. \A c \in 0 .. 255 : c \in Nat
      OBVIOUS
    <3>3. QED BY <3>1, <3>2, Zenon
  <2>2. Len(X) \in Nat /\ X = [k \in 1 .. Len(X) |-> X[k]]
    BY <1>1
  <2>3. QED BY <2>1, <2>2
<1>3. ASSUME NEW i \in 0 .. Len(X) - 1 PROVE m[p + i] = X[i + 1]
  <2>1. CASE i = Len(x)
    BY <1>0, <1>1, <2>1
  <2>2. CASE i # Len(x)
    <3>1. i \in 0 .. Len(x) - 1
      BY <1>0, <1>1, <2>2
    <3>2. QED BY <1>0, <1>1, <3>1
  <2>3. QED BY <2>1, <2>2
<1>4. m \in [0 .. M - 1 -> Nat]
  <2>1. m \in [0 .. M - 1 -> 0 .. 255] /\ \A c \in 0 .. 255 : c \in Nat
    BY DEF Memory
  <2>2. QED BY <2>1, Zenon
<1>5. p + Len(X) <= M
  BY <1>0, <1>1
<1>6. Holds(m, p, X)
  BY <1>0, <1>2, <1>3, <1>4, <1>5 DEF Holds
<1>7. QED BY <1>6 DEF X

\* The places where two strings differ, as addresses in the first.
LEMMA DifferingIs ==
  ASSUME NEW f, NEW s1, NEW X, Holds(f, s1, X), NEW s2, NEW Y, Holds(f, s2, Y)
  PROVE  /\ Differing(f, s1, s2) \in SUBSET (0 .. M - 1)
         /\ \A i \in Nat : i < Len(X) /\ i < Len(Y) =>
              (s1 + i \in Differing(f, s1, s2) <=> X[i + 1] # Y[i + 1])
<1>0. /\ f \in [0 .. M - 1 -> Nat] /\ s1 \in Nat /\ s2 \in Nat /\ M \in Nat
      /\ Len(X) \in Nat /\ Len(Y) \in Nat /\ s1 + Len(X) <= M /\ s2 + Len(Y) <= M
      /\ \A i \in 0 .. Len(X) - 1 : f[s1 + i] = X[i + 1]
      /\ \A i \in 0 .. Len(Y) - 1 : f[s2 + i] = Y[i + 1]
  <2>1. X \in Seq(Nat) /\ Y \in Seq(Nat)
    BY DEF Holds
  <2>2. QED BY <2>1, BytesAssumption DEF Holds, M
<1>1. DOMAIN f = 0 .. M - 1
  BY <1>0
<1>2. ASSUME NEW i \in Nat, i < Len(X), i < Len(Y)
      PROVE  s1 + i \in Differing(f, s1, s2) <=> X[i + 1] # Y[i + 1]
  <2>1. i \in 0 .. Len(X) - 1 /\ i \in 0 .. Len(Y) - 1
    BY <1>0, <1>2
  <2>2. f[s1 + i] = X[i + 1] /\ f[s2 + i] = Y[i + 1]
    BY <1>0, <2>1
  <2>3. s1 + i \in 0 .. M - 1 /\ s2 + i \in 0 .. M - 1 /\ s2 + ((s1 + i) - s1) = s2 + i
    BY <1>0, <2>1
  <2>4. QED BY <1>1, <2>2, <2>3 DEF Differing
<1>3. QED BY <1>1, <1>2 DEF Differing

\* Two strings are looked at up to their place e: before it they are the same and
\* have no NUL, at it they differ or end.
Stop(x, y, e) ==
  /\ e \in Nat /\ e <= Len(x) /\ e <= Len(y)
  /\ \A i \in 0 .. e - 1 : (x \o <<0>>)[i + 1] = (y \o <<0>>)[i + 1] /\ (x \o <<0>>)[i + 1] # 0
  /\ (x \o <<0>>)[e + 1] = 0 \/ (x \o <<0>>)[e + 1] # (y \o <<0>>)[e + 1]

\* Two strings have a place where they stop.
LEMMA StopExists ==
  ASSUME NEW x \in Seq(1 .. 255), NEW y \in Seq(1 .. 255)
  PROVE  \E e \in Nat : Stop(x, y, e)
<1> DEFINE X == x \o <<0>>
           Y == y \o <<0>>
<1>1. /\ Len(x) \in Nat /\ Len(y) \in Nat
      /\ X[Len(x) + 1] = 0 /\ Y[Len(y) + 1] = 0
      /\ \A i \in 0 .. Len(x) - 1 : X[i + 1] \in 1 .. 255
  BY WithNul, Zenon
<1> DEFINE T == {i \in Nat : i <= Len(x) /\ i <= Len(y) /\ (X[i + 1] = 0 \/ X[i + 1] # Y[i + 1])}
<1>2. T # {}
  <2> HIDE DEF X, Y
  <2>1. CASE Len(x) <= Len(y)
    <3>1. Len(x) \in T
      BY <1>1, <2>1
    <3>2. QED BY <3>1
  <2>2. CASE ~(Len(x) <= Len(y))
    <3>1. Len(y) \in 0 .. Len(x) - 1
      BY <1>1, <2>2
    <3>2. X[Len(y) + 1] \in 1 .. 255
      BY <1>1, <3>1
    <3>3. Len(y) \in T
      BY <1>1, <2>2, <3>2
    <3>4. QED BY <3>3
  <2>3. QED BY <2>1, <2>2
<1>3. PICK e \in T : \A k \in T : e <= k
  <2>1. T \in SUBSET Nat
    OBVIOUS
  <2> HIDE DEF T
  <2>2. QED BY <1>2, <2>1, LeastNatural
<1>4. ASSUME NEW i \in 0 .. e - 1 PROVE X[i + 1] = Y[i + 1] /\ X[i + 1] # 0
  <2> HIDE DEF X, Y
  <2>1. i \in Nat /\ ~(e <= i) /\ i <= Len(x) /\ i <= Len(y)
    BY <1>1, <1>3
  <2>2. ~(i \in T)
    BY <1>3, <2>1
  <2>3. QED BY <2>1, <2>2
<1>5. Stop(x, y, e)
  BY <1>3, <1>4 DEF Stop
<1>6. QED BY <1>3, <1>5

\* At their stop the strings part, or both end.
LEMMA StopParts ==
  ASSUME NEW x \in Seq(1 .. 255), NEW y \in Seq(1 .. 255), NEW e, Stop(x, y, e)
  PROVE  \/ Part(x \o <<0>>, y \o <<0>>, e)
         \/ /\ Same(x \o <<0>>, y \o <<0>>) /\ e = Len(x) /\ e = Len(y)
            /\ (x \o <<0>>)[e + 1] = 0 /\ (y \o <<0>>)[e + 1] = 0
<1> DEFINE X == x \o <<0>>
           Y == y \o <<0>>
<1>1. /\ Len(x) \in Nat /\ Len(y) \in Nat /\ Len(X) = Len(x) + 1 /\ Len(Y) = Len(y) + 1
      /\ X[Len(x) + 1] = 0 /\ Y[Len(y) + 1] = 0
      /\ \A i \in 0 .. Len(x) - 1 : X[i + 1] \in 1 .. 255
      /\ \A i \in 0 .. Len(y) - 1 : Y[i + 1] \in 1 .. 255
  BY WithNul, Zenon
<1>2. /\ e \in Nat /\ e <= Len(x) /\ e <= Len(y)
      /\ \A i \in 0 .. e - 1 : X[i + 1] = Y[i + 1]
      /\ X[e + 1] = 0 \/ X[e + 1] # Y[e + 1]
  BY DEF Stop
<1> HIDE DEF X, Y
<1>3. ASSUME NEW k \in 1 .. e PROVE X[k] = Y[k]
  <2>1. PICK i : i = k - 1
    OBVIOUS
  <2>2. i \in 0 .. e - 1 /\ k = i + 1
    BY <1>2, <2>1
  <2>3. QED BY <1>2, <2>2
<1>4. CASE X[e + 1] # Y[e + 1]
  <2>1. Part(X, Y, e)
    BY <1>1, <1>2, <1>3, <1>4 DEF Part
  <2>2. QED BY <2>1 DEF X, Y
<1>5. CASE X[e + 1] = Y[e + 1]
  <2>1. X[e + 1] = 0 /\ Y[e + 1] = 0
    BY <1>2, <1>5
  <2>2. ~(e \in 0 .. Len(x) - 1)
    <3> SUFFICES ASSUME e \in 0 .. Len(x) - 1 PROVE FALSE
      OBVIOUS
    <3>1. X[e + 1] \in 1 .. 255
      BY <1>1
    <3>2. QED BY <2>1, <3>1
  <2>3. ~(e \in 0 .. Len(y) - 1)
    <3> SUFFICES ASSUME e \in 0 .. Len(y) - 1 PROVE FALSE
      OBVIOUS
    <3>1. Y[e + 1] \in 1 .. 255
      BY <1>1
    <3>2. QED BY <2>1, <3>1
  <2>4. e = Len(x) /\ e = Len(y)
    BY <1>1, <1>2, <2>2, <2>3
  <2>5. ASSUME NEW k \in 1 .. Len(X) PROVE X[k] = Y[k]
    <3>1. k \in 1 .. e \/ k = e + 1
      BY <1>1, <2>4
    <3>2. QED BY <1>3, <1>5, <3>1
  <2>6. Same(X, Y)
    BY <2>5 DEF Same
  <2>7. QED BY <2>1, <2>4, <2>6 DEF X, Y
<1>6. QED BY <1>4, <1>5

\* Cut to n elements, the strings part where they did, or no longer.
LEMMA PrefixParts ==
  ASSUME NEW s \in Seq(Nat), NEW t \in Seq(Nat), NEW n \in Nat
  PROVE  /\ Prefix(s, n) \in Seq(Nat) /\ Prefix(t, n) \in Seq(Nat)
         /\ Same(s, t) => Same(Prefix(s, n), Prefix(t, n))
         /\ \A e \in Nat : Part(s, t, e) =>
              IF e < n THEN /\ Part(Prefix(s, n), Prefix(t, n), e)
                            /\ Prefix(s, n)[e + 1] = s[e + 1] /\ Prefix(t, n)[e + 1] = t[e + 1]
                       ELSE Same(Prefix(s, n), Prefix(t, n))
<1> DEFINE a == Prefix(s, n)
           b == Prefix(t, n)
<1>1. /\ a \in Seq(Nat) /\ Len(a) = IF n <= Len(s) THEN n ELSE Len(s)
      /\ \A k \in 1 .. Len(a) : a[k] = s[k]
  BY PrefixIs
<1>2. /\ b \in Seq(Nat) /\ Len(b) = IF n <= Len(t) THEN n ELSE Len(t)
      /\ \A k \in 1 .. Len(b) : b[k] = t[k]
  BY PrefixIs
<1>0. Len(s) \in Nat /\ Len(t) \in Nat
  OBVIOUS
<1> HIDE DEF a, b
<1>01. Len(a) \in Nat /\ Len(a) <= Len(s)
  BY <1>0, <1>1
<1>02. Len(b) \in Nat /\ Len(b) <= Len(t)
  BY <1>0, <1>2
<1>3. ASSUME Same(s, t) PROVE Same(a, b)
  <2>1. ASSUME NEW k \in 1 .. Len(a), k <= Len(b) PROVE a[k] = b[k]
    <3>1. k \in 1 .. Len(b) /\ k \in 1 .. Len(s) /\ k <= Len(t)
      BY <1>0, <1>01, <1>02, <2>1
    <3>2. s[k] = t[k]
      BY <1>3, <3>1 DEF Same
    <3>3. QED BY <1>1, <1>2, <3>1, <3>2
  <2>2. QED BY <2>1 DEF Same
<1>4. ASSUME NEW e \in Nat, Part(s, t, e)
      PROVE  IF e < n THEN Part(a, b, e) /\ a[e + 1] = s[e + 1] /\ b[e + 1] = t[e + 1]
                      ELSE Same(a, b)
  <2>0. /\ e < Len(s) /\ e < Len(t) /\ s[e + 1] # t[e + 1]
        /\ \A k \in 1 .. e : s[k] = t[k]
    BY <1>4 DEF Part
  <2>1. ASSUME NEW k \in 1 .. e, k <= Len(a), k <= Len(b) PROVE a[k] = b[k]
    <3>1. k \in 1 .. Len(a) /\ k \in 1 .. Len(b)
      BY <1>01, <1>02, <2>1
    <3>2. QED BY <1>1, <1>2, <2>0, <3>1
  <2>2. CASE e < n
    <3>01. Len(a) \in Nat /\ e < Len(a)
      BY <1>0, <1>1, <2>0, <2>2
    <3>02. Len(b) \in Nat /\ e < Len(b)
      BY <1>0, <1>2, <2>0, <2>2
    <3>1. e < Len(a) /\ e < Len(b) /\ e + 1 \in 1 .. Len(a) /\ e + 1 \in 1 .. Len(b)
      BY <3>01, <3>02
    <3>2. a[e + 1] = s[e + 1] /\ b[e + 1] = t[e + 1]
      BY <1>1, <1>2, <3>1
    <3>3. ASSUME NEW k \in 1 .. e PROVE a[k] = b[k]
      <4>1. k <= Len(a) /\ k <= Len(b)
        BY <1>01, <1>02, <3>1
      <4>2. QED BY <2>1, <4>1
    <3>4. Part(a, b, e)
      BY <2>0, <3>1, <3>2, <3>3 DEF Part
    <3>5. QED BY <2>2, <3>2, <3>4
  <2>3. CASE ~(e < n)
    <3>1. ASSUME NEW k \in 1 .. Len(a), k <= Len(b) PROVE a[k] = b[k]
      <4>1. k \in 1 .. e /\ k <= Len(a)
        BY <1>0, <1>1, <2>0, <2>3
      <4>2. QED BY <2>1, <3>1, <4>1
    <3>2. Same(a, b)
      BY <3>1 DEF Same
    <3>3. QED BY <2>3, <3>2
  <2>4. QED BY <2>2, <2>3
<1>5. QED BY <1>1, <1>2, <1>3, <1>4 DEF a, b

\* Where the walks of strcmp and strncmp come to.
StopsAt(m, s1, x, s2, y, e) ==
  /\ Stop(x, y, e) /\ First(s1, Zeros(m) \cup Differing(m, s1, s2)) = s1 + e
  /\ m[s1 + e] = (x \o <<0>>)[e + 1] /\ m[s2 + e] = (y \o <<0>>)[e + 1]

\* The walk byte by byte comes to that place.
LEMMA StopFirst ==
  ASSUME NEW m, NEW s1, NEW x, NEW s2, NEW y, Strings2(m, s1, x, s2, y)
  PROVE  /\ Zeros(m) \cup Differing(m, s1, s2) \in SUBSET (0 .. M - 1)
         /\ \E e \in Nat : StopsAt(m, s1, x, s2, y, e)
<1> DEFINE X == x \o <<0>>
           Y == y \o <<0>>
           S == Zeros(m) \cup Differing(m, s1, s2)
<1>0. /\ m \in Memory /\ M \in Nat /\ s1 \in Nat /\ s2 \in Nat /\ Len(x) \in Nat /\ Len(y) \in Nat
      /\ s1 + Len(x) < M /\ s2 + Len(y) < M /\ x \in Seq(1 .. 255) /\ y \in Seq(1 .. 255)
      /\ IsString(m, s1, x) /\ IsString(m, s2, y)
  BY StringFacts
<1>1. Holds(m, s1, X) /\ Holds(m, s2, Y)
  BY <1>0, HoldsWithNul
<1>2. Len(X) = Len(x) + 1 /\ Len(Y) = Len(y) + 1
  BY <1>0, WithNul
<1>3. /\ \A a : a \in Zeros(m) <=> a \in 0 .. M - 1 /\ m[a] = 0
      /\ Zeros(m) \in SUBSET (0 .. M - 1)
  BY <1>0 DEF Zeros, Holding, Memory
<1>04. PICK e \in Nat : Stop(x, y, e)
  BY <1>0, StopExists
<1>4. /\ e \in Nat /\ e <= Len(x) /\ e <= Len(y)
      /\ \A i \in 0 .. e - 1 : X[i + 1] = Y[i + 1] /\ X[i + 1] # 0
      /\ X[e + 1] = 0 \/ X[e + 1] # Y[e + 1]
  BY <1>04 DEF Stop
<1> HIDE DEF X, Y
<1>5. /\ Differing(m, s1, s2) \in SUBSET (0 .. M - 1)
      /\ \A i \in Nat : i < Len(X) /\ i < Len(Y) =>
           (s1 + i \in Differing(m, s1, s2) <=> X[i + 1] # Y[i + 1])
  BY <1>1, DifferingIs
<1>6. /\ \A i \in 0 .. Len(X) - 1 : m[s1 + i] = X[i + 1]
      /\ \A i \in 0 .. Len(Y) - 1 : m[s2 + i] = Y[i + 1]
  BY <1>1 DEF Holds
<1>7. m[s1 + e] = X[e + 1] /\ m[s2 + e] = Y[e + 1]
  <2>1. e \in 0 .. Len(X) - 1 /\ e \in 0 .. Len(Y) - 1
    BY <1>0, <1>2, <1>4
  <2>2. QED BY <1>6, <2>1
<1>8. PICK E : E = s1 + e
  OBVIOUS
<1>9. E \in S /\ s1 <= E /\ s1 \in 0 .. M
  <2>1. E \in 0 .. M - 1 /\ s1 <= E /\ s1 \in 0 .. M /\ e < Len(X) /\ e < Len(Y)
    BY <1>0, <1>2, <1>4, <1>8
  <2>2. CASE X[e + 1] = 0
    BY <1>3, <1>7, <1>8, <2>1, <2>2
  <2>3. CASE X[e + 1] # Y[e + 1]
    BY <1>4, <1>5, <1>8, <2>1, <2>3
  <2>4. QED BY <1>4, <2>1, <2>2, <2>3
<1>10. ASSUME NEW q \in S, q >= s1 PROVE E <= q
  <2>0. q \in 0 .. M - 1
    BY <1>3, <1>5
  <2>1. PICK i : i = q - s1
    OBVIOUS
  <2>2. i \in Nat /\ q = s1 + i
    BY <1>0, <1>10, <2>0, <2>1
  <2>3. ~(i \in 0 .. e - 1)
    <3> SUFFICES ASSUME i \in 0 .. e - 1 PROVE FALSE
      OBVIOUS
    <3>1. X[i + 1] = Y[i + 1] /\ X[i + 1] # 0
      BY <1>4
    <3>2. i < Len(X) /\ i < Len(Y) /\ i \in 0 .. Len(X) - 1
      BY <1>0, <1>2, <1>4
    <3>3. ~(q \in Differing(m, s1, s2))
      BY <1>5, <2>2, <3>1, <3>2
    <3>4. m[q] # 0
      BY <1>6, <2>2, <3>1, <3>2
    <3>5. QED BY <1>3, <3>3, <3>4
  <2>4. QED BY <1>0, <1>4, <1>8, <2>2, <2>3
<1>11. S \in SUBSET (0 .. M - 1)
  BY <1>3, <1>5
<1>12. First(s1, S) = E
  <2> HIDE DEF S
  <2>1. QED BY <1>9, <1>10, <1>11, FirstIs
<1>13. StopsAt(m, s1, x, s2, y, e)
  BY <1>04, <1>7, <1>8, <1>12 DEF StopsAt, X, Y
<1>14. QED BY <1>11, <1>13

\* The words up to the one that holds a byte of a string are words of the string.
LEMMA WordReads ==
  ASSUME NEW s \in Nat, NEW n \in Nat, s + n < M, NEW e \in s .. s + n
  PROVE  s .. WordStart(e) + WORD - 1 \subseteq WordsOf(s, n)
<1>0. M \in Nat /\ WORD \in Nat \ {0} /\ e \in 0 .. M - 1
  BY BytesAssumption DEF M
<1> DEFINE w == WordStart(e)
<1>1. /\ w \in Nat /\ w <= e /\ e < w + WORD /\ w + WORD <= M
      /\ \A c \in 0 .. WORD - 1 : (w + c) \div WORD = e \div WORD
  BY <1>0, WordFacts
<1> HIDE DEF w
<1>2. ASSUME NEW a \in s .. w + WORD - 1 PROVE a \in WordsOf(s, n)
  <2>1. a \in 0 .. M - 1
    BY <1>0, <1>1
  <2>2. CASE a <= e
    <3>1. a \in s .. s + n
      BY <1>0, <2>2
    <3>2. QED BY <2>1, <3>1 DEF WordsOf
  <2>3. CASE ~(a <= e)
    <3>1. PICK c : c = a - w
      OBVIOUS
    <3>2. c \in 0 .. WORD - 1 /\ a = w + c
      BY <1>0, <1>1, <2>1, <2>3, <3>1
    <3>3. a \div WORD = e \div WORD
      BY <1>1, <3>2
    <3>4. QED BY <2>1, <3>3 DEF WordsOf
  <2>4. QED BY <2>2, <2>3
<1>3. QED BY <1>2 DEF w

\* strcmp gives the difference where the strings part; behind the words of the
\* strings it reads at most WORD - 1 bytes of the second.
LEMMA StrcmpRight ==
  ASSUME NEW m, NEW s1, NEW x, NEW s2, NEW y, Strings2(m, s1, x, s2, y)
  PROVE  /\ strcmp(m, s1, s2).ret = Difference(x \o <<0>>, y \o <<0>>)
         /\ strcmp(m, s1, s2).reads
              \subseteq Held(s1, x, s2, y) \cup (s2 .. s2 + Len(y) + WORD - 1)
<1> DEFINE X == x \o <<0>>
           Y == y \o <<0>>
           D == Differing(m, s1, s2)
           S == Zeros(m) \cup D
           Other(p) == s2 + (p - s1)
           words == {p \in 0 .. M - WORD : \E i \in 0 .. WORD - 1 : p + i \in D}
           head == First(s1, Aligned \cup S)
           word == FirstWord(head, ZeroWords(m) \cup words)
           end  == IF head % WORD # 0 THEN head ELSE First(word, S)
           last == IF head % WORD # 0 THEN head ELSE word + WORD - 1
           far  == IF head % WORD # 0 \/ has_zero(m, word) THEN end ELSE last
<1>0. /\ m \in Memory /\ M \in Nat /\ s1 \in Nat /\ s2 \in Nat /\ Len(x) \in Nat /\ Len(y) \in Nat
      /\ s1 + Len(x) < M /\ s2 + Len(y) < M /\ x \in Seq(1 .. 255) /\ y \in Seq(1 .. 255)
      /\ s1 .. s1 + Len(x) \subseteq Held(s1, x, s2, y)
      /\ s2 .. s2 + Len(y) \subseteq Held(s1, x, s2, y)
      /\ WORD \in Nat \ {0}
  BY StringFacts, BytesAssumption
<1>1. /\ strcmp(m, s1, s2).ret = m[end] - m[Other(end)]
      /\ strcmp(m, s1, s2).reads = (s1 .. last) \cup (s2 .. Other(far))
  BY DEF strcmp, Gives
<1>4. S \in SUBSET (0 .. M - 1)
  BY StopFirst
<1>02. PICK e \in Nat : StopsAt(m, s1, x, s2, y, e)
  BY StopFirst
<1>2. /\ Stop(x, y, e) /\ First(s1, S) = s1 + e
      /\ m[s1 + e] = X[e + 1] /\ m[s2 + e] = Y[e + 1]
  BY <1>02 DEF StopsAt
<1>3. e <= Len(x) /\ e <= Len(y)
  BY <1>2 DEF Stop
<1>5. ZeroWords(m) \cup words = WordsWith(S)
  <2>1. ZeroWords(m) = WordsWith(Zeros(m))
    BY <1>0, ZeroWordsAre
  <2>2. words = WordsWith(D)
    BY DEF WordsWith
  <2>3. WordsWith(S) = WordsWith(Zeros(m)) \cup WordsWith(D)
    <3> HIDE DEF D
    <3>1. QED BY DEF WordsWith
  <2> HIDE DEF words, S
  <2>4. QED BY <2>1, <2>2, <2>3
<1>6. PICK E : E = s1 + e
  OBVIOUS
<1>7. /\ head \in s1 .. E
      /\ head % WORD # 0 => head = E
      /\ head % WORD = 0 => word = WordStart(E) /\ word \in s1 .. E /\ First(word, S) = E
  <2>1. word = FirstWord(head, WordsWith(S))
    BY <1>5
  <2>2. head = First(s1, Aligned \cup S)
    OBVIOUS
  <2>3. s1 \in 0 .. M - 1 /\ First(s1, S) = E /\ First(s1, S) # M
    BY <1>0, <1>2, <1>3, <1>6
  <2>4. S \in SUBSET (0 .. M - 1)
    BY <1>4
  <2> HIDE DEF head, word, S
  <2>5. /\ head \in s1 .. First(s1, S)
        /\ head % WORD # 0 => head = First(s1, S)
        /\ head % WORD = 0 => /\ word = WordStart(First(s1, S))
                              /\ word \in s1 .. First(s1, S)
                              /\ First(word, S) = First(s1, S)
    BY <2>1, <2>2, <2>3, <2>4, WordWalk
  <2>6. QED BY <2>3, <2>5
<1>8. end = E /\ (head % WORD # 0 => last = E) /\ (head % WORD = 0 => last = WordStart(E) + WORD - 1)
  <2> HIDE DEF head, word, S
  <2>1. QED BY <1>7
<1>9. far = end \/ far = last
  OBVIOUS
<1> HIDE DEF X, Y, D, S, words, head, word, end, last, far
<1>10. strcmp(m, s1, s2).ret = X[e + 1] - Y[e + 1]
  <2>1. Other(E) = s2 + e
    BY <1>0, <1>6
  <2>2. QED BY <1>1, <1>2, <1>6, <1>8, <2>1
<1>11. strcmp(m, s1, s2).ret = Difference(X, Y)
  <2>1. X \in Seq(Nat) /\ Y \in Seq(Nat)
    <3>1. Holds(m, s1, X) /\ Holds(m, s2, Y)
      BY HoldsWithNul DEF Strings2, X, Y
    <3>2. QED BY <3>1 DEF Holds
  <2>2. CASE Part(X, Y, e)
    BY <1>10, <2>1, <2>2, DifferenceIs
  <2>3. CASE Same(X, Y) /\ X[e + 1] = 0 /\ Y[e + 1] = 0
    BY <1>10, <2>1, <2>3, DifferenceIs
  <2>4. QED BY <1>0, <1>2, <2>2, <2>3, StopParts DEF X, Y
<1>12. s1 .. last \subseteq Held(s1, x, s2, y)
  <2>1. CASE head % WORD # 0
    <3>1. s1 .. E \subseteq s1 .. s1 + Len(x)
      BY <1>0, <1>3, <1>6
    <3>2. QED BY <1>0, <1>8, <2>1, <3>1
  <2>2. CASE head % WORD = 0
    <3>1. E \in s1 .. s1 + Len(x)
      BY <1>0, <1>3, <1>6
    <3>2. s1 .. WordStart(E) + WORD - 1 \subseteq WordsOf(s1, Len(x))
      BY <1>0, <3>1, WordReads
    <3>3. QED BY <1>8, <2>2, <3>2 DEF Held
  <2>3. QED BY <2>1, <2>2
<1>13. s2 .. Other(far) \subseteq s2 .. s2 + Len(y) + WORD - 1
  <2>1. E \in 0 .. M - 1 /\ last \in Int /\ last <= E + WORD - 1 /\ end = E
    <3>1. E \in 0 .. M - 1
      BY <1>0, <1>3, <1>6
    <3>2. WordStart(E) \in Nat /\ WordStart(E) <= E
      BY <3>1, WordFacts
    <3>3. QED BY <1>0, <1>8, <3>1, <3>2
  <2>2. far \in Int /\ far <= E + WORD - 1
    BY <1>0, <1>9, <2>1
  <2>3. Other(far) <= s2 + Len(y) + WORD - 1 /\ Other(far) \in Int
    BY <1>0, <1>3, <1>6, <2>2
  <2>4. QED BY <1>0, <2>3
<1>14. QED BY <1>1, <1>11, <1>12, <1>13 DEF X, Y

\* strncmp does so for the first n bytes, and stays in the words of the strings.
LEMMA StrncmpRight ==
  ASSUME NEW m, NEW s1, NEW x, NEW s2, NEW y, Strings2(m, s1, x, s2, y), NEW n \in Nat
  PROVE  /\ strncmp(m, s1, s2, n).ret = Difference(Prefix(x \o <<0>>, n), Prefix(y \o <<0>>, n))
         /\ strncmp(m, s1, s2, n).reads \subseteq Held(s1, x, s2, y)
<1> DEFINE X == x \o <<0>>
           Y == y \o <<0>>
<1>0. /\ s1 \in Nat /\ s2 \in Nat /\ Len(x) \in Nat /\ Len(y) \in Nat
      /\ x \in Seq(1 .. 255) /\ y \in Seq(1 .. 255)
      /\ s1 .. s1 + Len(x) \subseteq Held(s1, x, s2, y)
      /\ s2 .. s2 + Len(y) \subseteq Held(s1, x, s2, y)
  BY StringFacts
<1>01. PICK e \in Nat : StopsAt(m, s1, x, s2, y, e)
  BY StopFirst
<1>1. /\ Stop(x, y, e) /\ First(s1, Zeros(m) \cup Differing(m, s1, s2)) = s1 + e
      /\ m[s1 + e] = X[e + 1] /\ m[s2 + e] = Y[e + 1]
  BY <1>01 DEF StopsAt
<1>2. e <= Len(x) /\ e <= Len(y)
  BY <1>1 DEF Stop
<1>4. Min({s1 + e, s1 + n}) = IF s1 + e <= s1 + n THEN s1 + e ELSE s1 + n
  BY <1>0, MinPair
<1>5. X \in Seq(Nat) /\ Y \in Seq(Nat)
  <2>1. Holds(m, s1, X) /\ Holds(m, s2, Y)
    BY HoldsWithNul DEF Strings2
  <2>2. QED BY <2>1 DEF Holds
<1>6. Part(X, Y, e) \/ (Same(X, Y) /\ X[e + 1] = 0 /\ Y[e + 1] = 0)
  BY <1>0, <1>1, StopParts
<1> DEFINE P == Prefix(X, n)
           Q == Prefix(Y, n)
<1> HIDE DEF X, Y
<1>7. /\ P \in Seq(Nat) /\ Q \in Seq(Nat)
      /\ Same(X, Y) => Same(P, Q)
      /\ Part(X, Y, e) => IF e < n THEN Part(P, Q, e) /\ P[e + 1] = X[e + 1] /\ Q[e + 1] = Y[e + 1]
                                   ELSE Same(P, Q)
  BY <1>5, PrefixParts
<1> HIDE DEF P, Q
<1>8. /\ Same(P, Q) => Difference(P, Q) = 0
      /\ Part(P, Q, e) => Difference(P, Q) = P[e + 1] - Q[e + 1]
  BY <1>7, DifferenceIs
<1>9. CASE n <= e
  <2>1. Min({s1 + e, s1 + n}) = s1 + n
    BY <1>0, <1>4, <1>9
  <2>2. strncmp(m, s1, s2, n) = Gives(m, 0, (s1 .. (s1 + n) - 1) \cup (s2 .. s2 + n - 1))
    BY <1>1, <2>1 DEF strncmp
  <2>3. Difference(P, Q) = 0
    BY <1>6, <1>7, <1>8, <1>9
  <2>4. (s1 .. (s1 + n) - 1) \subseteq s1 .. s1 + Len(x) /\ (s2 .. s2 + n - 1) \subseteq s2 .. s2 + Len(y)
    BY <1>0, <1>2, <1>9
  <2>5. strncmp(m, s1, s2, n).ret = Difference(P, Q)
    BY <2>2, <2>3 DEF Gives
  <2>6. strncmp(m, s1, s2, n).reads \subseteq Held(s1, x, s2, y)
    BY <1>0, <2>2, <2>4 DEF Gives
  <2>7. QED BY <2>5, <2>6 DEF P, Q, X, Y
<1>10. CASE ~(n <= e)
  <2>1. Min({s1 + e, s1 + n}) = s1 + e /\ s1 + e # s1 + n /\ s2 + ((s1 + e) - s1) = s2 + e
    BY <1>0, <1>4, <1>10
  <2>2. strncmp(m, s1, s2, n) =
          Gives(m, m[s1 + e] - m[s2 + e], (s1 .. s1 + e) \cup (s2 .. s2 + e))
    BY <1>1, <2>1 DEF strncmp
  <2>3. e < n
    BY <1>10
  <2>4. Difference(P, Q) = X[e + 1] - Y[e + 1]
    BY <1>6, <1>7, <1>8, <2>3
  <2>5. (s1 .. s1 + e) \subseteq s1 .. s1 + Len(x) /\ (s2 .. s2 + e) \subseteq s2 .. s2 + Len(y)
    BY <1>0, <1>2
  <2>6. strncmp(m, s1, s2, n).ret = Difference(P, Q)
    BY <1>1, <2>2, <2>4 DEF Gives
  <2>7. strncmp(m, s1, s2, n).reads \subseteq Held(s1, x, s2, y)
    BY <1>0, <2>2, <2>5 DEF Gives
  <2>8. QED BY <2>6, <2>7 DEF P, Q, X, Y
<1>11. QED BY <1>9, <1>10


\* Folding the case leaves no NUL.
LEMMA FoldIs ==
  ASSUME NEW c \in 0 .. 255
  PROVE  fold(c) \in Nat /\ fold(c) # 0
<1>1. CASE c = 0
  <2>1. 0 \div 32 = 0 /\ 0 % 2 = 0
    OBVIOUS
  <2>2. fold(c) = 0 + 32
    BY <1>1, <2>1 DEF fold
  <2>3. QED BY <2>2
<1>2. CASE c # 0
  <2>1. fold(c) = c \/ fold(c) = c + 32
    BY DEF fold
  <2>2. QED BY <1>2, <2>1
<1>3. QED BY <1>1, <1>2

\* The folded memory and the folded strings.
FoldedMem(m) == [p \in DOMAIN m |-> fold(m[p])]

\* The folded memory holds the folded string.
LEMMA HoldsFolded ==
  ASSUME NEW m \in Memory, NEW p, NEW x, IsString(m, p, x)
  PROVE  /\ Holds(FoldedMem(m), p, Folded(x \o <<0>>))
         /\ Folded(x \o <<0>>) \in Seq(Nat) /\ Len(Folded(x \o <<0>>)) = Len(x) + 1
         /\ \A i \in Nat : i <= Len(x) => fold(m[p + i]) = Folded(x \o <<0>>)[i + 1]
<1> DEFINE X == x \o <<0>>
           F == Folded(X)
<1>0. M \in Nat /\ DOMAIN m = 0 .. M - 1 /\ \A a \in 0 .. M - 1 : m[a] \in 0 .. 255
  BY BytesAssumption DEF M, Memory
<1>1. /\ m \in [0 .. M - 1 -> Nat] /\ p \in Nat /\ X \in Seq(Nat) /\ p + Len(X) <= M
      /\ \A i \in 0 .. Len(X) - 1 : m[p + i] = X[i + 1]
  BY HoldsWithNul DEF Holds
<1>2. Len(x) \in Nat /\ Len(X) = Len(x) + 1 /\ X \in Seq(0 .. 255)
  <2>1. x \in Seq(1 .. 255)
    BY DEF IsString
  <2>2. QED BY <2>1, WithNul
<1> HIDE DEF X
<1>3. \A k \in 1 .. Len(X) : X[k] \in 0 .. 255
  BY <1>2, ElementOfSeq
<1>4. DOMAIN X = 1 .. Len(X)
  BY <1>2
<1>5. \A k \in 1 .. Len(X) : F[k] = fold(X[k]) /\ F[k] \in Nat
  BY <1>3, <1>4, FoldIs DEF Folded
<1>6. F \in Seq(Nat) /\ Len(F) = Len(X)
  <2>1. F = [k \in 1 .. Len(X) |-> fold(X[k])]
    BY <1>4 DEF Folded
  <2>2. QED BY <1>2, <1>5, <2>1
<1>7. FoldedMem(m) \in [0 .. M - 1 -> Nat] /\ \A a \in 0 .. M - 1 : FoldedMem(m)[a] = fold(m[a])
  <2>1. \A a \in 0 .. M - 1 : fold(m[a]) \in Nat
    BY <1>0, FoldIs
  <2>2. FoldedMem(m) = [a \in 0 .. M - 1 |-> fold(m[a])]
    BY <1>0 DEF FoldedMem
  <2>3. QED BY <2>1, <2>2
<1> HIDE DEF F
<1>8. ASSUME NEW i \in 0 .. Len(X) - 1
      PROVE  FoldedMem(m)[p + i] = F[i + 1] /\ fold(m[p + i]) = F[i + 1]
  <2>1. i + 1 \in 1 .. Len(X) /\ p + i \in 0 .. M - 1
    BY <1>0, <1>1, <1>2
  <2>2. m[p + i] = X[i + 1]
    BY <1>1
  <2>3. QED BY <1>5, <1>7, <2>1, <2>2
<1>9. Holds(FoldedMem(m), p, F)
  BY <1>1, <1>6, <1>7, <1>8 DEF Holds
<1>10. ASSUME NEW i \in Nat, i <= Len(x) PROVE fold(m[p + i]) = F[i + 1]
  <2>1. i \in 0 .. Len(X) - 1
    BY <1>2, <1>10
  <2>2. QED BY <1>8, <2>1
<1>11. QED BY <1>2, <1>6, <1>9, <1>10 DEF F, X

\* Where the walks of strcasecmp and strncasecmp come to: where the folded strings
\* part, or behind the end of the shorter one.
FoldEnd(m, s1, x, s2, y) ==
  /\ fold_differs(m, s1, s2) \in Nat
  /\ \A e \in Nat : Part(Folded(x \o <<0>>), Folded(y \o <<0>>), e) => fold_differs(m, s1, s2) = s1 + e
  /\ Same(Folded(x \o <<0>>), Folded(y \o <<0>>)) =>
       \A i \in Nat : i <= Len(x) /\ i <= Len(y) => s1 + i < fold_differs(m, s1, s2)

\* The walk over folded bytes comes to the place where the folded strings part; if
\* they do not, it passes every place that both have.
LEMMA FoldFirst ==
  ASSUME NEW m, NEW s1, NEW x, NEW s2, NEW y, Strings2(m, s1, x, s2, y)
  PROVE  FoldEnd(m, s1, x, s2, y)
<1> DEFINE f == FoldedMem(m)
           F == Folded(x \o <<0>>)
           G == Folded(y \o <<0>>)
           D == Differing(f, s1, s2)
<1>0. /\ m \in Memory /\ M \in Nat /\ s1 \in Nat /\ s2 \in Nat /\ Len(x) \in Nat /\ Len(y) \in Nat
      /\ s1 + Len(x) < M /\ s2 + Len(y) < M
      /\ IsString(m, s1, x) /\ IsString(m, s2, y)
  BY StringFacts
<1>1. Holds(f, s1, F) /\ Len(F) = Len(x) + 1
  BY <1>0, HoldsFolded
<1>2. Holds(f, s2, G) /\ Len(G) = Len(y) + 1
  BY <1>0, HoldsFolded
<1>3. Zeros(f) = {}
  <2>1. ASSUME NEW a \in 0 .. M - 1 PROVE f[a] # 0
    <3>1. m[a] \in 0 .. 255 /\ f[a] = fold(m[a])
      BY <1>0 DEF Memory, FoldedMem
    <3>2. QED BY <3>1, FoldIs
  <2>2. DOMAIN f = 0 .. M - 1
    BY <1>0 DEF FoldedMem, Memory
  <2> HIDE DEF f
  <2>3. QED BY <2>1, <2>2 DEF Zeros, Holding
<1>4. fold_differs(m, s1, s2) = First(s1, D)
  <2>1. fold_differs(m, s1, s2) = First(s1, Zeros(f) \cup Differing(f, s1, s2))
    BY DEF fold_differs, FoldedMem
  <2> HIDE DEF f
  <2>2. Zeros(f) \cup Differing(f, s1, s2) = Differing(f, s1, s2)
    BY <1>3
  <2>3. QED BY <2>1, <2>2
<1> HIDE DEF f, F, G
<1>5. /\ D \in SUBSET (0 .. M - 1)
      /\ \A i \in Nat : i < Len(F) /\ i < Len(G) => (s1 + i \in D <=> F[i + 1] # G[i + 1])
  BY <1>1, <1>2, DifferingIs
<1> HIDE DEF D
<1>6. s1 \in 0 .. M
  BY <1>0
<1>7. /\ First(s1, D) \in s1 .. M /\ (First(s1, D) \in D \/ First(s1, D) = M)
      /\ \A q \in D : q >= s1 => First(s1, D) <= q
  BY <1>5, <1>6, FirstOf
<1>8. ASSUME NEW e \in Nat, Part(F, G, e) PROVE First(s1, D) = s1 + e
  <2>1. /\ e < Len(F) /\ e < Len(G) /\ F[e + 1] # G[e + 1]
        /\ \A k \in 1 .. e : F[k] = G[k]
    BY <1>8 DEF Part
  <2>2. PICK E : E = s1 + e
    OBVIOUS
  <2>3. E \in D /\ s1 <= E
    BY <1>0, <1>5, <2>1, <2>2
  <2>4. ASSUME NEW q \in D, q >= s1 PROVE E <= q
    <3>1. PICK i : i = q - s1
      OBVIOUS
    <3>2. q \in Nat /\ i \in Nat /\ q = s1 + i
      BY <1>0, <1>5, <2>4, <3>1
    <3>3. ASSUME i < e PROVE FALSE
      <4>1. i + 1 \in 1 .. e /\ i < Len(F) /\ i < Len(G)
        BY <1>0, <1>1, <1>2, <2>1, <3>2, <3>3
      <4>2. F[i + 1] = G[i + 1]
        BY <2>1, <4>1
      <4>3. QED BY <1>5, <2>4, <3>2, <4>1, <4>2
    <3>4. QED BY <1>0, <2>2, <3>2, <3>3
  <2>5. First(s1, D) = E
    BY <1>5, <1>6, <2>3, <2>4, FirstIs
  <2>6. QED BY <2>2, <2>5
<1>9. ASSUME Same(F, G), NEW i \in Nat, i <= Len(x), i <= Len(y) PROVE s1 + i < First(s1, D)
  <2>1. CASE First(s1, D) = M
    BY <1>0, <1>9, <2>1
  <2>2. CASE First(s1, D) \in D
    <3>1. PICK j : j = First(s1, D) - s1
      OBVIOUS
    <3>2. j \in Nat /\ First(s1, D) = s1 + j
      BY <1>0, <1>7, <3>1
    <3>3. ASSUME j <= i PROVE FALSE
      <4>1. j < Len(F) /\ j < Len(G) /\ j + 1 \in 1 .. Len(F) /\ j + 1 <= Len(G)
        BY <1>0, <1>1, <1>2, <1>9, <3>2, <3>3
      <4>2. F[j + 1] = G[j + 1]
        BY <1>9, <4>1 DEF Same
      <4>3. QED BY <1>5, <2>2, <3>2, <4>1, <4>2
    <3>4. QED BY <1>0, <3>2, <3>3
  <2>3. QED BY <1>7, <2>1, <2>2
<1>10. First(s1, D) \in Nat
  BY <1>0, <1>7
<1>11. QED BY <1>4, <1>8, <1>9, <1>10 DEF FoldEnd, F, G

\* strcasecmp gives the difference where the folded strings part, and stays inside
\* the strings exactly when they do.
LEMMA StrcasecmpRight ==
  ASSUME NEW m, NEW s1, NEW x, NEW s2, NEW y, Strings2(m, s1, x, s2, y), Apart(s1, x, s2, y),
         NEW F, F = Folded(x \o << 0 >>), NEW G, G = Folded(y \o << 0 >>)
  PROVE  /\ ~SameFolded(F, G) => strcasecmp(m, s1, s2).ret = Difference(F, G)
         /\ strcasecmp(m, s1, s2).reads \subseteq (s1 .. s1 + Len(x)) \cup (s2 .. s2 + Len(y))
              <=> ~SameFolded(F, G)
<1> DEFINE end == fold_differs(m, s1, s2)
<1>0. /\ m \in Memory /\ M \in Nat /\ s1 \in Nat /\ s2 \in Nat /\ Len(x) \in Nat /\ Len(y) \in Nat
      /\ s1 + Len(x) < M /\ s2 + Len(y) < M
      /\ IsString(m, s1, x) /\ IsString(m, s2, y)
  BY StringFacts
<1>1. /\ end \in Nat
      /\ \A e \in Nat : Part(F, G, e) => end = s1 + e
      /\ Same(F, G) => \A i \in Nat : i <= Len(x) /\ i <= Len(y) => s1 + i < end
  BY FoldFirst DEF FoldEnd
<1>2. F \in Seq(Nat) /\ Len(F) = Len(x) + 1 /\ \A i \in Nat : i <= Len(x) => fold(m[s1 + i]) = F[i + 1]
  BY <1>0, HoldsFolded, SMTT(30)
<1>3. G \in Seq(Nat) /\ Len(G) = Len(y) + 1 /\ \A i \in Nat : i <= Len(y) => fold(m[s2 + i]) = G[i + 1]
  BY <1>0, HoldsFolded, SMTT(30)
<1>4. /\ Same(F, G) => Difference(F, G) = 0
      /\ \A e \in Nat : Part(F, G, e) =>
           Difference(F, G) = F[e + 1] - G[e + 1] /\ Difference(F, G) # 0
  BY <1>2, <1>3, DifferenceIs
<1>5. strcasecmp(m, s1, s2).reads = (s1 .. end) \cup (s2 .. s2 + (end - s1))
  <2>1. CASE s2 + (end - s1) = M
    BY <2>1 DEF strcasecmp, Gives
  <2>2. CASE s2 + (end - s1) # M
    BY <2>2 DEF strcasecmp, Gives
  <2>3. QED BY <2>1, <2>2
<1>6. s2 + (end - s1) # M =>
        strcasecmp(m, s1, s2).ret = fold(m[end]) - fold(m[s2 + (end - s1)])
  BY DEF strcasecmp, Gives
<1> HIDE DEF end
<1> USE DEF SameFolded
<1>7. CASE Same(F, G)
  <2>1. SameFolded(F, G)
    BY <1>4, <1>7
  <2>2. s1 + Len(x) < s2 /\ (Len(x) < Len(y) => s1 + Len(x) + 1 < s2)
    BY DEF Apart
  <2>3. CASE Len(x) < Len(y)
    <3>1. s1 + Len(x) < end
      BY <1>0, <1>1, <1>7, <2>3
    <3>2. s1 + Len(x) + 1 \in s1 .. end
      BY <1>0, <1>1, <3>1
    <3>3. ~(s1 + Len(x) + 1 \in s1 .. s1 + Len(x)) /\ ~(s1 + Len(x) + 1 \in s2 .. s2 + Len(y))
      BY <1>0, <2>2, <2>3
    <3>4. QED BY <1>5, <2>1, <3>2, <3>3
  <2>4. CASE ~(Len(x) < Len(y))
    <3>1. s1 + Len(y) < end
      BY <1>0, <1>1, <1>7, <2>4
    <3>2. s2 + Len(y) + 1 \in s2 .. s2 + (end - s1)
      BY <1>0, <1>1, <3>1
    <3>3. ~(s2 + Len(y) + 1 \in s1 .. s1 + Len(x)) /\ ~(s2 + Len(y) + 1 \in s2 .. s2 + Len(y))
      BY <1>0, <2>2
    <3>4. QED BY <1>5, <2>1, <3>2, <3>3
  <2>5. QED BY <2>3, <2>4
<1>8. CASE ~Same(F, G)
  <2>1. PICK e \in Nat : Part(F, G, e)
    BY <1>2, <1>3, <1>8, SameOrPart
  <2>2. e <= Len(x) /\ e <= Len(y)
    BY <1>0, <1>2, <1>3, <2>1, SMTT(30) DEF Part
  <2>3. end = s1 + e /\ s2 + (end - s1) = s2 + e /\ s2 + e # M
    BY <1>0, <1>1, <2>1, <2>2
  <2>4. strcasecmp(m, s1, s2).ret = F[e + 1] - G[e + 1]
    BY <1>2, <1>3, <1>6, <2>2, <2>3
  <2>5. ~SameFolded(F, G) /\ strcasecmp(m, s1, s2).ret = Difference(F, G)
    BY <1>4, <2>1, <2>4
  <2>6. (s1 .. s1 + e) \subseteq s1 .. s1 + Len(x) /\ (s2 .. s2 + e) \subseteq s2 .. s2 + Len(y)
    BY <1>0, <2>2
  <2>7. QED BY <1>5, <2>3, <2>5, <2>6
<1>9. QED BY <1>7, <1>8

\* What strncasecmp answers.
StrncasecmpGives(m, s1, x, s2, y) ==
  \A n \in Nat :
    n <= Min({Len(x \o <<0>>), Len(y \o <<0>>)})
      \/ ~SameFolded(Folded(x \o <<0>>), Folded(y \o <<0>>)) =>
    strncasecmp(m, s1, s2, n).ret
      = Difference(Prefix(Folded(x \o <<0>>), n), Prefix(Folded(y \o <<0>>), n))

\* strncasecmp gives the difference of the first n folded bytes.
LEMMA StrncasecmpRight ==
  ASSUME NEW m, NEW s1, NEW x, NEW s2, NEW y, Strings2(m, s1, x, s2, y)
  PROVE  StrncasecmpGives(m, s1, x, s2, y)
<1> USE DEF StrncasecmpGives
<1> TAKE n \in Nat
<1>01. PICK F : F = Folded(x \o <<0>>)
  OBVIOUS
<1>02. PICK G : G = Folded(y \o <<0>>)
  OBVIOUS
<1>00. SUFFICES ASSUME n <= Min({Len(x \o << 0 >>), Len(y \o << 0 >>)}) \/ ~SameFolded(F, G)
                PROVE  strncasecmp(m, s1, s2, n).ret = Difference(Prefix(F, n), Prefix(G, n))
  BY <1>01, <1>02
<1> DEFINE fd == fold_differs(m, s1, s2)
<1>0. /\ m \in Memory /\ M \in Nat /\ s1 \in Nat /\ s2 \in Nat /\ Len(x) \in Nat /\ Len(y) \in Nat
      /\ IsString(m, s1, x) /\ IsString(m, s2, y) /\ x \in Seq(1 .. 255) /\ y \in Seq(1 .. 255)
  BY StringFacts
<1>1. /\ fd \in Nat
      /\ \A e \in Nat : Part(F, G, e) => fd = s1 + e
      /\ Same(F, G) => \A i \in Nat : i <= Len(x) /\ i <= Len(y) => s1 + i < fd
  BY <1>01, <1>02, FoldFirst DEF FoldEnd
<1>2. F \in Seq(Nat) /\ Len(F) = Len(x) + 1 /\ \A i \in Nat : i <= Len(x) => fold(m[s1 + i]) = F[i + 1]
  BY <1>0, <1>01, HoldsFolded, SMTT(30)
<1>3. G \in Seq(Nat) /\ Len(G) = Len(y) + 1 /\ \A i \in Nat : i <= Len(y) => fold(m[s2 + i]) = G[i + 1]
  BY <1>0, <1>02, HoldsFolded, SMTT(30)
<1>4. Same(F, G) => Difference(F, G) = 0
  BY <1>2, <1>3, DifferenceIs, SMTT(30)
<1> DEFINE P == Prefix(F, n)
           Q == Prefix(G, n)
<1>5. /\ P \in Seq(Nat) /\ Q \in Seq(Nat)
      /\ Same(F, G) => Same(P, Q)
      /\ \A e \in Nat : Part(F, G, e) =>
           IF e < n THEN Part(P, Q, e) /\ P[e + 1] = F[e + 1] /\ Q[e + 1] = G[e + 1]
                    ELSE Same(P, Q)
  BY <1>2, <1>3, PrefixParts
<1>05. n = 0 => Same(P, Q)
  <2>1. Len(P) = IF n <= Len(F) THEN n ELSE Len(F)
    BY <1>2, PrefixIs
  <2> HIDE DEF P, Q
  <2>2. n = 0 => Len(P) = 0
    BY <1>0, <1>2, <2>1
  <2>3. QED BY <2>2 DEF Same
<1> HIDE DEF P, Q
<1>6. /\ Same(P, Q) => Difference(P, Q) = 0
      /\ \A e \in Nat : Part(P, Q, e) => Difference(P, Q) = P[e + 1] - Q[e + 1]
  BY <1>5, DifferenceIs
<1>7. CASE n = 0
  <2>1. strncasecmp(m, s1, s2, n).ret = 0
    BY <1>7 DEF strncasecmp, Gives
  <2>2. QED BY <1>05, <1>6, <1>7, <2>1 DEF P, Q
<1>8. CASE n # 0
  <2>0. PICK j \in Nat : n = j + 1
    <3>1. n - 1 \in Nat /\ n = (n - 1) + 1
      BY <1>8
    <3>2. QED BY <3>1
  <2>1. Min({fd, s1 + n - 1}) = IF fd <= s1 + j THEN fd ELSE s1 + j
    <3>1. s1 + n - 1 = s1 + j /\ fd \in Int /\ s1 + j \in Int
      BY <1>0, <1>1, <2>0
    <3> HIDE DEF fd
    <3>2. QED BY <3>1, MinPair, Zenon
  <2>2. PICK end : end = Min({fd, s1 + n - 1})
    OBVIOUS
  <2>3. strncasecmp(m, s1, s2, n).ret = fold(m[end]) - fold(m[s2 + (end - s1)])
    BY <1>8, <2>2 DEF strncasecmp, Gives
  <2> HIDE DEF fd
  <2>4. ASSUME NEW e \in Nat, end = s1 + e, e <= Len(x), e <= Len(y)
        PROVE  strncasecmp(m, s1, s2, n).ret = F[e + 1] - G[e + 1]
    <3>1. s2 + (end - s1) = s2 + e
      BY <1>0, <2>4
    <3>2. QED BY <1>2, <1>3, <2>3, <2>4, <3>1
  <2>5. ASSUME j <= Len(x), j <= Len(y), F[j + 1] = G[j + 1], end = s1 + j, Same(P, Q)
        PROVE  strncasecmp(m, s1, s2, n).ret = Difference(P, Q)
    <3>1. F[j + 1] \in Nat
      BY <1>0, <1>2, <2>5, ElementOfSeq
    <3>2. strncasecmp(m, s1, s2, n).ret = 0
      BY <2>4, <2>5, <3>1
    <3>3. QED BY <1>6, <2>5, <3>2
  <2>6. CASE Same(F, G)
    <3>1. Len(x \o <<0>>) = Len(x) + 1 /\ Len(y \o <<0>>) = Len(y) + 1
      BY <1>0, WithNul
    <3>2. n <= Min({Len(x) + 1, Len(y) + 1})
      BY <1>00, <1>4, <2>6, <3>1 DEF SameFolded
    <3>3. Min({Len(x) + 1, Len(y) + 1}) = IF Len(x) + 1 <= Len(y) + 1 THEN Len(x) + 1 ELSE Len(y) + 1
      BY <1>0, MinPair
    <3>4. j <= Len(x) /\ j <= Len(y)
      BY <1>0, <2>0, <3>2, <3>3
    <3>5. s1 + j < fd
      BY <1>1, <2>6, <3>4 DEF fd
    <3>6. end = s1 + j
      BY <1>0, <1>1, <2>1, <2>2, <3>5
    <3>7. F[j + 1] = G[j + 1]
      <4>1. j + 1 \in 1 .. Len(F) /\ j + 1 <= Len(G)
        BY <1>0, <1>2, <1>3, <3>4
      <4>2. QED BY <2>6, <4>1 DEF Same
    <3>8. strncasecmp(m, s1, s2, n).ret = Difference(P, Q)
      BY <1>5, <2>5, <2>6, <3>4, <3>6, <3>7
    <3>9. QED BY <3>8 DEF P, Q
  <2>7. CASE ~Same(F, G)
    <3>1. PICK e \in Nat : Part(F, G, e)
      BY <1>2, <1>3, <2>7, SameOrPart
    <3>02. e < Len(F) /\ e < Len(G) /\ \A k \in 1 .. e : F[k] = G[k]
      BY <3>1 DEF Part
    <3>2. e <= Len(x) /\ e <= Len(y) /\ \A k \in 1 .. e : F[k] = G[k]
      BY <1>0, <1>2, <1>3, <3>02
    <3>3. fd = s1 + e
      BY <1>1, <3>1 DEF fd
    <3>4. CASE e < n
      <4>1. end = s1 + e
        BY <1>0, <2>0, <2>1, <2>2, <3>3, <3>4
      <4>2. strncasecmp(m, s1, s2, n).ret = F[e + 1] - G[e + 1]
        BY <2>4, <3>2, <4>1
      <4>3. Difference(P, Q) = F[e + 1] - G[e + 1]
        BY <1>5, <1>6, <3>1, <3>4
      <4>4. QED BY <4>2, <4>3 DEF P, Q
    <3>5. CASE ~(e < n)
      <4>1. j < e /\ end = s1 + j
        BY <1>0, <2>0, <2>1, <2>2, <3>3, <3>5
      <4>2. j <= Len(x) /\ j <= Len(y) /\ j + 1 \in 1 .. e
        BY <1>0, <3>2, <4>1
      <4>3. F[j + 1] = G[j + 1]
        BY <3>2, <4>2
      <4>4. Same(P, Q)
        BY <1>5, <3>1, <3>5
      <4>5. strncasecmp(m, s1, s2, n).ret = Difference(P, Q)
        BY <2>5, <4>1, <4>2, <4>3, <4>4
      <4>6. QED BY <4>5 DEF P, Q
    <3>6. QED BY <3>4, <3>5
  <2>8. QED BY <2>6, <2>7
<1>9. QED BY <1>7, <1>8



-----------------------------------------------------------------------------
(* Searching in strings.                                                   *)

\* s stands in t behind its first k elements.
Found(t, s, k) ==
  k \in Nat /\ k + Len(s) <= Len(t) /\ \A i \in 0 .. Len(s) - 1 : t[k + i + 1] = s[i + 1]

\* Found in terms of SubSeq, as Place looks for it.
LEMMA FoundIs ==
  ASSUME NEW S, NEW t \in Seq(S), NEW s \in Seq(S), NEW k \in 0 .. Len(t) - Len(s)
  PROVE  SubSeq(t, k + 1, k + Len(s)) = s <=> Found(t, s, k)
<1>0. Len(t) \in Nat /\ Len(s) \in Nat /\ k \in Nat /\ k + Len(s) <= Len(t)
  OBVIOUS
<1>1. PICK a : a = k + 1
  OBVIOUS
<1>2. PICK b : b = k + Len(s)
  OBVIOUS
<1>3. a \in Int /\ b \in Int /\ a = k + 1 /\ b = k + Len(s)
  BY <1>0, <1>1, <1>2
<1>4. \A i \in a .. b : t[i] \in S
  <2> SUFFICES ASSUME NEW i \in a .. b PROVE t[i] \in S
    OBVIOUS
  <2>1. i \in 1 .. Len(t)
    BY <1>0, <1>3
  <2>2. QED BY <2>1, ElementOfSeq
<1> DEFINE u == SubSeq(t, a, b)
<1>5. /\ u \in Seq(S) /\ Len(u) = IF a <= b THEN b - a + 1 ELSE 0
      /\ \A i \in 1 .. b - a + 1 : u[i] = t[a + i - 1]
  BY <1>3, <1>4, SubSeqProperties
<1> HIDE DEF u
<1>6. Len(u) = Len(s)
  BY <1>0, <1>3, <1>5
<1>7. ASSUME NEW i \in 0 .. Len(s) - 1 PROVE u[i + 1] = t[k + i + 1]
  <2>1. i + 1 \in 1 .. b - a + 1 /\ a + (i + 1) - 1 = k + i + 1
    BY <1>0, <1>3
  <2>2. QED BY <1>5, <2>1
<1>8. ASSUME u = s PROVE Found(t, s, k)
  BY <1>0, <1>7, <1>8 DEF Found
<1>9. ASSUME Found(t, s, k) PROVE u = s
  <2>1. ASSUME NEW j \in 1 .. Len(u) PROVE u[j] = s[j]
    <3>1. PICK i : i = j - 1
      OBVIOUS
    <3>2. i \in 0 .. Len(s) - 1 /\ j = i + 1
      BY <1>0, <1>6, <3>1
    <3>3. t[k + i + 1] = s[i + 1]
      BY <1>9, <3>2 DEF Found
    <3>4. QED BY <1>7, <3>2, <3>3
  <2>2. QED BY <1>5, <1>6, <2>1, SeqEqual
<1>10. u = SubSeq(t, k + 1, k + Len(s))
  BY <1>1, <1>2 DEF u
<1>11. QED BY <1>8, <1>9, <1>10

\* Place is the first place where s is found.
LEMMA PlaceIs ==
  ASSUME NEW S, NEW t \in Seq(S), NEW s \in Seq(S), NEW p \in Nat
  PROVE  /\ (\A k \in Nat : ~Found(t, s, k)) => Place(p, t, s) = -1
         /\ \A k \in Nat : Found(t, s, k) /\ (\A j \in 0 .. k - 1 : ~Found(t, s, j)) =>
              Place(p, t, s) = p + k
<1>0. Len(t) \in Nat /\ Len(s) \in Nat
  OBVIOUS
<1> DEFINE at == {k \in 0 .. Len(t) - Len(s) : SubSeq(t, k + 1, k + Len(s)) = s}
<1>1. Place(p, t, s) = IF at = {} THEN -1 ELSE p + Min(at)
  BY DEF Place
<1>2. ASSUME NEW k PROVE k \in at <=> k \in Nat /\ Found(t, s, k)
  <2>1. ASSUME k \in at PROVE k \in Nat /\ Found(t, s, k)
    <3>1. k \in 0 .. Len(t) - Len(s) /\ SubSeq(t, k + 1, k + Len(s)) = s
      BY <2>1
    <3>2. Found(t, s, k)
      BY <3>1, FoundIs
    <3>3. QED BY <3>2 DEF Found
  <2>2. ASSUME k \in Nat, Found(t, s, k) PROVE k \in at
    <3>1. k \in 0 .. Len(t) - Len(s)
      BY <1>0, <2>2 DEF Found
    <3>2. SubSeq(t, k + 1, k + Len(s)) = s
      BY <2>2, <3>1, FoundIs
    <3>3. QED BY <3>1, <3>2
  <2>3. QED BY <2>1, <2>2
<1> HIDE DEF at
<1>3. ASSUME \A k \in Nat : ~Found(t, s, k) PROVE Place(p, t, s) = -1
  <2>1. at = {}
    BY <1>2, <1>3
  <2>2. QED BY <1>1, <2>1
<1>4. ASSUME NEW k \in Nat, Found(t, s, k), \A j \in 0 .. k - 1 : ~Found(t, s, j)
      PROVE  Place(p, t, s) = p + k
  <2>1. k \in at /\ at \in SUBSET Int
    BY <1>2, <1>4
  <2>2. ASSUME NEW j \in at PROVE k <= j
    <3>1. j \in Nat /\ Found(t, s, j)
      BY <1>2
    <3>2. ~(j \in 0 .. k - 1)
      BY <1>4, <3>1
    <3>3. QED BY <3>1, <3>2
  <2>3. Min(at) = k
    BY <2>1, <2>2, MinIs
  <2>4. QED BY <1>1, <2>1, <2>3
<1>5. QED BY <1>3, <1>4

\* An element is found where it stands.
OnePlace(p, t, c) ==
  /\ (\A k \in 1 .. Len(t) : t[k] # c) => Place(p, t, <<c>>) = -1
  /\ \A e \in Nat : e < Len(t) /\ t[e + 1] = c /\ (\A i \in 0 .. e - 1 : t[i + 1] # c) =>
       Place(p, t, <<c>>) = p + e

\* The same for a single byte.
LEMMA PlaceOne ==
  ASSUME NEW t \in Seq(0 .. 255), NEW c \in 0 .. 255, NEW p \in Nat
  PROVE  OnePlace(p, t, c)
<1>0. Len(t) \in Nat
  OBVIOUS
<1> DEFINE s == <<c>>
<1>1. s \in Seq(0 .. 255) /\ Len(s) = 1 /\ s[1] = c
  OBVIOUS
<1> HIDE DEF s
<1>2. ASSUME NEW k \in Nat PROVE Found(t, s, k) <=> k < Len(t) /\ t[k + 1] = c
  <2>1. \A i : i \in 0 .. Len(s) - 1 <=> i = 0
    BY <1>1
  <2>2. k + 0 + 1 = k + 1 /\ 0 + 1 = 1
    OBVIOUS
  <2>3. (\A i \in 0 .. Len(s) - 1 : t[k + i + 1] = s[i + 1]) <=> t[k + 1] = c
    BY <1>1, <2>1, <2>2
  <2>4. k + Len(s) <= Len(t) <=> k < Len(t)
    BY <1>0, <1>1
  <2>5. QED BY <2>3, <2>4 DEF Found
<1>3. /\ (\A k \in Nat : ~Found(t, s, k)) => Place(p, t, s) = -1
      /\ \A k \in Nat : Found(t, s, k) /\ (\A j \in 0 .. k - 1 : ~Found(t, s, j)) =>
              Place(p, t, s) = p + k
  BY <1>1, PlaceIs
<1>4. ASSUME \A k \in 1 .. Len(t) : t[k] # c PROVE Place(p, t, s) = -1
  <2>1. ASSUME NEW k \in Nat PROVE ~Found(t, s, k)
    <3>1. CASE k < Len(t)
      <4>1. k + 1 \in 1 .. Len(t)
        BY <1>0, <3>1
      <4>2. QED BY <1>2, <1>4, <4>1
    <3>2. CASE ~(k < Len(t))
      BY <1>2, <3>2
    <3>3. QED BY <3>1, <3>2
  <2>2. QED BY <1>3, <2>1
<1>5. ASSUME NEW e \in Nat, e < Len(t), t[e + 1] = c, \A i \in 0 .. e - 1 : t[i + 1] # c
      PROVE  Place(p, t, s) = p + e
  <2>1. Found(t, s, e)
    BY <1>2, <1>5
  <2>2. ASSUME NEW j \in 0 .. e - 1 PROVE ~Found(t, s, j)
    <3>1. j \in Nat /\ t[j + 1] # c
      BY <1>5
    <3>2. QED BY <1>2, <3>1
  <2>3. QED BY <1>3, <2>1, <2>2
<1>6. QED BY <1>4, <1>5 DEF s, OnePlace


\* Where a walk to c or the NUL comes to.
CharAt(m, s, x, c, e) ==
  /\ e <= Len(x) /\ First(s, Holding(m, {0, c})) = s + e /\ m[s + e] = (x \o <<0>>)[e + 1]
  /\ \A i \in 0 .. e - 1 : (x \o <<0>>)[i + 1] # c
  /\ (x \o <<0>>)[e + 1] # c => e = Len(x)

\* The walk to c or the NUL comes to the first of them.
LEMMA CharFirst ==
  ASSUME NEW m \in Memory, NEW s, NEW x, IsString(m, s, x), NEW c \in 0 .. 255
  PROVE  \E e \in Nat : CharAt(m, s, x, c, e)
<1> DEFINE X == x \o <<0>>
           H == Holding(m, {0, c})
<1>0. /\ x \in Seq(1 .. 255) /\ s \in Nat /\ M \in Nat /\ s + Len(x) < M /\ Len(x) \in Nat
      /\ DOMAIN m = 0 .. M - 1
  <2>1. x \in Seq(1 .. 255)
    BY DEF IsString
  <2>2. QED BY <2>1, BytesAssumption DEF IsString, M, Memory
<1>1. /\ Len(X) = Len(x) + 1 /\ X[Len(x) + 1] = 0
      /\ \A i \in 0 .. Len(x) - 1 : X[i + 1] \in 1 .. 255
  BY <1>0, WithNul
<1>2. \A i \in 0 .. Len(X) - 1 : m[s + i] = X[i + 1]
  BY HoldsWithNul DEF Holds
<1>3. /\ H \in SUBSET (0 .. M - 1)
      /\ \A a : a \in H <=> a \in 0 .. M - 1 /\ (m[a] = 0 \/ m[a] = c)
  BY <1>0 DEF Holding
<1> HIDE DEF X, H
<1>4. s \in 0 .. M /\ s + Len(x) \in H /\ s + Len(x) >= s
  <2>1. Len(x) \in 0 .. Len(X) - 1 /\ s + Len(x) \in 0 .. M - 1
    BY <1>0, <1>1
  <2>2. m[s + Len(x)] = 0
    BY <1>1, <1>2, <2>1
  <2>3. QED BY <1>0, <1>3, <2>1, <2>2
<1>5. /\ First(s, H) \in s .. M /\ (First(s, H) \in H \/ First(s, H) = M)
      /\ \A q \in H : q >= s => First(s, H) <= q
  BY <1>3, <1>4, FirstOf
<1>6. PICK e : e = First(s, H) - s
  OBVIOUS
<1>7. e \in Nat /\ First(s, H) = s + e /\ e <= Len(x)
  BY <1>0, <1>4, <1>5, <1>6
<1>8. s + e \in H
  BY <1>0, <1>5, <1>7
<1>9. m[s + e] = X[e + 1]
  <2>1. e \in 0 .. Len(X) - 1
    BY <1>0, <1>1, <1>7
  <2>2. QED BY <1>2, <2>1
<1>10. ASSUME NEW i \in 0 .. e - 1 PROVE X[i + 1] # c
  <2>1. i \in 0 .. Len(X) - 1 /\ s + i \in 0 .. M - 1 /\ s + i >= s /\ s + i < s + e
    BY <1>0, <1>1, <1>7
  <2>2. s + e <= s + i \/ ~(s + i \in H)
    BY <1>5, <1>7, <2>1
  <2>3. ~(s + i \in H)
    BY <1>0, <1>7, <2>1, <2>2
  <2>4. m[s + i] # c
    BY <1>3, <2>1, <2>3
  <2>5. QED BY <1>2, <2>1, <2>4
<1>11. ASSUME X[e + 1] # c PROVE e = Len(x)
  <2>1. X[e + 1] = 0
    BY <1>3, <1>8, <1>9, <1>11
  <2>2. ~(e \in 0 .. Len(x) - 1)
    <3> SUFFICES ASSUME e \in 0 .. Len(x) - 1 PROVE FALSE
      OBVIOUS
    <3>1. X[e + 1] \in 1 .. 255
      BY <1>1
    <3>2. QED BY <2>1, <3>1
  <2>3. QED BY <1>0, <1>7, <2>2
<1>12. CharAt(m, s, x, c, e)
  BY <1>7, <1>9, <1>10, <1>11 DEF CharAt, X, H
<1>13. QED BY <1>7, <1>12

\* A char is signed: bytes from 0x80 on are negative, and no two are the same.
LEMMA SignedIs ==
  ASSUME NEW b \in 0 .. 255, NEW c \in 0 .. 255
  PROVE  /\ signed(b) = signed(c) <=> b = c
         /\ c < 128 => (signed(b) = c <=> b = c)
         /\ c >= 128 => signed(b) # c
  BY DEF signed

\* strchr gives the first place of a byte below 128, and never one from 128 on.
LEMMA StrchrRight ==
  ASSUME NEW m, NEW s1, NEW x, NEW s2, NEW y, Strings2(m, s1, x, s2, y), NEW c \in 0 .. 255
  PROVE  /\ strchr(m, s1, c).ret = IF c >= 128 THEN -1 ELSE Place(s1, x \o <<0>>, <<c>>)
         /\ strchr(m, s1, c).reads \subseteq Held(s1, x, s2, y)
<1> DEFINE X == x \o <<0>>
           H == Holding(m, {b \in 0 .. 255 : b = 0 \/ signed(b) = c})
           end == First(s1, H)
<1>0. /\ m \in Memory /\ M \in Nat /\ s1 \in Nat /\ Len(x) \in Nat /\ s1 + Len(x) < M
      /\ IsString(m, s1, x) /\ x \in Seq(1 .. 255)
      /\ First(s1, Zeros(m)) = s1 + Len(x)
      /\ s1 .. s1 + Len(x) \subseteq Held(s1, x, s2, y)
  BY StringFacts
<1>1. /\ strchr(m, s1, c).ret = IF signed(m[end]) = c THEN end ELSE -1
      /\ strchr(m, s1, c).reads = s1 .. end
  BY DEF strchr, Gives
<1>2. X \in Seq(0 .. 255) /\ Len(X) = Len(x) + 1
  BY <1>0, WithNul
<1>3. CASE c >= 128
  <2>0. \A b \in 0 .. 255 : signed(b) # c
    BY <1>3, SignedIs, Zenon
  <2>1. {b \in 0 .. 255 : b = 0 \/ signed(b) = c} = {0}
    BY <2>0
  <2>2. end = s1 + Len(x)
    BY <1>0, <2>1 DEF Zeros
  <2>3. m[s1 + Len(x)] = 0
    BY <1>0 DEF IsString
  <2> HIDE DEF end
  <2>4. signed(0) # c
    <3>1. 0 \in 0 .. 255
      OBVIOUS
    <3>2. QED BY <2>0, <3>1
  <2>5. QED BY <1>0, <1>1, <1>3, <2>2, <2>3, <2>4, SMTT(30)
<1>4. CASE ~(c >= 128)
  <2>0. c < 128
    BY <1>4
  <2>1. {b \in 0 .. 255 : b = 0 \/ signed(b) = c} = {0, c}
    <3>1. \A b \in 0 .. 255 : signed(b) = c <=> b = c
      BY <2>0, SignedIs, Zenon
    <3>2. QED BY <3>1, SMTT(30)
  <2>2. PICK e \in Nat : CharAt(m, s1, x, c, e)
    BY <1>0, CharFirst
  <2>3. /\ e <= Len(x) /\ First(s1, Holding(m, {0, c})) = s1 + e /\ m[s1 + e] = X[e + 1]
        /\ \A i \in 0 .. e - 1 : X[i + 1] # c
        /\ X[e + 1] # c => e = Len(x)
    BY <2>2 DEF CharAt
  <2>4. end = s1 + e
    BY <2>1, <2>3
  <2> HIDE DEF end, H, X
  <2>5. X[e + 1] \in 0 .. 255 /\ e < Len(X)
    <3>1. e + 1 \in 1 .. Len(X) /\ e < Len(X)
      BY <1>0, <1>2, <2>3
    <3>2. QED BY <1>2, <3>1, ElementOfSeq, Zenon
  <2>6. signed(m[end]) = c <=> X[e + 1] = c
    BY <2>0, <2>3, <2>4, <2>5, SignedIs, Zenon
  <2>7. s1 .. end \subseteq s1 .. s1 + Len(x)
    BY <1>0, <2>3, <2>4
  <2>8. /\ (\A k \in 1 .. Len(X) : X[k] # c) => Place(s1, X, <<c>>) = -1
        /\ \A f \in Nat : f < Len(X) /\ X[f + 1] = c /\ (\A i \in 0 .. f - 1 : X[i + 1] # c) =>
              Place(s1, X, <<c>>) = s1 + f
    <3>1. OnePlace(s1, X, c)
      BY <1>0, <1>2, PlaceOne
    <3>2. QED BY <3>1 DEF OnePlace
  <2>9. CASE X[e + 1] = c
    BY <1>0, <1>1, <1>4, <2>3, <2>4, <2>5, <2>6, <2>7, <2>8, <2>9 DEF X
  <2>10. CASE X[e + 1] # c
    <3>1. ASSUME NEW k \in 1 .. Len(X) PROVE X[k] # c
      <4>1. PICK i : i = k - 1
        OBVIOUS
      <4>2. k = i + 1 /\ (i \in 0 .. e - 1 \/ i = e)
        BY <1>0, <1>2, <2>3, <2>10, <4>1
      <4>3. QED BY <2>3, <2>10, <4>2
    <3>2. QED BY <1>0, <1>1, <1>4, <2>6, <2>7, <2>8, <2>10, <3>1 DEF X
  <2>11. QED BY <2>9, <2>10
<1>5. QED BY <1>3, <1>4

\* strnchr gives the first place of c within n bytes.
LEMMA StrnchrRight ==
  ASSUME NEW m, NEW s1, NEW x, NEW s2, NEW y, Strings2(m, s1, x, s2, y)
  PROVE  \A n \in Nat, c \in 0 .. 255 :
           /\ strnchr(m, s1, n, c).ret = Place(s1, Prefix(x \o <<0>>, n), <<c>>)
           /\ strnchr(m, s1, n, c).reads \subseteq Held(s1, x, s2, y)
<1> TAKE n \in Nat, c \in 0 .. 255
<1> DEFINE X == x \o <<0>>
           P == Prefix(X, n)
           end == Min({First(s1, Holding(m, {0, c})), s1 + n})
<1>0. /\ m \in Memory /\ M \in Nat /\ s1 \in Nat /\ Len(x) \in Nat /\ s1 + Len(x) < M
      /\ IsString(m, s1, x) /\ x \in Seq(1 .. 255)
      /\ s1 .. s1 + Len(x) \subseteq Held(s1, x, s2, y)
  BY StringFacts
<1>1. /\ end < s1 + n => /\ strnchr(m, s1, n, c).ret = IF m[end] = c THEN end ELSE -1
                         /\ strnchr(m, s1, n, c).reads = s1 .. end
      /\ ~(end < s1 + n) => /\ strnchr(m, s1, n, c).ret = -1
                            /\ strnchr(m, s1, n, c).reads = s1 .. end - 1
  BY DEF strnchr, Gives
<1>2. X \in Seq(0 .. 255) /\ Len(X) = Len(x) + 1
  BY <1>0, WithNul
<1>3. PICK e \in Nat : CharAt(m, s1, x, c, e)
  BY <1>0, CharFirst
<1>4. /\ e <= Len(x) /\ First(s1, Holding(m, {0, c})) = s1 + e /\ m[s1 + e] = X[e + 1]
      /\ \A i \in 0 .. e - 1 : X[i + 1] # c
      /\ X[e + 1] # c => e = Len(x)
  BY <1>3 DEF CharAt
<1>5. end = IF e <= n THEN s1 + e ELSE s1 + n
  <2>1. Min({s1 + e, s1 + n}) = IF s1 + e <= s1 + n THEN s1 + e ELSE s1 + n
    BY <1>0, MinPair
  <2>2. end = Min({s1 + e, s1 + n})
    BY <1>4
  <2>3. s1 + e <= s1 + n <=> e <= n
    BY <1>0
  <2> HIDE DEF end
  <2>4. QED BY <2>1, <2>2, <2>3
<1> HIDE DEF X, end
<1>6. /\ P \in Seq(0 .. 255) /\ Len(P) = IF n <= Len(X) THEN n ELSE Len(X)
      /\ \A k \in 1 .. Len(P) : P[k] = X[k]
  BY <1>2, PrefixIs
<1>7. /\ (\A k \in 1 .. Len(P) : P[k] # c) => Place(s1, P, <<c>>) = -1
      /\ \A f \in Nat : f < Len(P) /\ P[f + 1] = c /\ (\A i \in 0 .. f - 1 : P[i + 1] # c) =>
            Place(s1, P, <<c>>) = s1 + f
  <2> HIDE DEF P
  <2>1. OnePlace(s1, P, c)
    BY <1>0, <1>6, PlaceOne
  <2>2. QED BY <2>1 DEF OnePlace
<1> HIDE DEF P
<1>8. ASSUME NEW k \in 1 .. Len(P), k <= e PROVE P[k] # c
  <2>1. PICK i : i = k - 1
    OBVIOUS
  <2>2. i \in 0 .. e - 1 /\ k = i + 1
    BY <1>0, <1>2, <1>6, <1>8, <2>1
  <2>3. QED BY <1>4, <1>6, <2>2
<1>9. CASE n <= e
  <2>1. end = s1 + n /\ s1 .. end - 1 \subseteq s1 .. s1 + Len(x) /\ ~(end < s1 + n)
    BY <1>0, <1>4, <1>5, <1>9
  <2>2. ASSUME NEW k \in 1 .. Len(P) PROVE P[k] # c
    <3>1. k <= e
      BY <1>0, <1>2, <1>6, <1>9
    <3>2. QED BY <1>8, <3>1
  <2>3. QED BY <1>0, <1>1, <1>7, <2>1, <2>2 DEF P, X
<1>10. CASE ~(n <= e)
  <2>1. end = s1 + e /\ s1 .. end \subseteq s1 .. s1 + Len(x) /\ end < s1 + n
    BY <1>0, <1>4, <1>5, <1>10
  <2>2. e < Len(P) /\ e + 1 \in 1 .. Len(P) /\ m[end] = X[e + 1] /\ P[e + 1] = X[e + 1]
    <3>1. e < Len(P) /\ e + 1 \in 1 .. Len(P)
      BY <1>0, <1>2, <1>4, <1>6, <1>10
    <3>2. QED BY <1>4, <1>6, <2>1, <3>1
  <2>3. CASE X[e + 1] = c
    <3>1. ASSUME NEW i \in 0 .. e - 1 PROVE P[i + 1] # c
      <4>1. i + 1 \in 1 .. Len(P) /\ i + 1 <= e
        BY <1>0, <1>2, <1>6, <2>2
      <4>2. QED BY <1>8, <4>1
    <3>2. Place(s1, P, <<c>>) = s1 + e
      BY <1>7, <2>2, <2>3, <3>1
    <3>3. QED BY <1>0, <1>1, <2>1, <2>2, <2>3, <3>2 DEF P, X
  <2>4. CASE X[e + 1] # c
    <3>1. ASSUME NEW k \in 1 .. Len(P) PROVE P[k] # c
      <4>1. k <= e \/ k = e + 1
        BY <1>0, <1>2, <1>4, <1>6, <2>4
      <4>2. QED BY <1>8, <2>2, <2>4, <4>1
    <3>2. QED BY <1>0, <1>1, <1>7, <2>1, <2>2, <2>4, <3>1 DEF P, X
  <2>5. QED BY <2>3, <2>4
<1>11. QED BY <1>9, <1>10

\* A set of numbers up to n has a greatest element.
LEMMA MaxOf ==
  ASSUME NEW n \in Nat, NEW T \in SUBSET (0 .. n), T # {}
  PROVE  Max(T) \in T /\ \A t \in T : Max(T) >= t
<1> DEFINE U == {k \in Nat : n - k \in T}
<1>1. U # {}
  <2>1. PICK t \in T : TRUE
    OBVIOUS
  <2>2. PICK k : k = n - t
    OBVIOUS
  <2>3. t \in 0 .. n
    OBVIOUS
  <2>4. k \in Nat /\ n - k = t
    BY <2>2, <2>3
  <2>5. QED BY <2>1, <2>4
<1>2. PICK k \in U : \A j \in U : k <= j
  <2>1. U \in SUBSET Nat
    OBVIOUS
  <2> HIDE DEF U
  <2>2. QED BY <1>1, <2>1, LeastNatural
<1>3. PICK g : g = n - k
  OBVIOUS
<1>4. g \in T
  BY <1>2, <1>3
<1>5. ASSUME NEW t \in T PROVE g >= t
  <2>1. PICK j : j = n - t
    OBVIOUS
  <2>2. t \in 0 .. n
    OBVIOUS
  <2>3. j \in Nat /\ n - j = t
    BY <2>1, <2>2
  <2>4. k <= j
    BY <1>2, <2>3
  <2>5. QED BY <1>2, <1>3, <2>2, <2>3, <2>4
<1>6. T \in SUBSET Int
  OBVIOUS
<1>7. Max(T) = g
  BY <1>4, <1>5, <1>6, MaxIs
<1>8. QED BY <1>4, <1>5, <1>7

\* strrchr gives the last place of c.
LEMMA StrrchrRight ==
  ASSUME NEW m, NEW s1, NEW x, NEW s2, NEW y, Strings2(m, s1, x, s2, y), NEW c \in 0 .. 255
  PROVE  /\ strrchr(m, s1, c).ret = LastPlace(s1, x \o <<0>>, c)
         /\ strrchr(m, s1, c).reads \subseteq Held(s1, x, s2, y)
<1> DEFINE X == x \o <<0>>
           hits == {p \in s1 .. s1 + Len(x) : signed(m[p]) = signed(c)}
           T == {s1 + k - 1 : k \in {j \in DOMAIN X : X[j] = c}}
<1>0. /\ m \in Memory /\ M \in Nat /\ s1 \in Nat /\ Len(x) \in Nat /\ s1 + Len(x) < M
      /\ IsString(m, s1, x) /\ x \in Seq(1 .. 255)
      /\ First(s1, Zeros(m)) = s1 + Len(x)
      /\ s1 .. s1 + Len(x) \subseteq Held(s1, x, s2, y)
  BY StringFacts
<1>1. /\ strrchr(m, s1, c).ret = IF hits = {} THEN -1 ELSE Max(hits)
      /\ strrchr(m, s1, c).reads = s1 .. s1 + Len(x)
  BY <1>0 DEF strrchr, Gives
<1>2. X \in Seq(0 .. 255) /\ Len(X) = Len(x) + 1
  BY <1>0, WithNul
<1>3. \A i \in 0 .. Len(X) - 1 : m[s1 + i] = X[i + 1]
  <2>1. Holds(m, s1, X)
    BY <1>0, HoldsWithNul
  <2> HIDE DEF X
  <2>2. QED BY <2>1 DEF Holds
<1> HIDE DEF X
<1>4. DOMAIN X = 1 .. Len(X) /\ \A k \in 1 .. Len(X) : X[k] \in 0 .. 255
  <2>1. \A k \in 1 .. Len(X) : X[k] \in 0 .. 255
    BY <1>2, ElementOfSeq, Zenon
  <2>2. QED BY <1>2, <2>1
<1>5. ASSUME NEW i \in 0 .. Len(x)
      PROVE  s1 + i \in 0 .. M - 1 /\ (signed(m[s1 + i]) = signed(c) <=> X[i + 1] = c)
  <2>1. i \in 0 .. Len(X) - 1 /\ i + 1 \in 1 .. Len(X) /\ s1 + i \in 0 .. M - 1
    BY <1>0, <1>2
  <2>2. m[s1 + i] = X[i + 1] /\ X[i + 1] \in 0 .. 255
    BY <1>3, <1>4, <2>1
  <2>3. QED BY <2>1, <2>2, SignedIs, Zenon
<1>6. ASSUME NEW p \in hits PROVE p \in T
  <2>1. PICK i : i = p - s1
    OBVIOUS
  <2>2. i \in 0 .. Len(x) /\ p = s1 + i
    BY <1>0, <2>1
  <2>3. X[i + 1] = c /\ i + 1 \in DOMAIN X
    BY <1>0, <1>2, <1>4, <1>5, <2>2
  <2>4. p = s1 + (i + 1) - 1
    BY <1>0, <2>2
  <2>5. QED BY <2>3, <2>4
<1>7. ASSUME NEW p \in T PROVE p \in hits
  <2>1. PICK k \in 1 .. Len(X) : X[k] = c /\ p = s1 + k - 1
    BY <1>4
  <2>2. PICK i : i = k - 1
    OBVIOUS
  <2>3. i \in 0 .. Len(x) /\ k = i + 1 /\ p = s1 + i /\ p \in s1 .. s1 + Len(x)
    BY <1>0, <1>2, <2>1, <2>2
  <2>4. QED BY <1>5, <2>1, <2>3
<1>08. \A p \in hits : p \in 0 .. M - 1
  BY <1>0
<1>8. hits = T /\ T \in SUBSET (0 .. M - 1)
  <2> HIDE DEF hits, T
  <2>1. QED BY <1>6, <1>7, <1>08
<1> HIDE DEF hits, T
<1>9. (IF T = {} THEN -1 ELSE Max(T)) = Max(T \cup {-1})
  <2>1. CASE T = {}
    <3>1. T \cup {-1} = {-1}
      BY <2>1
    <3>2. Max({-1}) = -1
      <4>1. PICK z \in Int : z = -1
        OBVIOUS
      <4>2. Max({z}) = z
        BY MaxIs
      <4>3. QED BY <4>1, <4>2
    <3>3. QED BY <2>1, <3>1, <3>2
  <2>2. CASE T # {}
    <3>1. Max(T) \in T /\ \A t \in T : Max(T) >= t
      <4>1. PICK n \in Nat : n = M - 1
        <5>1. M - 1 \in Nat
          BY <1>0
        <5>2. QED BY <5>1
      <4>2. QED BY <1>8, <2>2, <4>1, MaxOf
    <3>2. PICK g : g = Max(T)
      OBVIOUS
    <3>03. g \in 0 .. M - 1 /\ g \in T /\ \A t \in T : g >= t
      BY <1>8, <3>1, <3>2
    <3>3. g \in T \cup {-1} /\ \A t \in T \cup {-1} : g >= t
      <4>1. g >= -1
        BY <1>0, <3>03
      <4>2. QED BY <3>03, <4>1
    <3>4. T \cup {-1} \in SUBSET Int
      BY <1>0, <1>8
    <3>5. Max(T \cup {-1}) = g
      BY <3>3, <3>4, MaxIs
    <3>6. QED BY <2>2, <3>2, <3>5
  <2>3. QED BY <2>1, <2>2
<1>10. strrchr(m, s1, c).ret = Max(T \cup {-1})
  BY <1>1, <1>8, <1>9
<1>11. Max(T \cup {-1}) = LastPlace(s1, X, c)
  BY DEF T, LastPlace
<1>12. QED BY <1>0, <1>1, <1>10, <1>11 DEF X


\* The bytes of y stand at h.
Agree(m, h, y) == \A i \in 0 .. Len(y) - 1 : h + i < M /\ m[h + i] = y[i + 1]

\* The inner loop of strstr, started at h, comes to place j of the needle.
MatchTo(m, h, s2, y, j) ==
  /\ j \in 1 .. Len(y) /\ match_end(m, h, s2) = s2 + j
  /\ \A i \in 1 .. j - 1 : h + i < M /\ m[h + i] = y[i + 1]
  /\ m[s2 + j] = 0 <=> j = Len(y)
  /\ j < Len(y) => ~(h + j < M /\ m[h + j] = y[j + 1])

\* The inner loop of strstr ends at the needle's NUL or at the first difference.
LEMMA MatchEnd ==
  ASSUME NEW m \in Memory, NEW h \in 0 .. M - 1, NEW s2, NEW y, IsString(m, s2, y), y # <<>>
  PROVE  \E j \in Nat : MatchTo(m, h, s2, y, j)
<1>0. /\ y \in Seq(1 .. 255) /\ s2 \in Nat /\ M \in Nat /\ s2 + Len(y) < M /\ Len(y) \in Nat
      /\ DOMAIN m = 0 .. M - 1 /\ m[s2 + Len(y)] = 0
      /\ \A i \in 0 .. Len(y) - 1 : m[s2 + i] = y[i + 1] /\ m[s2 + i] \in 1 .. 255
  <2>1. y \in Seq(1 .. 255)
    BY DEF IsString
  <2>2. QED BY <2>1, BytesAssumption DEF IsString, M, Memory
<1>00. Len(y) >= 1
  BY <1>0, EmptySeq
<1> DEFINE D == Differing(m, s2, h)
           S == Zeros(m) \cup D
<1>1. ASSUME NEW i \in Nat, i < Len(y)
      PROVE  s2 + i \in D <=> ~(h + i < M /\ m[h + i] = y[i + 1])
  <2>1. i \in 0 .. Len(y) - 1 /\ s2 + i \in 0 .. M - 1 /\ h + ((s2 + i) - s2) = h + i
    BY <1>0, <1>1
  <2>2. m[s2 + i] = y[i + 1]
    BY <1>0, <2>1
  <2>3. h + i \in 0 .. M - 1 <=> h + i < M
    BY <1>0
  <2>4. QED BY <1>0, <2>1, <2>2, <2>3 DEF Differing
<1>2. /\ S \in SUBSET (0 .. M - 1)
      /\ \A a : a \in Zeros(m) <=> a \in 0 .. M - 1 /\ m[a] = 0
  BY <1>0 DEF Zeros, Holding, Differing
<1>3. match_end(m, h, s2) = First(s2 + 1, S)
  BY DEF match_end
<1> HIDE DEF D
<1>4. s2 + Len(y) \in S /\ s2 + 1 \in 0 .. M /\ s2 + Len(y) >= s2 + 1
  <2>1. s2 + Len(y) \in 0 .. M - 1 /\ s2 + 1 \in 0 .. M /\ s2 + Len(y) >= s2 + 1
    BY <1>0, <1>00
  <2>2. QED BY <1>0, <1>2, <2>1
<1> HIDE DEF S
<1>5. PICK q : q = s2 + 1
  OBVIOUS
<1>6. /\ First(q, S) \in q .. M /\ (First(q, S) \in S \/ First(q, S) = M)
      /\ \A a \in S : a >= q => First(q, S) <= a
  BY <1>2, <1>4, <1>5, FirstOf
<1>7. PICK j : j = First(q, S) - s2
  OBVIOUS
<1>8. j \in 1 .. Len(y) /\ First(q, S) = s2 + j /\ s2 + j \in S
  <2>1. First(q, S) <= s2 + Len(y)
    BY <1>4, <1>5, <1>6
  <2>2. QED BY <1>0, <1>5, <1>6, <1>7, <2>1
<1>9. ASSUME NEW i \in 1 .. j - 1 PROVE h + i < M /\ m[h + i] = y[i + 1]
  <2>1. i \in Nat /\ i < Len(y) /\ s2 + i >= q /\ s2 + i < s2 + j
    BY <1>0, <1>5, <1>8
  <2>2. ~(s2 + i \in S)
    <3>1. s2 + i \in S => s2 + j <= s2 + i
      BY <1>6, <1>8, <2>1
    <3>2. QED BY <1>0, <1>8, <2>1, <3>1
  <2>3. ~(s2 + i \in D)
    BY <2>2 DEF S
  <2>4. QED BY <1>1, <2>1, <2>3
<1>10. m[s2 + j] = 0 <=> j = Len(y)
  <2>1. CASE j = Len(y)
    BY <1>0, <2>1
  <2>2. CASE j # Len(y)
    <3>1. j \in 0 .. Len(y) - 1
      BY <1>0, <1>8, <2>2
    <3>2. m[s2 + j] \in 1 .. 255
      BY <1>0, <3>1
    <3>3. \A b \in 1 .. 255 : b # 0
      OBVIOUS
    <3>4. m[s2 + j] # 0
      BY <3>2, <3>3, Zenon
    <3>5. QED BY <2>2, <3>4
  <2>3. QED BY <2>1, <2>2
<1>11. ASSUME j < Len(y) PROVE ~(h + j < M /\ m[h + j] = y[j + 1])
  <2>1. j \in Nat /\ j # Len(y)
    BY <1>0, <1>8, <1>11
  <2>2. ~(s2 + j \in Zeros(m))
    BY <1>2, <1>10, <2>1
  <2>3. s2 + j \in D
    BY <1>8, <2>2 DEF S
  <2>4. QED BY <1>1, <1>11, <2>1, <2>3
<1>12. MatchTo(m, h, s2, y, j) /\ j \in Nat
  BY <1>3, <1>5, <1>8, <1>9, <1>10, <1>11 DEF MatchTo
<1>13. QED BY <1>12

\* The places strstr stops at are those where the needle stands.
LEMMA MatchIs ==
  ASSUME NEW m \in Memory, NEW h \in 0 .. M - 1, NEW s2, NEW y, IsString(m, s2, y), y # <<>>
  PROVE  m[h] = m[s2] /\ m[match_end(m, h, s2)] = 0 <=> Agree(m, h, y)
<1>0. /\ y \in Seq(1 .. 255) /\ s2 \in Nat /\ M \in Nat /\ Len(y) \in Nat
      /\ \A i \in 0 .. Len(y) - 1 : m[s2 + i] = y[i + 1]
  <2>1. y \in Seq(1 .. 255)
    BY DEF IsString
  <2>2. QED BY <2>1, BytesAssumption DEF IsString, M
<1>00. Len(y) >= 1 /\ 0 \in 0 .. Len(y) - 1 /\ h + 0 = h /\ s2 + 0 = s2
  BY <1>0, EmptySeq
<1>1. PICK j \in Nat : MatchTo(m, h, s2, y, j)
  BY MatchEnd
<1>2. /\ j \in 1 .. Len(y) /\ match_end(m, h, s2) = s2 + j
      /\ \A i \in 1 .. j - 1 : h + i < M /\ m[h + i] = y[i + 1]
      /\ m[s2 + j] = 0 <=> j = Len(y)
      /\ j < Len(y) => ~(h + j < M /\ m[h + j] = y[j + 1])
  BY <1>1 DEF MatchTo
<1>3. m[s2] = y[0 + 1]
  BY <1>0, <1>00
<1>4. ASSUME m[h] = m[s2], m[match_end(m, h, s2)] = 0 PROVE Agree(m, h, y)
  <2>1. j = Len(y)
    BY <1>2, <1>4
  <2>2. ASSUME NEW i \in 0 .. Len(y) - 1 PROVE h + i < M /\ m[h + i] = y[i + 1]
    <3>1. CASE i = 0
      <4>1. h + i = h /\ h < M /\ i + 1 = 0 + 1
        BY <1>0, <3>1
      <4>2. QED BY <1>3, <1>4, <4>1
    <3>2. CASE i # 0
      <4>1. i \in 1 .. j - 1
        BY <1>0, <2>1, <3>2
      <4>2. QED BY <1>2, <4>1
    <3>3. QED BY <3>1, <3>2
  <2>3. QED BY <2>2 DEF Agree
<1>5. ASSUME Agree(m, h, y) PROVE m[h] = m[s2] /\ m[match_end(m, h, s2)] = 0
  <2>1. \A i \in 0 .. Len(y) - 1 : h + i < M /\ m[h + i] = y[i + 1]
    BY <1>5 DEF Agree
  <2>2. m[h] = y[0 + 1]
    BY <1>00, <2>1
  <2>3. j = Len(y)
    <3>1. ASSUME j < Len(y) PROVE FALSE
      <4>1. j \in 0 .. Len(y) - 1
        BY <1>0, <3>1
      <4>2. QED BY <1>2, <2>1, <3>1, <4>1
    <3>2. QED BY <1>0, <1>2, <3>1
  <2>4. QED BY <1>2, <1>3, <2>2, <2>3
<1>6. QED BY <1>4, <1>5

\* The needle stands in memory, from the haystack on, where it stands in the haystack.
LEMMA AgreeIs ==
  ASSUME NEW m, NEW s1, NEW x, NEW s2, NEW y, Strings2(m, s1, x, s2, y), NEW k \in Nat, k <= Len(x)
  PROVE  Agree(m, s1 + k, y) <=> Found(x, y, k)
<1>0. /\ s1 \in Nat /\ M \in Nat /\ Len(x) \in Nat /\ Len(y) \in Nat /\ s1 + Len(x) < M
      /\ x \in Seq(1 .. 255) /\ y \in Seq(1 .. 255) /\ IsString(m, s1, x)
  BY StringFacts
<1>1. m[s1 + Len(x)] = 0 /\ \A i \in 0 .. Len(x) - 1 : m[s1 + i] = x[i + 1]
  BY <1>0 DEF IsString
<1>2. ASSUME NEW i \in Nat, k + i < Len(x)
      PROVE  (s1 + k) + i < M /\ m[(s1 + k) + i] = x[k + i + 1]
  <2>1. k + i \in 0 .. Len(x) - 1 /\ (s1 + k) + i = s1 + (k + i) /\ (s1 + k) + i < M
    BY <1>0, <1>2
  <2>2. QED BY <1>1, <2>1
<1>3. ASSUME Agree(m, s1 + k, y) PROVE Found(x, y, k)
  <2>1. \A i \in 0 .. Len(y) - 1 : m[(s1 + k) + i] = y[i + 1]
    BY <1>3 DEF Agree
  <2>2. k + Len(y) <= Len(x)
    <3> SUFFICES ASSUME k + Len(y) > Len(x) PROVE FALSE
      BY <1>0
    <3>1. PICK i : i = Len(x) - k
      OBVIOUS
    <3>2. i \in 0 .. Len(y) - 1 /\ (s1 + k) + i = s1 + Len(x)
      BY <1>0, <3>1
    <3>3. y[i + 1] = 0
      BY <1>1, <2>1, <3>2
    <3>4. i + 1 \in 1 .. Len(y)
      BY <1>0, <3>2
    <3>5. y[i + 1] \in 1 .. 255
      BY <1>0, <3>4, ElementOfSeq
    <3>6. QED BY <3>3, <3>5
  <2>3. ASSUME NEW i \in 0 .. Len(y) - 1 PROVE x[k + i + 1] = y[i + 1]
    <3>1. i \in Nat /\ k + i < Len(x)
      BY <1>0, <2>2
    <3>2. m[(s1 + k) + i] = x[k + i + 1]
      BY <1>2, <3>1
    <3>3. m[(s1 + k) + i] = y[i + 1]
      BY <2>1
    <3>4. QED BY <3>2, <3>3
  <2>4. QED BY <2>2, <2>3 DEF Found
<1>4. ASSUME Found(x, y, k) PROVE Agree(m, s1 + k, y)
  <2>1. k + Len(y) <= Len(x) /\ \A i \in 0 .. Len(y) - 1 : x[k + i + 1] = y[i + 1]
    BY <1>4 DEF Found
  <2>2. ASSUME NEW i \in 0 .. Len(y) - 1
        PROVE  (s1 + k) + i < M /\ m[(s1 + k) + i] = y[i + 1]
    <3>1. i \in Nat /\ k + i < Len(x)
      BY <1>0, <2>1
    <3>2. QED BY <1>2, <2>1, <3>1
  <2>3. QED BY <2>2 DEF Agree
<1>5. QED BY <1>3, <1>4


\* The inner loop reads no byte behind the NUL of either string.
LEMMA MatchReads ==
  ASSUME NEW m, NEW s1, NEW x, NEW s2, NEW y, Strings2(m, s1, x, s2, y), y # <<>>,
         NEW h \in s1 .. s1 + Len(x), m[h] = m[s2]
  PROVE  match_reads(m, h, s2) \subseteq Held(s1, x, s2, y)
<1>0. /\ m \in Memory /\ M \in Nat /\ s1 \in Nat /\ s2 \in Nat /\ Len(x) \in Nat /\ Len(y) \in Nat
      /\ s1 + Len(x) < M /\ IsString(m, s1, x) /\ IsString(m, s2, y) /\ y \in Seq(1 .. 255)
      /\ s1 .. s1 + Len(x) \subseteq Held(s1, x, s2, y)
      /\ s2 .. s2 + Len(y) \subseteq Held(s1, x, s2, y)
  BY StringFacts
<1>1. m[s1 + Len(x)] = 0 /\ \A i \in 0 .. Len(y) - 1 : m[s2 + i] = y[i + 1]
  BY <1>0 DEF IsString
<1>2. \A i \in 0 .. Len(y) - 1 : y[i + 1] \in 1 .. 255
  <2> SUFFICES ASSUME NEW i \in 0 .. Len(y) - 1 PROVE y[i + 1] \in 1 .. 255
    OBVIOUS
  <2>1. i + 1 \in 1 .. Len(y)
    BY <1>0
  <2>2. QED BY <1>0, <2>1, ElementOfSeq
<1>3. PICK j \in Nat : MatchTo(m, h, s2, y, j)
  <2>1. h \in 0 .. M - 1
    BY <1>0
  <2>2. QED BY <1>0, <2>1, MatchEnd
<1>4. /\ j \in 1 .. Len(y) /\ match_end(m, h, s2) = s2 + j
      /\ \A i \in 1 .. j - 1 : m[h + i] = y[i + 1]
  BY <1>3 DEF MatchTo
<1>5. ASSUME NEW i \in 0 .. j - 1 PROVE m[h + i] # 0
  <2>1. i \in 0 .. Len(y) - 1
    BY <1>0, <1>4
  <2>2. m[h + i] = y[i + 1]
    <3>1. CASE i = 0
      <4>1. h + i = h /\ s2 + i = s2
        BY <1>0, <3>1
      <4>2. QED BY <1>1, <2>1, <4>1
    <3>2. CASE i # 0
      <4>1. i \in 1 .. j - 1
        BY <3>2
      <4>2. QED BY <1>4, <4>1
    <3>3. QED BY <3>1, <3>2
  <2>3. y[i + 1] \in 1 .. 255
    BY <1>2, <2>1
  <2>4. \A b \in 1 .. 255 : b # 0
    OBVIOUS
  <2>5. y[i + 1] # 0
    BY <2>3, <2>4, Zenon
  <2>6. QED BY <2>2, <2>5
<1>6. h + j <= s1 + Len(x)
  <2> SUFFICES ASSUME h + j > s1 + Len(x) PROVE FALSE
    BY <1>0, <1>4
  <2>1. PICK i : i = (s1 + Len(x)) - h
    OBVIOUS
  <2>2. i \in 0 .. j - 1 /\ h + i = s1 + Len(x)
    BY <1>0, <1>4, <2>1
  <2>3. QED BY <1>1, <1>5, <2>2
<1>7. PICK z \in 0 .. 1 : z = IF m[s2 + j] = 0 THEN 1 ELSE 0
  OBVIOUS
<1>8. match_reads(m, h, s2) = (s2 .. s2 + j) \cup (h .. h + ((s2 + j) - s2) - z)
  BY <1>4, <1>7 DEF match_reads
<1>9. s2 .. s2 + j \subseteq s2 .. s2 + Len(y)
  BY <1>0, <1>4
<1>10. h .. h + ((s2 + j) - s2) - z \subseteq s1 .. s1 + Len(x)
  BY <1>0, <1>4, <1>6
<1>11. QED BY <1>0, <1>8, <1>9, <1>10

\* The empty string stands everywhere.
LEMMA EmptyPlace ==
  ASSUME NEW t \in Seq(1 .. 255), NEW p \in Nat
  PROVE  Place(p, t, <<>>) = p
<1>1. <<>> \in Seq(1 .. 255) /\ Len(<<>>) = 0 /\ Len(t) \in Nat
  OBVIOUS
<1>2. PICK s \in Seq(1 .. 255) : s = <<>> /\ Len(s) = 0
  BY <1>1
<1>3. Found(t, s, 0)
  BY <1>1, <1>2 DEF Found
<1>4. Place(p, t, s) = p + 0
  <2>1. \A k \in Nat : Found(t, s, k) /\ (\A j \in 0 .. k - 1 : ~Found(t, s, j)) =>
          Place(p, t, s) = p + k
    BY PlaceIs
  <2>2. \A j : ~(j \in 0 .. 0 - 1)
    OBVIOUS
  <2>3. QED BY <1>3, <2>1, <2>2
<1>5. QED BY <1>2, <1>4

\* strstr gives the first place of the needle.
LEMMA StrstrRight ==
  ASSUME NEW m, NEW s1, NEW x, NEW s2, NEW y, Strings2(m, s1, x, s2, y)
  PROVE  /\ strstr(m, s1, s2).ret = Place(s1, x, y)
         /\ strstr(m, s1, s2).reads \subseteq Held(s1, x, s2, y)
<1>0. /\ m \in Memory /\ M \in Nat /\ s1 \in Nat /\ s2 \in Nat /\ Len(x) \in Nat /\ Len(y) \in Nat
      /\ s1 + Len(x) < M /\ s2 + Len(y) < M /\ IsString(m, s1, x) /\ IsString(m, s2, y)
      /\ x \in Seq(1 .. 255) /\ y \in Seq(1 .. 255) /\ DOMAIN m = 0 .. M - 1
      /\ s1 .. s1 + Len(x) \subseteq Held(s1, x, s2, y)
      /\ s2 .. s2 + Len(y) \subseteq Held(s1, x, s2, y)
  BY StringFacts DEF Memory
<1>1. /\ m[s1 + Len(x)] = 0
      /\ \A i \in 0 .. Len(x) - 1 : m[s1 + i] \in 1 .. 255
      /\ m[s2 + Len(y)] = 0
      /\ \A i \in 0 .. Len(y) - 1 : m[s2 + i] \in 1 .. 255
  BY <1>0 DEF IsString
<1>2. s2 \in Held(s1, x, s2, y)
  BY <1>0
<1>3. CASE y = <<>>
  <2>1. s2 + Len(y) = s2
    BY <1>0, <1>3
  <2>2. strstr(m, s1, s2) = Gives(m, s1, {s2})
    BY <1>1, <2>1 DEF strstr
  <2>3. Place(s1, x, y) = s1
    BY <1>0, <1>3, EmptyPlace
  <2>4. QED BY <1>2, <2>2, <2>3 DEF Gives
<1>4. CASE y # <<>>
  <2>0. Len(y) >= 1
    BY <1>0, <1>4, EmptySeq
  <2>1. m[s2] # 0
    <3>1. 0 \in 0 .. Len(y) - 1 /\ s2 + 0 = s2
      BY <1>0, <2>0
    <3>2. m[s2] \in 1 .. 255
      BY <1>1, <3>1
    <3>3. QED BY <3>2
  <2> DEFINE matches == {h \in DOMAIN m : m[h] = m[s2] /\ m[match_end(m, h, s2)] = 0}
             S       == Zeros(m) \cup matches
             end     == First(s1, S)
             tried   == {p \in s1 .. end : m[p] = m[s2]}
  <2>2. /\ strstr(m, s1, s2).ret = IF m[end] = 0 THEN -1 ELSE end
        /\ strstr(m, s1, s2).reads
             = (s1 .. end) \cup {s2} \cup UNION {match_reads(m, p, s2) : p \in tried}
    BY <2>1 DEF strstr, Gives
  <2>3. \A h \in 0 .. M - 1 : h \in matches <=> Agree(m, h, y)
    BY <1>0, <1>4, MatchIs
  <2>4. \A a : a \in Zeros(m) <=> a \in 0 .. M - 1 /\ m[a] = 0
    BY <1>0 DEF Zeros, Holding
  <2>5. S \in SUBSET (0 .. M - 1)
    BY <1>0, <2>4
  <2> HIDE DEF matches
  <2>6. s1 + Len(x) \in S /\ s1 \in 0 .. M /\ s1 + Len(x) >= s1
    <3>1. s1 + Len(x) \in 0 .. M - 1 /\ s1 \in 0 .. M /\ s1 + Len(x) >= s1
      BY <1>0
    <3>2. QED BY <1>1, <2>4, <3>1
  <2>7. ASSUME NEW a \in S PROVE m[a] = 0 \/ Agree(m, a, y)
    <3>1. a \in 0 .. M - 1
      BY <2>5
    <3>2. QED BY <2>3, <2>4, <3>1
  <2>8. ASSUME NEW a \in 0 .. M - 1, Agree(m, a, y) PROVE a \in S
    BY <2>3, <2>8
  <2> HIDE DEF S
  <2>9. /\ end \in s1 .. M /\ (end \in S \/ end = M)
        /\ \A a \in S : a >= s1 => end <= a
    BY <2>5, <2>6, FirstOf
  <2> HIDE DEF end
  <2>10. PICK e : e = end - s1
    OBVIOUS
  <2>11. e \in Nat /\ end = s1 + e /\ e <= Len(x) /\ end \in S
    <3>1. end <= s1 + Len(x)
      BY <2>6, <2>9
    <3>2. QED BY <1>0, <2>9, <2>10, <3>1
  <2>12. ASSUME NEW k \in Nat, k < e PROVE ~Found(x, y, k)
    <3>1. k <= Len(x) /\ s1 + k \in 0 .. M - 1 /\ s1 + k >= s1 /\ ~(s1 + e <= s1 + k)
      BY <1>0, <2>11, <2>12
    <3>2. ~(s1 + k \in S)
      BY <2>9, <2>11, <3>1
    <3>3. ~Agree(m, s1 + k, y)
      BY <2>8, <3>1, <3>2
    <3>4. QED BY <3>1, <3>3, AgreeIs
  <2>13. /\ (\A k \in Nat : ~Found(x, y, k)) => Place(s1, x, y) = -1
         /\ \A k \in Nat : Found(x, y, k) /\ (\A j \in 0 .. k - 1 : ~Found(x, y, j)) =>
              Place(s1, x, y) = s1 + k
    BY <1>0, PlaceIs
  <2>14. strstr(m, s1, s2).ret = Place(s1, x, y)
    <3>1. CASE e = Len(x)
      <4>1. m[end] = 0
        BY <1>1, <2>11, <3>1
      <4>2. ASSUME NEW k \in Nat PROVE ~Found(x, y, k)
        <5>1. CASE k < e
          BY <2>12, <5>1
        <5>2. CASE ~(k < e)
          <6>1. k + Len(y) > Len(x)
            BY <1>0, <2>0, <3>1, <5>2
          <6>2. QED BY <1>0, <6>1 DEF Found
        <5>3. QED BY <5>1, <5>2
      <4>3. QED BY <2>2, <2>13, <4>1, <4>2
    <3>2. CASE e # Len(x)
      <4>1. e \in 0 .. Len(x) - 1
        BY <1>0, <2>11, <3>2
      <4>2. m[end] \in 1 .. 255
        BY <1>1, <2>11, <4>1
      <4>3. m[end] # 0
        BY <4>2
      <4>4. Agree(m, s1 + e, y)
        BY <2>7, <2>11, <4>3
      <4>5. Found(x, y, e)
        BY <2>11, <4>4, AgreeIs
      <4>6. ASSUME NEW k \in 0 .. e - 1 PROVE ~Found(x, y, k)
        <5>1. k \in Nat /\ k < e
          BY <2>11
        <5>2. QED BY <2>12, <5>1
      <4>7. Place(s1, x, y) = s1 + e
        BY <2>11, <2>13, <4>5, <4>6
      <4>8. QED BY <2>2, <2>11, <4>3, <4>7
    <3>3. QED BY <3>1, <3>2
  <2>15. s1 .. end \subseteq s1 .. s1 + Len(x)
    BY <1>0, <2>11
  <2>16. ASSUME NEW p \in tried PROVE match_reads(m, p, s2) \subseteq Held(s1, x, s2, y)
    <3>1. p \in s1 .. s1 + Len(x) /\ m[p] = m[s2]
      BY <2>15
    <3>2. QED BY <1>4, <3>1, MatchReads
  <2> HIDE DEF tried
  <2>17. UNION {match_reads(m, p, s2) : p \in tried} \subseteq Held(s1, x, s2, y)
    BY <2>16
  <2>18. strstr(m, s1, s2).reads \subseteq Held(s1, x, s2, y)
    BY <1>0, <1>2, <2>2, <2>15, <2>17
  <2>19. QED BY <2>14, <2>18
<1>5. QED BY <1>3, <1>4


\* The rest of a string is a string.
LEMMA SuffixIs ==
  ASSUME NEW m, NEW p, NEW x, IsString(m, p, x), NEW k \in Nat, k <= Len(x)
  PROVE  \E t : /\ IsString(m, p + k, t) /\ Len(t) = Len(x) - k
                /\ \A i \in Nat : i < Len(t) => t[i + 1] = x[k + i + 1]
<1>0. /\ x \in Seq(1 .. 255) /\ p \in Nat /\ M \in Nat /\ p + Len(x) < M /\ Len(x) \in Nat
      /\ m[p + Len(x)] = 0
      /\ \A i \in 0 .. Len(x) - 1 : m[p + i] = x[i + 1] /\ m[p + i] \in 1 .. 255
  <2>1. x \in Seq(1 .. 255)
    BY DEF IsString
  <2>2. QED BY <2>1, BytesAssumption DEF IsString, M
<1>1. PICK l \in Nat : l = Len(x) - k
  <2>1. Len(x) - k \in Nat
    BY <1>0
  <2>2. QED BY <2>1
<1> DEFINE t == [i \in 1 .. l |-> x[k + i]]
<1>2. t \in Seq(1 .. 255) /\ Len(t) = l
  <2>1. ASSUME NEW i \in 1 .. l PROVE x[k + i] \in 1 .. 255
    <3>1. k + i \in 1 .. Len(x)
      BY <1>0, <1>1
    <3>2. QED BY <1>0, <3>1, ElementOfSeq
  <2>2. QED BY <2>1
<1>3. ASSUME NEW i \in Nat, i < l PROVE t[i + 1] = x[k + i + 1]
  <2>1. i + 1 \in 1 .. l /\ k + (i + 1) = k + i + 1
    BY <1>3
  <2>2. QED BY <2>1
<1> HIDE DEF t
<1>4. ASSUME NEW i \in 0 .. Len(t) - 1
      PROVE  m[(p + k) + i] = t[i + 1] /\ m[(p + k) + i] \in 1 .. 255
  <2>1. i \in Nat /\ i < l /\ k + i \in 0 .. Len(x) - 1 /\ (p + k) + i = p + (k + i)
    BY <1>0, <1>1, <1>2
  <2>2. m[p + (k + i)] = x[k + i + 1] /\ m[p + (k + i)] \in 1 .. 255
    BY <1>0, <2>1
  <2>3. QED BY <1>3, <2>1, <2>2
<1>5. (p + k) + Len(t) = p + Len(x) /\ p + k \in Nat
  BY <1>0, <1>1, <1>2
<1>6. IsString(m, p + k, t)
  BY <1>0, <1>2, <1>4, <1>5 DEF IsString
<1>7. /\ Len(t) = Len(x) - k
      /\ \A i \in Nat : i < Len(t) => t[i + 1] = x[k + i + 1]
  BY <1>1, <1>2, <1>3
<1>8. QED BY <1>6, <1>7

\* strncmp, given the length of the needle, tells whether it stands there.
LEMMA StandsAt ==
  ASSUME NEW m, NEW s1, NEW x, NEW s2, NEW y, Strings2(m, s1, x, s2, y), NEW k \in Nat,
         k + Len(y) <= Len(x)
  PROVE  strncmp(m, s1 + k, s2, Len(y)).ret = 0 <=> Found(x, y, k)
<1>0. /\ m \in Memory /\ Len(x) \in Nat /\ Len(y) \in Nat /\ k <= Len(x)
      /\ IsString(m, s1, x) /\ IsString(m, s2, y) /\ y \in Seq(1 .. 255)
  BY StringFacts
<1>1. PICK t : /\ IsString(m, s1 + k, t) /\ Len(t) = Len(x) - k
               /\ \A i \in Nat : i < Len(t) => t[i + 1] = x[k + i + 1]
  BY <1>0, SuffixIs
<1>2. PICK h : h = s1 + k
  OBVIOUS
<1>3. Strings2(m, h, t, s2, y)
  BY <1>0, <1>1, <1>2 DEF Strings2
<1> DEFINE T == t \o <<0>>
           Y == y \o <<0>>
           l == Len(y)
           P == Prefix(T, l)
           Q == Prefix(Y, l)
<1>4. strncmp(m, h, s2, l).ret = Difference(P, Q)
  BY <1>0, <1>3, StrncmpRight
<1>5. t \in Seq(1 .. 255) /\ Len(t) \in Nat /\ l <= Len(t)
  <2>1. t \in Seq(1 .. 255)
    BY <1>1 DEF IsString
  <2>2. QED BY <1>0, <1>1, <2>1
<1>6. /\ T \in Seq(0 .. 255) /\ Len(T) = Len(t) + 1
      /\ \A i \in 0 .. Len(t) - 1 : T[i + 1] = t[i + 1]
  BY <1>5, WithNul
<1>7. /\ Y \in Seq(0 .. 255) /\ Len(Y) = Len(y) + 1
      /\ \A i \in 0 .. Len(y) - 1 : Y[i + 1] = y[i + 1]
  BY <1>0, WithNul
<1>8. T \in Seq(Nat) /\ Y \in Seq(Nat)
  <2>1. Holds(m, h, T) /\ Holds(m, s2, Y)
    BY <1>3, HoldsWithNul DEF Strings2
  <2> HIDE DEF T, Y
  <2>2. QED BY <2>1 DEF Holds
<1> HIDE DEF T, Y
<1>9. /\ P \in Seq(Nat) /\ Len(P) = l /\ \A i \in 1 .. l : P[i] = T[i]
  <2>1. /\ P \in Seq(Nat) /\ Len(P) = IF l <= Len(T) THEN l ELSE Len(T)
        /\ \A i \in 1 .. Len(P) : P[i] = T[i]
    <3>1. l \in Nat /\ T \in Seq(Nat)
      BY <1>0, <1>8
    <3> HIDE DEF l
    <3>2. QED BY <3>1, PrefixIs
  <2> HIDE DEF P
  <2>2. Len(P) = l
    BY <1>0, <1>5, <1>6, <2>1
  <2>3. QED BY <2>1, <2>2
<1>10. /\ Q \in Seq(Nat) /\ Len(Q) = l /\ \A i \in 1 .. l : Q[i] = Y[i]
  <2>1. /\ Q \in Seq(Nat) /\ Len(Q) = IF l <= Len(Y) THEN l ELSE Len(Y)
        /\ \A i \in 1 .. Len(Q) : Q[i] = Y[i]
    <3>1. l \in Nat /\ Y \in Seq(Nat)
      BY <1>0, <1>8
    <3> HIDE DEF l
    <3>2. QED BY <3>1, PrefixIs
  <2> HIDE DEF Q
  <2>2. Len(Q) = l
    BY <1>0, <1>7, <2>1
  <2>3. QED BY <2>1, <2>2
<1> HIDE DEF P, Q
<1>11. ASSUME NEW i \in 0 .. l - 1 PROVE P[i + 1] = x[k + i + 1] /\ Q[i + 1] = y[i + 1]
  <2>1. i + 1 \in 1 .. l /\ i \in 0 .. Len(t) - 1 /\ i \in Nat /\ i < Len(t)
    BY <1>0, <1>5
  <2>2. P[i + 1] = T[i + 1] /\ Q[i + 1] = Y[i + 1]
    BY <1>9, <1>10, <2>1
  <2>3. T[i + 1] = x[k + i + 1]
    BY <1>1, <1>6, <2>1
  <2>4. QED BY <1>7, <2>2, <2>3
<1>12. Difference(P, Q) = 0 <=> Same(P, Q)
  <2>1. ASSUME ~Same(P, Q) PROVE Difference(P, Q) # 0
    <3>1. PICK e \in Nat : Part(P, Q, e)
      BY <1>9, <1>10, <2>1, SameOrPart
    <3>2. QED BY <1>9, <1>10, <3>1, DifferenceIs
  <2>2. QED BY <1>9, <1>10, <2>1, DifferenceIs
<1>13. ASSUME Same(P, Q) PROVE Found(x, y, k)
  <2>1. ASSUME NEW i \in 0 .. l - 1 PROVE x[k + i + 1] = y[i + 1]
    <3>1. i + 1 \in 1 .. Len(P) /\ i + 1 <= Len(Q)
      BY <1>0, <1>9, <1>10
    <3>2. P[i + 1] = Q[i + 1]
      BY <1>13, <3>1 DEF Same
    <3>3. QED BY <1>11, <3>2
  <2>2. QED BY <2>1 DEF Found
<1>14. ASSUME Found(x, y, k) PROVE Same(P, Q)
  <2>1. ASSUME NEW j \in 1 .. Len(P) PROVE P[j] = Q[j]
    <3>1. PICK i : i = j - 1
      OBVIOUS
    <3>2. i \in 0 .. l - 1 /\ j = i + 1
      BY <1>0, <1>9, <3>1
    <3>3. x[k + i + 1] = y[i + 1]
      BY <1>14, <3>2 DEF Found
    <3>4. QED BY <1>11, <3>2, <3>3
  <2>2. QED BY <2>1 DEF Same
<1>15. QED BY <1>2, <1>4, <1>12, <1>13, <1>14

\* strnstr does so within n bytes of the string.
LEMMA StrnstrRight ==
  ASSUME NEW m, NEW s1, NEW x, NEW s2, NEW y, Strings2(m, s1, x, s2, y), NEW n \in Nat,
         n <= Len(x) \/ y = <<>>
  PROVE  strnstr(m, s1, s2, n).ret = Place(s1, Prefix(x, n), y)
<1>0. /\ m \in Memory /\ s1 \in Nat /\ Len(x) \in Nat /\ Len(y) \in Nat
      /\ x \in Seq(1 .. 255) /\ y \in Seq(1 .. 255)
  BY StringFacts
<1>1. strlen(m, s2).ret = Len(y)
  BY StrlenRight
<1> DEFINE P == Prefix(x, n)
<1>2. /\ P \in Seq(1 .. 255) /\ Len(P) = IF n <= Len(x) THEN n ELSE Len(x)
      /\ \A k \in 1 .. Len(P) : P[k] = x[k]
  BY <1>0, PrefixIs
<1> HIDE DEF P
<1>3. CASE y = <<>>
  <2>1. Len(y) = 0
    BY <1>3
  <2>2. strnstr(m, s1, s2, n).ret = s1
    BY <1>1, <2>1 DEF strnstr, Gives
  <2>3. Place(s1, P, y) = s1
    BY <1>0, <1>2, <1>3, EmptyPlace
  <2>4. QED BY <2>2, <2>3 DEF P
<1>4. CASE y # <<>>
  <2>0. Len(y) >= 1 /\ n <= Len(x) /\ Len(P) = n
    <3>1. Len(y) # 0
      BY <1>0, <1>4, EmptySeq
    <3>2. QED BY <1>0, <1>2, <1>4, <3>1
  <2> DEFINE hits == {p \in s1 .. s1 + n - Len(y) : strncmp(m, p, s2, Len(y)).ret = 0}
  <2>1. strnstr(m, s1, s2, n).ret = IF hits = {} THEN -1 ELSE Min(hits)
    <3>1. Len(y) # 0
      BY <1>0, <2>0
    <3>2. QED BY <1>1, <3>1 DEF strnstr, Gives
  <2>2. ASSUME NEW k \in Nat PROVE s1 + k \in hits <=> Found(P, y, k)
    <3>1. CASE k + Len(y) <= n
      <4>1. s1 + k \in s1 .. s1 + n - Len(y) /\ k + Len(y) <= Len(x)
        BY <1>0, <2>0, <3>1
      <4>2. strncmp(m, s1 + k, s2, Len(y)).ret = 0 <=> Found(x, y, k)
        BY <4>1, StandsAt
      <4>3. ASSUME NEW i \in 0 .. Len(y) - 1 PROVE P[k + i + 1] = x[k + i + 1]
        <5>1. k + i + 1 \in 1 .. Len(P)
          BY <1>0, <2>0, <3>1
        <5>2. QED BY <1>2, <5>1
      <4>4. Found(x, y, k) <=> Found(P, y, k)
        <5>1. Found(x, y, k) <=> \A i \in 0 .. Len(y) - 1 : x[k + i + 1] = y[i + 1]
          BY <4>1 DEF Found
        <5>2. Found(P, y, k) <=> \A i \in 0 .. Len(y) - 1 : P[k + i + 1] = y[i + 1]
          BY <2>0, <3>1 DEF Found
        <5>3. ASSUME NEW i \in 0 .. Len(y) - 1
              PROVE  x[k + i + 1] = y[i + 1] <=> P[k + i + 1] = y[i + 1]
          BY <4>3
        <5>4. QED BY <5>1, <5>2, <5>3, Zenon
      <4>5. QED BY <4>1, <4>2, <4>4
    <3>2. CASE ~(k + Len(y) <= n)
      <4>1. ~(s1 + k \in s1 .. s1 + n - Len(y))
        BY <1>0, <3>2
      <4>2. ~Found(P, y, k)
        BY <2>0, <3>2 DEF Found
      <4>3. QED BY <4>1, <4>2
    <3>3. QED BY <3>1, <3>2
  <2>3. ASSUME NEW p \in hits PROVE \E k \in Nat : p = s1 + k
    <3>1. p - s1 \in Nat /\ p = s1 + (p - s1)
      BY <1>0
    <3>2. QED BY <3>1
  <2> HIDE DEF hits
  <2>4. /\ (\A k \in Nat : ~Found(P, y, k)) => Place(s1, P, y) = -1
        /\ \A k \in Nat : Found(P, y, k) /\ (\A j \in 0 .. k - 1 : ~Found(P, y, j)) =>
             Place(s1, P, y) = s1 + k
    BY <1>0, <1>2, PlaceIs
  <2>5. CASE hits = {}
    <3>1. \A k \in Nat : ~Found(P, y, k)
      BY <2>2, <2>5
    <3>2. strnstr(m, s1, s2, n).ret = Place(s1, P, y)
      BY <2>1, <2>4, <2>5, <3>1
    <3>3. QED BY <3>2 DEF P
  <2>6. CASE hits # {}
    <3>1. hits \in SUBSET Nat
      BY <1>0, <2>3
    <3>2. Min(hits) \in hits /\ \A p \in hits : Min(hits) <= p
      BY <2>6, <3>1, MinOf
    <3>3. PICK k \in Nat : Min(hits) = s1 + k
      BY <2>3, <3>2
    <3>4. Found(P, y, k)
      BY <2>2, <3>2, <3>3
    <3>5. ASSUME NEW j \in 0 .. k - 1 PROVE ~Found(P, y, j)
      <4>1. j \in Nat /\ ~(s1 + k <= s1 + j)
        BY <1>0
      <4>2. ~(s1 + j \in hits)
        BY <3>2, <3>3, <4>1
      <4>3. QED BY <2>2, <4>1, <4>2
    <3>6. strnstr(m, s1, s2, n).ret = Place(s1, P, y)
      BY <2>1, <2>4, <2>6, <3>3, <3>4, <3>5
    <3>7. QED BY <3>6 DEF P
  <2>7. QED BY <2>5, <2>6
<1>5. QED BY <1>3, <1>4



-----------------------------------------------------------------------------
(* The functions that answer, whatever the strings.                        *)

\* The calls that answer.
Answering == {"strlen", "strnlen", "strcmp", "strncmp", "strcasecmp", "strncasecmp", "strchr",
              "strrchr", "strnchr", "strstr", "strnstr"}

\* Every step keeps StringAnswersRight.
LEMMA AnswersNext ==
  ASSUME CallInv, StringAnswersRight, [Next]_vars
  PROVE  StringAnswersRight'
<1>1. CASE StringCall
  <2>1. PICK x, y : Strings2(mem, args.s1, x, args.s2, y) /\ Apart(args.s1, x, args.s2, y)
    BY <1>1, StringMemory
  <2>2. PICK s1, s2 : s1 = args.s1 /\ s2 = args.s2
    OBVIOUS
  <2>3. Strings2(mem, s1, x, s2, y) /\ Apart(s1, x, s2, y)
    BY <2>1, <2>2
  <2>4. call'.before = mem /\ args'.s1 = s1 /\ args'.s2 = s2
    BY <1>1, <2>2, CallKeeps
  <2>5. StringAt(mem, s1) = x /\ StringAt(mem, s2) = y
    BY <2>3, StringAtIs DEF Strings2
  <2>6. StringAt(call'.before, args'.s1) = x /\ StringAt(call'.before, args'.s2) = y
    BY <2>4, <2>5
  <2>7. ASSUME NEW op, op \notin Answering, NEW more, NEW result, Call(op, more, result)
        PROVE  StringAnswersRight'
    <3>1. call'.op = op
      BY <2>7 DEF Call
    <3>2. QED BY <2>7, <3>1 DEF StringAnswersRight, Called, Answering
  <2>8. CASE Call("strlen", <<>>, strlen(mem, s1))
    <3>1. call'.op = "strlen" /\ call'.ret = strlen(mem, s1).ret
      BY <2>8 DEF Call
    <3>3. call'.ret = Len(x)
      BY <2>3, <2>4, <3>1, StrlenRight
    <3>4. QED BY <2>6, <3>1, <3>3 DEF StringAnswersRight, Called, Str
  <2>9. CASE Call("strcmp", <<>>, strcmp(mem, s1, s2))
    <3>1. call'.op = "strcmp" /\ call'.ret = strcmp(mem, s1, s2).ret
      BY <2>9 DEF Call
    <3>3. call'.ret = Difference(x \o <<0>>, y \o <<0>>)
      BY <2>3, <2>4, <3>1, StrcmpRight
    <3>4. QED BY <2>6, <3>1, <3>3 DEF StringAnswersRight, Called, Str
  <2>10. CASE Call("strcasecmp", <<>>, strcasecmp(mem, s1, s2))
    <3>1. call'.op = "strcasecmp" /\ call'.ret = strcasecmp(mem, s1, s2).ret
      BY <2>10 DEF Call
    <3>3. ~SameFolded(Folded(x \o <<0>>), Folded(y \o <<0>>)) => call'.ret = Difference(Folded(x \o <<0>>), Folded(y \o <<0>>))
      BY <2>3, <2>4, <3>1, StrcasecmpRight
    <3>4. QED BY <2>6, <3>1, <3>3 DEF StringAnswersRight, Called, Str
  <2>11. CASE Call("strstr", <<>>, strstr(mem, s1, s2))
    <3>1. call'.op = "strstr" /\ call'.ret = strstr(mem, s1, s2).ret
      BY <2>11 DEF Call
    <3>3. call'.ret = Place(args'.s1, x, y)
      BY <2>3, <2>4, <3>1, StrstrRight
    <3>4. QED BY <2>6, <3>1, <3>3 DEF StringAnswersRight, Called, Str
  <2>12. ASSUME NEW n \in Counts, Call("strnlen", <<n>>, strnlen(mem, s1, n))
        PROVE  StringAnswersRight'
    <3>1. call'.op = "strnlen" /\ call'.args[1] = n /\ call'.ret = strnlen(mem, s1, n).ret
      BY <2>12 DEF Call
    <3>2. n \in Nat
      BY BytesAssumption
    <3>3. call'.ret = Min({Len(x), n})
      BY <2>3, <2>4, <3>1, <3>2, StrnlenRight
    <3>4. QED BY <2>6, <3>1, <3>3 DEF StringAnswersRight, Called, Str
  <2>13. ASSUME NEW n \in Counts, Call("strncmp", <<n>>, strncmp(mem, s1, s2, n))
        PROVE  StringAnswersRight'
    <3>1. call'.op = "strncmp" /\ call'.args[1] = n /\ call'.ret = strncmp(mem, s1, s2, n).ret
      BY <2>13 DEF Call
    <3>2. n \in Nat
      BY BytesAssumption
    <3>3. call'.ret = Difference(Prefix(x \o <<0>>, n), Prefix(y \o <<0>>, n))
      BY <2>3, <2>4, <3>1, <3>2, StrncmpRight
    <3>4. QED BY <2>6, <3>1, <3>3 DEF StringAnswersRight, Called, Str
  <2>14. ASSUME NEW n \in Counts, Call("strncasecmp", <<n>>, strncasecmp(mem, s1, s2, n))
        PROVE  StringAnswersRight'
    <3>1. call'.op = "strncasecmp" /\ call'.args[1] = n /\ call'.ret = strncasecmp(mem, s1, s2, n).ret
      BY <2>14 DEF Call
    <3>2. n \in Nat
      BY BytesAssumption
    <3>02. StrncasecmpGives(mem, s1, x, s2, y)
      BY <2>3, StrncasecmpRight
    <3>3. n <= Min({Len(x \o <<0>>), Len(y \o <<0>>)}) \/ ~SameFolded(Folded(x \o <<0>>), Folded(y \o <<0>>)) =>
            call'.ret = Difference(Prefix(Folded(x \o <<0>>), n), Prefix(Folded(y \o <<0>>), n))
      BY <3>02, <3>1, <3>2 DEF StrncasecmpGives
    <3>4. QED BY <2>6, <3>1, <3>3 DEF StringAnswersRight, Called, Str
  <2>15. ASSUME NEW n \in Counts, Call("strnstr", <<n>>, strnstr(mem, s1, s2, n))
        PROVE  StringAnswersRight'
    <3>1. call'.op = "strnstr" /\ call'.args[1] = n /\ call'.ret = strnstr(mem, s1, s2, n).ret
      BY <2>15 DEF Call
    <3>2. n \in Nat
      BY BytesAssumption
    <3>3. n <= Len(x) \/ y = <<>> => call'.ret = Place(args'.s1, Prefix(x, n), y)
      BY <2>3, <2>4, <3>1, <3>2, StrnstrRight
    <3>4. QED BY <2>6, <3>1, <3>3 DEF StringAnswersRight, Called, Str
  <2>16. ASSUME NEW c \in Chars, Call("strchr", <<c>>, strchr(mem, s1, c))
        PROVE  StringAnswersRight'
    <3>1. call'.op = "strchr" /\ call'.args[1] = c /\ call'.ret = strchr(mem, s1, c).ret
      BY <2>16 DEF Call
    <3>2. c \in 0 .. 255
      BY BytesAssumption
    <3>02. ASSUME NEW b \in 0 .. 255
           PROVE  strchr(mem, s1, b).ret = IF b >= 128 THEN -1 ELSE Place(s1, x \o <<0>>, <<b>>)
      BY <2>3, StrchrRight, Zenon
    <3>03. strchr(mem, s1, c).ret = IF c >= 128 THEN -1 ELSE Place(s1, x \o <<0>>, <<c>>)
      BY <3>02, <3>2
    <3>3. call'.ret = IF c >= 128 THEN -1 ELSE Place(args'.s1, x \o <<0>>, <<c>>)
      BY <2>4, <3>03, <3>1
    <3>4. QED BY <2>6, <3>1, <3>3 DEF StringAnswersRight, Called, Str
  <2>17. ASSUME NEW c \in Chars, Call("strrchr", <<c>>, strrchr(mem, s1, c))
        PROVE  StringAnswersRight'
    <3>1. call'.op = "strrchr" /\ call'.args[1] = c /\ call'.ret = strrchr(mem, s1, c).ret
      BY <2>17 DEF Call
    <3>2. c \in 0 .. 255
      BY BytesAssumption
    <3>02. ASSUME NEW b \in 0 .. 255
           PROVE  strrchr(mem, s1, b).ret = LastPlace(s1, x \o <<0>>, b)
      BY <2>3, StrrchrRight
    <3>03. strrchr(mem, s1, c).ret = LastPlace(s1, x \o <<0>>, c)
      BY <3>02, <3>2
    <3>3. call'.ret = LastPlace(args'.s1, x \o <<0>>, c)
      BY <2>4, <3>03, <3>1
    <3>4. QED BY <2>6, <3>1, <3>3 DEF StringAnswersRight, Called, Str
  <2>18. ASSUME NEW n \in Counts, NEW c \in Chars, Call("strnchr", <<n, c>>, strnchr(mem, s1, n, c))
        PROVE  StringAnswersRight'
    <3>1. call'.op = "strnchr" /\ call'.args[1] = n /\ call'.args[2] = c /\ call'.ret = strnchr(mem, s1, n, c).ret
      BY <2>18 DEF Call
    <3>2. n \in Nat /\ c \in 0 .. 255
      BY BytesAssumption
    <3>02. \A i \in Nat, b \in 0 .. 255 :
             /\ strnchr(mem, s1, i, b).ret = Place(s1, Prefix(x \o <<0>>, i), <<b>>)
             /\ strnchr(mem, s1, i, b).reads \subseteq Held(s1, x, s2, y)
      BY <2>3, StrnchrRight, Zenon
    <3>03. strnchr(mem, s1, n, c).ret = Place(s1, Prefix(x \o <<0>>, n), <<c>>)
      BY <3>02, <3>2, Zenon
    <3>3. call'.ret = Place(args'.s1, Prefix(x \o <<0>>, n), <<c>>)
      BY <2>4, <3>03, <3>1
    <3>4. QED BY <2>6, <3>1, <3>3 DEF StringAnswersRight, Called, Str
  <2>19. /\ "strcpy" \notin Answering /\ "strcat" \notin Answering /\ "strncpy" \notin Answering
         /\ "strncat" \notin Answering /\ "strlcpy" \notin Answering /\ "strlcat" \notin Answering
    BY DEF Answering
  <2>20. QED
    <3> DEFINE Goal == StringAnswersRight'
    <3> SUFFICES Goal
      OBVIOUS
    <3> HIDE DEF Goal
    <3>1. ASSUME NEW op, op \notin Answering, NEW more, NEW result, Call(op, more, result)
          PROVE  Goal
      BY <2>7, <3>1 DEF Goal
    <3>2. CASE \/ Call("strlen", <<>>, strlen(mem, s1))
               \/ Call("strcmp", <<>>, strcmp(mem, s1, s2))
               \/ Call("strcasecmp", <<>>, strcasecmp(mem, s1, s2))
               \/ Call("strstr", <<>>, strstr(mem, s1, s2))
      BY <2>8, <2>9, <2>10, <2>11, <3>2 DEF Goal
    <3>3. ASSUME NEW n \in Counts,
                 \/ Call("strnlen", <<n>>, strnlen(mem, s1, n))
                 \/ Call("strncmp", <<n>>, strncmp(mem, s1, s2, n))
                 \/ Call("strncasecmp", <<n>>, strncasecmp(mem, s1, s2, n))
                 \/ Call("strnstr", <<n>>, strnstr(mem, s1, s2, n))
          PROVE  Goal
      BY <2>12, <2>13, <2>14, <2>15, <3>3 DEF Goal
    <3>4. ASSUME NEW c \in Chars,
                 \/ Call("strchr", <<c>>, strchr(mem, s1, c))
                 \/ Call("strrchr", <<c>>, strrchr(mem, s1, c))
          PROVE  Goal
      BY <2>16, <2>17, <3>4 DEF Goal
    <3>5. ASSUME NEW n \in Counts, NEW c \in Chars,
                 \/ Call("strnchr", <<n, c>>, strnchr(mem, s1, n, c))
          PROVE  Goal
      BY <2>18, <3>5 DEF Goal
    <3>6. QED BY <1>1, <2>2, <2>19, <3>1, <3>2, <3>3, <3>4, <3>5, StringKinds, Zenon
<1>2. CASE BlockCall
  <2>1. call'.op \in {"memcpy", "memmove", "memcmp", "memset"}
    BY <1>2, BlockCalls
  <2>2. QED BY <2>1 DEF StringAnswersRight, Called
<1>3. CASE UNCHANGED vars
  <2>1. call' = call /\ args' = args
    BY <1>3 DEF vars
  <2>2. StringAnswersRight' = StringAnswersRight
    BY <2>1 DEF StringAnswersRight, Called, Str
  <2>3. QED BY <2>2
<1>4. QED BY <1>1, <1>2, <1>3 DEF Next

\* Whatever the strings, their alignment, the size of a word, the character and the
\* count, the lengths, comparisons and searches of string.cpp give what they promise,
\* but for the three exceptions that StringAnswersRight names (string.cpp:16-49,
\* 166-342).
THEOREM AnswersCorrect == Spec => []StringAnswersRight
<1>1. Init => StringAnswersRight
  BY DEF Init, StringAnswersRight, Called, NoCall
<1>2. CallInv /\ StringAnswersRight /\ [Next]_vars => CallInv' /\ StringAnswersRight'
  BY CallNext, AnswersNext
<1>3. QED BY <1>1, <1>2, CallInit, PTL DEF Spec



-----------------------------------------------------------------------------
(* What the string functions read, whatever the strings.                   *)

\* The calls that stay in the words of the strings.
Staying == {"strlen", "strnlen", "strcpy", "strncpy", "strlcpy", "strcat", "strncat", "strlcat",
            "strncmp", "strchr", "strrchr", "strnchr", "strstr"}

\* What strchr reads, of StrchrRight.
LEMMA StrchrReads ==
  ASSUME NEW m, NEW s1, NEW x, NEW s2, NEW y, Strings2(m, s1, x, s2, y), NEW c \in 0 .. 255
  PROVE  strchr(m, s1, c).reads \subseteq Held(s1, x, s2, y)
BY StrchrRight, Zenon

\* Every step keeps ReadsInWords.
LEMMA ReadsNext ==
  ASSUME CallInv, ReadsInWords, [Next]_vars
  PROVE  ReadsInWords'
<1>1. CASE StringCall
  <2>1. PICK x, y : Strings2(mem, args.s1, x, args.s2, y) /\ Apart(args.s1, x, args.s2, y)
    BY <1>1, StringMemory
  <2>2. PICK s1, s2 : s1 = args.s1 /\ s2 = args.s2
    OBVIOUS
  <2>3. Strings2(mem, s1, x, s2, y) /\ Apart(s1, x, s2, y)
    BY <2>1, <2>2
  <2>4. call'.before = mem /\ args'.s1 = s1 /\ args'.s2 = s2
    BY <1>1, <2>2, CallKeeps
  <2>5. StringAt(mem, s1) = x /\ StringAt(mem, s2) = y
    BY <2>3, StringAtIs DEF Strings2
  <2>6. StringAt(call'.before, args'.s1) = x /\ StringAt(call'.before, args'.s2) = y
    BY <2>4, <2>5
  <2> DEFINE words == Held(s1, x, s2, y)
  <2>7. ASSUME NEW op \in Staying, NEW more, NEW result, Call(op, more, result),
               result.reads \subseteq words
        PROVE  ReadsInWords'
    <3>1. call'.op = op /\ call'.reads = result.reads /\ op # "strcasecmp" /\ op # "strcmp"
      BY <2>7 DEF Call, Staying
    <3>2. call'.reads \subseteq WordsOf(args'.s1, Len(x)) \cup WordsOf(args'.s2, Len(y))
      BY <2>4, <2>7, <3>1 DEF Held
    <3>3. QED BY <2>6, <3>1, <3>2 DEF ReadsInWords, Called, Str
  <2>8. ASSUME NEW op \in {"strnstr", "strncasecmp"}, NEW more, NEW result, Call(op, more, result)
        PROVE  ReadsInWords'
    <3>1. call'.op = op
      BY <2>8 DEF Call
    <3>2. QED BY <3>1 DEF ReadsInWords, Called
  <2>9. CASE Call("strcmp", <<>>, strcmp(mem, s1, s2))
    <3>1. call'.op = "strcmp" /\ call'.reads = strcmp(mem, s1, s2).reads
      BY <2>9 DEF Call
    <3>2. call'.reads \subseteq words \cup (s2 .. s2 + Len(y) + WORD - 1)
      BY <2>3, <3>1, StrcmpRight
    <3>3. call'.reads \subseteq WordsOf(args'.s1, Len(x)) \cup WordsOf(args'.s2, Len(y))
                                 \cup (args'.s2 .. args'.s2 + Len(y) + WORD - 1)
      BY <2>4, <3>2 DEF Held
    <3>4. QED BY <2>6, <3>1, <3>3 DEF ReadsInWords, Called, Str
  <2>10. CASE Call("strcasecmp", <<>>, strcasecmp(mem, s1, s2))
    <3>1. call'.op = "strcasecmp" /\ call'.reads = strcasecmp(mem, s1, s2).reads
      BY <2>10 DEF Call
    <3>2. call'.reads \subseteq (args'.s1 .. args'.s1 + Len(x)) \cup (args'.s2 .. args'.s2 + Len(y))
            <=> ~SameFolded(Folded(x \o <<0>>), Folded(y \o <<0>>))
      BY <2>3, <2>4, <3>1, StrcasecmpRight
    <3>3. QED BY <2>6, <3>1, <3>2 DEF ReadsInWords, Called, Str
  <2>11. strlen(mem, s1).reads \subseteq words
    BY <2>3, StrlenRight
  <2>12. strcpy(mem, s1, s2).reads \subseteq words
    BY <2>3, StrcpyRight
  <2>13. strcat(mem, s1, s2).reads \subseteq words
    BY <2>3, StrcatRight
  <2>14. strstr(mem, s1, s2).reads \subseteq words
    BY <2>3, StrstrRight
  <2>15. \A n \in Nat : strnlen(mem, s1, n).reads \subseteq words
    BY <2>3, StrnlenRight
  <2>16. \A n \in Nat : strncpy(mem, s1, s2, n).reads \subseteq words
    BY <2>3, StrncpyRight
  <2>17. \A n \in Nat : strlcpy(mem, s1, s2, n).reads \subseteq words
    BY <2>3, StrlcpyRight
  <2>18. \A n \in Nat : strncat(mem, s1, s2, n).reads \subseteq words
    BY <2>3, StrncatRight
  <2>19. \A n \in Nat : strlcat(mem, s1, s2, n).reads \subseteq words
    BY <2>3, StrlcatRight
  <2>20. \A n \in Nat : strncmp(mem, s1, s2, n).reads \subseteq words
    BY <2>3, StrncmpRight
  <2>21. \A c \in 0 .. 255 : strchr(mem, s1, c).reads \subseteq words
    BY <2>3, StrchrReads, Zenon
  <2>22. \A c \in 0 .. 255 : strrchr(mem, s1, c).reads \subseteq words
    BY <2>3, StrrchrRight
  <2>23. \A n \in Nat, c \in 0 .. 255 : strnchr(mem, s1, n, c).reads \subseteq words
    <3>1. \A n \in Nat, c \in 0 .. 255 :
            /\ strnchr(mem, s1, n, c).ret = Place(s1, Prefix(x \o <<0>>, n), <<c>>)
            /\ strnchr(mem, s1, n, c).reads \subseteq Held(s1, x, s2, y)
      BY <2>3, StrnchrRight, Zenon
    <3>2. QED BY <3>1, Zenon
  <2>24. (\A n \in Counts : n \in Nat) /\ (\A c \in Chars : c \in 0 .. 255)
    BY BytesAssumption
  <2>25. QED
    <3> DEFINE Goal == ReadsInWords'
    <3> SUFFICES Goal
      OBVIOUS
    <3> HIDE DEF Goal, words
    <3>1. ASSUME NEW op \in Staying, NEW more, NEW result, Call(op, more, result),
                 result.reads \subseteq words
          PROVE  Goal
      BY <2>7, <3>1 DEF Goal
    <3>2. /\ "strlen" \in Staying /\ "strcpy" \in Staying /\ "strcat" \in Staying
          /\ "strstr" \in Staying /\ "strnlen" \in Staying /\ "strncpy" \in Staying
          /\ "strlcpy" \in Staying /\ "strncat" \in Staying /\ "strlcat" \in Staying
          /\ "strncmp" \in Staying /\ "strchr" \in Staying /\ "strrchr" \in Staying /\ "strnchr" \in Staying
      BY DEF Staying
    <3>3. CASE \/ Call("strlen", <<>>, strlen(mem, s1))
               \/ Call("strcpy", <<>>, strcpy(mem, s1, s2))
               \/ Call("strcat", <<>>, strcat(mem, s1, s2))
               \/ Call("strstr", <<>>, strstr(mem, s1, s2))
      BY <2>11, <2>12, <2>13, <2>14, <3>1, <3>2, <3>3, Zenon
    <3>4. ASSUME NEW n \in Counts,
                 \/ Call("strnlen", <<n>>, strnlen(mem, s1, n))
                 \/ Call("strncpy", <<n>>, strncpy(mem, s1, s2, n))
                 \/ Call("strlcpy", <<n>>, strlcpy(mem, s1, s2, n))
                 \/ Call("strncat", <<n>>, strncat(mem, s1, s2, n))
                 \/ Call("strlcat", <<n>>, strlcat(mem, s1, s2, n))
                 \/ Call("strncmp", <<n>>, strncmp(mem, s1, s2, n))
          PROVE  Goal
      BY <2>15, <2>16, <2>17, <2>18, <2>19, <2>20, <2>24, <3>1, <3>2, <3>4, Zenon
    <3>5. ASSUME NEW c \in Chars,
                 \/ Call("strchr", <<c>>, strchr(mem, s1, c))
                 \/ Call("strrchr", <<c>>, strrchr(mem, s1, c))
          PROVE  Goal
      BY <2>21, <2>22, <2>24, <3>1, <3>2, <3>5, Zenon
    <3>6. ASSUME NEW n \in Counts, NEW c \in Chars, Call("strnchr", <<n, c>>, strnchr(mem, s1, n, c))
          PROVE  Goal
      BY <2>23, <2>24, <3>1, <3>2, <3>6, Zenon
    <3>7. CASE \/ Call("strcmp", <<>>, strcmp(mem, s1, s2))
               \/ Call("strcasecmp", <<>>, strcasecmp(mem, s1, s2))
      BY <2>9, <2>10, <3>7 DEF Goal
    <3>8. ASSUME NEW n \in Counts,
                 \/ Call("strnstr", <<n>>, strnstr(mem, s1, s2, n))
                 \/ Call("strncasecmp", <<n>>, strncasecmp(mem, s1, s2, n))
          PROVE  Goal
      BY <2>8, <3>8 DEF Goal
    <3>9. QED BY <1>1, <2>2, <3>3, <3>4, <3>5, <3>6, <3>7, <3>8, StringKinds, Zenon
<1>2. CASE BlockCall
  <2>1. call'.op \in {"memcpy", "memmove", "memcmp", "memset"}
    BY <1>2, BlockCalls
  <2>2. QED BY <2>1 DEF ReadsInWords, Called
<1>3. CASE UNCHANGED vars
  <2>1. call' = call /\ args' = args
    BY <1>3 DEF vars
  <2>2. ReadsInWords' = ReadsInWords
    BY <2>1 DEF ReadsInWords, Called, Str
  <2>3. QED BY <2>2
<1>4. QED BY <1>1, <1>2, <1>3 DEF Next

\* Whatever the strings, their alignment and the size of a word, the string functions
\* read no byte outside the aligned words that hold their strings, but for the two
\* exceptions that ReadsInWords names (string.cpp:16-342).
THEOREM ReadsCorrect == Spec => []ReadsInWords
<1>1. Init => ReadsInWords
  BY DEF Init, ReadsInWords, Called, NoCall
<1>2. CallInv /\ ReadsInWords /\ [Next]_vars => CallInv' /\ ReadsInWords'
  BY CallNext, ReadsNext
<1>3. QED BY <1>1, <1>2, CallInit, PTL DEF Spec
=============================================================================
