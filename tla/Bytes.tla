-------------------------------- MODULE Bytes --------------------------------
(***************************************************************************)
(* The functions of src/string/src/string.cpp and src/memory/src/          *)
(* mem_op.cpp over a memory of bytes.                                      *)
(*                                                                         *)
(* An address is an index into mem.  A function is an operator that gives  *)
(* the memory it leaves, what it returns and the addresses it reads; a     *)
(* pointer it walks to a condition is First (byte by byte) or FirstWord    *)
(* (word by word), and an address of -1 is nullptr.  A walk that finds no  *)
(* end within the memory has run off it, to address M.                     *)
(***************************************************************************)
EXTENDS Integers, SequencesExt, FiniteSetsExt

CONSTANTS
  WORD,       \* sizeof(size_t), a power of two
  SMALL,      \* the count below which mem_op.cpp goes byte by byte (8)
  R,          \* each of the two strings has a region of R bytes
  Strings,    \* the strings calls are made with, without their NUL
  Filler,     \* what lies around the strings
  Blocks,     \* memories for memset, memcpy, memmove and memcmp
  Chars,      \* characters looked for
  Counts      \* counts and sizes given to the string functions

M == 2 * R

ASSUME BytesAssumption ==
  /\ WORD \in Nat \ {0} /\ R \in Nat /\ R % WORD = 0
  /\ SMALL \in Nat /\ SMALL >= WORD
  /\ Strings \subseteq Seq(1 .. 255) /\ Filler \in 1 .. 255
  /\ Blocks \subseteq [0 .. M - 1 -> 0 .. 255]
  /\ Chars \subseteq 0 .. 255 /\ Counts \subseteq Nat

\* What a caller of string.cpp guarantees: a region has room for both strings and
\* for every count, wherever in a word they start.
ASSUME RoomAssumption ==
  /\ \A x, y \in Strings : WORD + Len(x) + Len(y) <= R
  /\ \A n \in Counts : WORD + n <= R

VARIABLES mem, args, call

vars == <<mem, args, call>>

\* Where a walk from p, byte by byte or word by word, comes to an address of S.
First(p, S) == Min({q \in S : q >= p} \cup {M})
FirstWord(p, S) == Min({q \in S : q >= p /\ (q - p) % WORD = 0 /\ q + WORD <= M} \cup {M})

\* Addresses: those of the bytes of B; those p where the bytes at s1 and s2 are no
\* longer the same, or s2 has left the memory.
Holding(m, B) == {p \in DOMAIN m : m[p] \in B}
Zeros(m) == Holding(m, {0})
Differing(m, s1, s2) ==
  {p \in DOMAIN m : s2 + (p - s1) \in DOMAIN m => m[p] # m[s2 + (p - s1)]}
Aligned == {p \in 0 .. M - 1 : p % WORD = 0}

\* The memory with the n bytes at src also at dest.
Copied(m, dest, src, n) ==
  [a \in DOMAIN m |-> IF a \in dest .. dest + n - 1 THEN m[src + (a - dest)] ELSE m[a]]

\* The memory with the bytes of s at dest.
Put(m, dest, s) ==
  [a \in DOMAIN m |-> IF a \in dest .. dest + Len(s) - 1 THEN s[a - dest + 1] ELSE m[a]]

Gives(m, ret, reads) == [mem |-> m, ret |-> ret, reads |-> reads]

-----------------------------------------------------------------------------
(* string.cpp.                                                             *)

\* ((x - ones) & ~x & highs) != 0 for the word at p, whose lowest byte comes
\* first: some byte is below 0x80 and becomes at least 0x80 when 1 and the
\* borrow of the byte before are taken from it.  A 0 borrows, and a 1 passes a
\* borrow on.
has_zero(m, p) ==
  LET borrow(i) ==
        IF \E j \in 0 .. i - 1 : m[p + j] = 0 /\ \A k \in j + 1 .. i - 1 : m[p + k] = 1
          THEN 1 ELSE 0
  IN \E i \in 0 .. WORD - 1 : m[p + i] < 128 /\ (m[p + i] - 1 - borrow(i)) % 256 >= 128

ZeroWords(m) == {p \in 0 .. M - WORD : has_zero(m, p)}

\* How strlen and strcpy reach the end of a string: bytes up to an aligned
\* address, words without a NUL, bytes again.
\* Mutant: the words start where the string does.
word_walk_unaligned(m, s) ==
  LET word == FirstWord(s, ZeroWords(m))
      end  == First(word, Zeros(m))
  IN [end |-> end, last |-> Max({end, word + WORD - 1})]

word_walk(m, s) ==
  LET head == First(s, Aligned \cup Zeros(m))
      word == FirstWord(head, ZeroWords(m))
      end  == First(word, Zeros(m))
  IN IF head % WORD # 0
       THEN [end |-> head, last |-> head]
       ELSE [end |-> end, last |-> Max({end, word + WORD - 1})]

strlen(m, s) == LET w == word_walk(m, s) IN Gives(m, w.end - s, s .. w.last)

\* *es is read before maxlen is looked at.
strnlen(m, s, maxlen) ==
  LET es == Min({First(s, Zeros(m)), s + maxlen}) IN Gives(m, es - s, s .. es)

strcpy(m, dest, src) ==
  LET w == word_walk(m, src) IN
  Gives(Copied(m, dest, src, w.end - src + 1), dest, src .. w.last)

strncpy(m, dest, src, count) ==
  LET n == Min({First(src, Zeros(m)) - src, count}) IN
  Gives(Put(Copied(m, dest, src, n), dest + n, [k \in 1 .. count - n |-> 0]), dest,
        src .. src + Min({n, count - 1}))

\* Mutant: no room is kept for the NUL.
strlcpy_full(m, dest, src, size) ==
  LET nul == First(src, Zeros(m))
      n   == Min({nul - src, size})
  IN Gives(IF size = 0 THEN m ELSE Put(Copied(m, dest, src, n), dest + n, <<0>>),
           nul - src, src .. nul)

\* The result counts the whole source, which is read to its end.
strlcpy(m, dest, src, size) ==
  LET nul == First(src, Zeros(m))
      n   == Min({nul - src, size - 1})
  IN Gives(IF size = 0 THEN m ELSE Put(Copied(m, dest, src, n), dest + n, <<0>>),
           nul - src, src .. nul)

strcat(m, dest, src) ==
  LET tmp == First(dest, Zeros(m))
      nul == First(src, Zeros(m))
  IN Gives(Copied(m, tmp, src, nul - src + 1), dest, (dest .. tmp) \cup (src .. nul))

strncat(m, dest, src, count) ==
  LET tmp == First(dest, Zeros(m))
      n   == Min({First(src, Zeros(m)) - src, count})
  IN Gives(Put(Copied(m, tmp, src, n), tmp + n, <<0>>), dest,
           (dest .. tmp) \cup (src .. src + Min({n, count - 1})))

strlcat(m, dest, src, size) ==
  LET d    == Min({First(dest, Zeros(m)), dest + size})
      dlen == d - dest
      room == size - dlen
      slen == First(src, Zeros(m)) - src
      n    == Min({slen, room - 1})
  IN IF room = 0
       THEN Gives(m, dlen + strlen(m, src).ret, (dest .. d - 1) \cup strlen(m, src).reads)
       ELSE Gives(Put(Copied(m, d, src, n), d + n, <<0>>), dlen + slen,
                  (dest .. d) \cup (src .. src + slen))

\* s1 is read by aligned words.  The word of s2 is read only when that of s1
\* has no NUL, and need not be aligned.
strcmp(m, s1, s2) ==
  LET Other(p) == s2 + (p - s1)
      ends  == Zeros(m) \cup Differing(m, s1, s2)
      words == {p \in 0 .. M - WORD : \E i \in 0 .. WORD - 1 : p + i \in Differing(m, s1, s2)}
      head == First(s1, Aligned \cup ends)
      word == FirstWord(head, ZeroWords(m) \cup words)
      end  == IF head % WORD # 0 THEN head ELSE First(word, ends)
      last == IF head % WORD # 0 THEN head ELSE word + WORD - 1
  IN Gives(m, m[end] - m[Other(end)],
           (s1 .. last) \cup
             (s2 .. Other(IF head % WORD # 0 \/ has_zero(m, word) THEN end ELSE last)))

\* Mutant: the last byte is not compared.
strncmp_short(m, s1, s2, count) ==
  LET end == Min({First(s1, Zeros(m) \cup Differing(m, s1, s2)), s1 + count}) IN
  IF end >= s1 + count - 1
    THEN Gives(m, 0, (s1 .. end - 1) \cup (s2 .. s2 + count - 1))
    ELSE Gives(m, m[end] - m[s2 + (end - s1)], (s1 .. end) \cup (s2 .. s2 + (end - s1)))

strncmp(m, s1, s2, count) ==
  LET end == Min({First(s1, Zeros(m) \cup Differing(m, s1, s2)), s1 + count}) IN
  IF end = s1 + count
    THEN Gives(m, 0, (s1 .. end - 1) \cup (s2 .. s2 + count - 1))
    ELSE Gives(m, m[end] - m[s2 + (end - s1)], (s1 .. end) \cup (s2 .. s2 + (end - s1)))

\* c | 0x20, never 0.
fold(c) == IF (c \div 32) % 2 = 1 THEN c ELSE c + 32

\* The first place where the folded bytes differ; the code's other condition,
\* a folded byte of 0, never holds.
fold_differs(m, s1, s2) ==
  LET f == [p \in DOMAIN m |-> fold(m[p])] IN First(s1, Zeros(f) \cup Differing(f, s1, s2))

strcasecmp(m, s1, s2) ==
  LET end == fold_differs(m, s1, s2) IN
  IF s2 + (end - s1) = M THEN Gives(m, 0, (s1 .. end) \cup (s2 .. M))
  ELSE Gives(m, fold(m[end]) - fold(m[s2 + (end - s1)]), (s1 .. end) \cup (s2 .. s2 + (end - s1)))

strncasecmp(m, s1, s2, len) ==
  LET end == Min({fold_differs(m, s1, s2), s1 + len - 1}) IN
  IF len = 0 THEN Gives(m, 0, {})
  ELSE Gives(m, fold(m[end]) - fold(m[s2 + (end - s1)]), (s1 .. end) \cup (s2 .. s2 + (end - s1)))

\* char is signed on the targets of memory.h.
signed(b) == IF b >= 128 THEN b - 256 ELSE b

\* *s is a char and ch an unsigned char: no byte from 0x80 on is equal to it.
strchr(m, s, c) ==
  LET end == First(s, Holding(m, {b \in 0 .. 255 : b = 0 \/ signed(b) = c}))
  IN Gives(m, IF signed(m[end]) = c THEN end ELSE -1, s .. end)

strrchr(m, s, c) ==
  LET nul  == First(s, Zeros(m))
      hits == {p \in s .. nul : signed(m[p]) = signed(c)}
  IN Gives(m, IF hits = {} THEN -1 ELSE Max(hits), s .. nul)

strnchr(m, s, count, c) ==
  LET end == Min({First(s, Holding(m, {0, c})), s + count}) IN
  IF end < s + count
    THEN Gives(m, IF m[end] = c THEN end ELSE -1, s .. end)
    ELSE Gives(m, -1, s .. end - 1)

\* Every place with l2 of the len bytes left is tried, behind a NUL too.
strnstr(m, s1, s2, len) ==
  LET l2   == strlen(m, s2)
      hits == {p \in s1 .. s1 + len - l2.ret : strncmp(m, p, s2, l2.ret).ret = 0}
      last == IF hits = {} THEN s1 + len - l2.ret ELSE Min(hits)
  IN IF l2.ret = 0 THEN Gives(m, s1, l2.reads)
     ELSE Gives(m, IF hits = {} THEN -1 ELSE last,
                l2.reads \cup UNION {strncmp(m, p, s2, l2.ret).reads : p \in s1 .. last})

\* The inner loop of strstr: it ends at the end of the needle or at a difference.
match_end(m, h, needle) == First(needle + 1, Zeros(m) \cup Differing(m, needle, h))

\* What it reads: the byte of the haystack is not read at the needle's end.
match_reads(m, h, needle) ==
  LET n == match_end(m, h, needle) IN
  (needle .. n) \cup (h .. h + (n - needle) - (IF m[n] = 0 THEN 1 ELSE 0))

strstr(m, haystack, needle) ==
  LET matches == {h \in DOMAIN m : m[h] = m[needle] /\ m[match_end(m, h, needle)] = 0}
      end     == First(haystack, Zeros(m) \cup matches)
      tried   == {p \in haystack .. end : m[p] = m[needle]}
  IN IF m[needle] = 0 THEN Gives(m, haystack, {needle})
     ELSE Gives(m, IF m[end] = 0 THEN -1 ELSE end,
                (haystack .. end) \cup {needle} \cup UNION {match_reads(m, p, needle) : p \in tried})

-----------------------------------------------------------------------------
(* mem_op.cpp: the accesses a function makes, in their order, as pieces    *)
(* [at, size] relative to its arguments, made one after the other.         *)

Each(at, n)  == [k \in 1 .. n |-> [at |-> at + k - 1, size |-> 1]]
Words(at, n) == [k \in 1 .. n |-> [at |-> at + (k - 1) * WORD, size |-> WORD]]

\* Bytes until d is aligned, words, the bytes that remain.
upward(d, count) ==
  IF count < SMALL THEN Each(0, count)
  ELSE LET align == (-d) % WORD
           n     == (count - align) \div WORD
       IN Each(0, align) \o Words(align, n) \o Each(align + n * WORD, (count - align) % WORD)

\* The same from the end of the destination.
downward(d, count) ==
  IF count < SMALL THEN Reverse(Each(0, count))
  ELSE LET align == (d + count) % WORD
           n     == (count - align) \div WORD
           rest  == (count - align) % WORD
       IN Reverse(Each(0, rest) \o Words(rest, n) \o Each(rest + n * WORD, align))

\* The bytes of the pattern word are all b.
memset(m, s, b, count) ==
  LET pieces == upward(s, count)
      after[k \in 0 .. Len(pieces)] ==
        IF k = 0 THEN m
        ELSE Put(after[k - 1], s + pieces[k].at, [j \in 1 .. pieces[k].size |-> b])
  IN Gives(after[Len(pieces)], s, {})

\* A piece is read as a whole before it is written.
move(m, dest, src, pieces) ==
  LET after[k \in 0 .. Len(pieces)] ==
        IF k = 0 THEN m
        ELSE Copied(after[k - 1], dest + pieces[k].at, src + pieces[k].at, pieces[k].size)
  IN after[Len(pieces)]

memcpy(m, dest, src, count) ==
  Gives(move(m, dest, src, upward(dest, count)), dest, src .. src + count - 1)

\* Mutant: a destination behind the source is not told apart.
memmove_upward(m, dest, src, count) ==
  Gives(move(m, dest, src, upward(dest, count)), dest, src .. src + count - 1)

memmove(m, dest, src, count) ==
  IF dest = src \/ count = 0 THEN Gives(m, dest, {})
  ELSE Gives(move(m, dest, src, IF dest > src /\ dest < src + count THEN downward(dest, count)
                                                                    ELSE upward(dest, count)),
             dest, src .. src + count - 1)

\* The first piece that differs is searched for its first byte that does.
memcmp(m, cs, ct, count) ==
  LET pieces     == upward(cs, count)
      Differs(i) == m[cs + i] # m[ct + i]
      Piece(c)   == c.at .. c.at + c.size - 1
      unequal    == {k \in DOMAIN pieces : \E i \in Piece(pieces[k]) : Differs(i)}
      i          == Min({j \in Piece(pieces[Min(unequal)]) : Differs(j)})
  IN Gives(m, IF unequal = {} THEN 0 ELSE m[cs + i] - m[ct + i],
           (cs .. cs + count - 1) \cup (ct .. ct + count - 1))

-----------------------------------------------------------------------------
(* The caller: one call, on two strings or on a block of memory.           *)

NoCall == [op |-> "none"]

\* Strings x and y, starting at any place in a word of their regions.
Layout(x, a, y, b) == Put(Put([p \in 0 .. M - 1 |-> Filler], a, x \o <<0>>), R + b, y \o <<0>>)

Init ==
  /\ call = NoCall
  /\ \/ \E x, y \in Strings, a, b \in 0 .. WORD - 1 :
          /\ mem = Layout(x, a, y, b)
          /\ args = [kind |-> "strings", s1 |-> a, s2 |-> R + b]
     \/ /\ mem \in Blocks
        /\ args = [kind |-> "block"]

Call(op, more, result) ==
  /\ mem' = result.mem
  /\ call' = [op |-> op, args |-> more, before |-> mem, ret |-> result.ret, reads |-> result.reads]
  /\ UNCHANGED args

\* s1 is the destination, the first operand or the haystack.
StringCall ==
  LET s1 == args.s1  s2 == args.s2  m == mem IN
  /\ call = NoCall /\ args.kind = "strings"
  /\ \/ Call("strlen", <<>>, strlen(m, s1))
     \/ Call("strcpy", <<>>, strcpy(m, s1, s2))
     \/ Call("strcat", <<>>, strcat(m, s1, s2))
     \/ Call("strcmp", <<>>, strcmp(m, s1, s2))
     \/ Call("strcasecmp", <<>>, strcasecmp(m, s1, s2))
     \/ Call("strstr", <<>>, strstr(m, s1, s2))
     \/ \E n \in Counts :
          \/ Call("strnlen", <<n>>, strnlen(m, s1, n))
          \/ Call("strncpy", <<n>>, strncpy(m, s1, s2, n))
          \/ Call("strlcpy", <<n>>, strlcpy(m, s1, s2, n))
          \/ Call("strncat", <<n>>, strncat(m, s1, s2, n))
          \/ Call("strlcat", <<n>>, strlcat(m, s1, s2, n))
          \/ Call("strncmp", <<n>>, strncmp(m, s1, s2, n))
          \/ Call("strncasecmp", <<n>>, strncasecmp(m, s1, s2, n))
          \/ Call("strnstr", <<n>>, strnstr(m, s1, s2, n))
     \/ \E c \in Chars :
          \/ Call("strchr", <<c>>, strchr(m, s1, c))
          \/ Call("strrchr", <<c>>, strrchr(m, s1, c))
          \/ \E n \in Counts : Call("strnchr", <<n, c>>, strnchr(m, s1, n, c))

\* memcpy is called on blocks that do not overlap.
BlockCall ==
  /\ call = NoCall /\ args.kind = "block"
  /\ \E dest, src \in 0 .. M - 1 :
       \E n \in 0 .. M - Max({dest, src}) :
         \/ /\ dest + n <= src \/ src + n <= dest
            /\ Call("memcpy", <<dest, src, n>>, memcpy(mem, dest, src, n))
         \/ Call("memmove", <<dest, src, n>>, memmove(mem, dest, src, n))
         \/ Call("memcmp", <<dest, src, n>>, memcmp(mem, dest, src, n))
         \/ src = 0 /\ Call("memset", <<dest, n>>, memset(mem, dest, 255, n))

Next == StringCall \/ BlockCall

Spec == Init /\ [][Next]_vars
-----------------------------------------------------------------------------
(* Properties.                                                             *)

Called(op) == call.op = op

\* The string at p, the strings of the call before it was made.
StringAt(m, p) == LET nul == Min({q \in p .. M - 1 : m[q] = 0}) IN
                  [k \in 1 .. nul - p |-> m[p + k - 1]]
Str(p) == StringAt(call.before, p)

\* The first n elements of s.
Prefix(s, n) == SubSeq(s, 1, Min({n, Len(s)}))

\* The address of the first place of the string at p where s stands, -1 if none.
Place(p, t, s) ==
  LET at == {k \in 0 .. Len(t) - Len(s) : SubSeq(t, k + 1, k + Len(s)) = s}
  IN IF at = {} THEN -1 ELSE p + Min(at)

\* The address of the last c of the string at p, -1 if none.
LastPlace(p, t, c) == Max({p + k - 1 : k \in {j \in DOMAIN t : t[j] = c}} \cup {-1})

\* The difference of the first unequal bytes of two strings with their NULs.
Difference(s, t) ==
  LET at == {k \in 1 .. Min({Len(s), Len(t)}) : s[k] # t[k]}
  IN IF at = {} THEN 0 ELSE s[Min(at)] - t[Min(at)]

\* Whatever the alignment of the two strings, what the copying functions leave in
\* memory and return is what their C namesakes promise: the destination ends in a
\* NUL where the size allows, the bytes behind it are untouched, strlcpy and strlcat
\* return the length they tried for (string.cpp:51-164).
CopiesRight ==
  LET x == Str(args.s1)  y == Str(args.s2)  n == call.args[1]
      end == args.s1 + Len(x)
      Left(at, s) == mem = Put(call.before, at, s)
  IN
  /\ Called("strcpy") => Left(args.s1, y \o <<0>>)
  /\ Called("strcat") => Left(end, y \o <<0>>)
  /\ Called("strncpy") =>
       Left(args.s1, [k \in 1 .. n |-> IF k <= Len(y) THEN y[k] ELSE 0])
  /\ Called("strncat") => Left(end, Prefix(y, n) \o <<0>>)
  /\ Called("strlcpy") =>
       /\ Left(args.s1, IF n = 0 THEN <<>> ELSE Prefix(y, n - 1) \o <<0>>)
       /\ call.ret = Len(y)
  /\ Called("strlcat") =>
       /\ Left(end, IF n <= Len(x) THEN <<>> ELSE Prefix(y, n - Len(x) - 1) \o <<0>>)
       /\ call.ret = Min({Len(x), n}) + Len(y)

\* The bytes of a string with its NUL as the case functions compare them, and
\* whether they are the same as far as both strings go.
Folded(s) == [k \in DOMAIN s |-> fold(s[k])]
SameFolded(s, t) == Difference(s, t) = 0

\* Lengths, comparisons and searches give what their C namesakes promise, with three
\* exceptions: the functions that fold case are right only when the folded strings
\* differ before the shorter one ends (ReadsInWords says what happens otherwise),
\* strchr never finds a byte from 0x80 on, and strnstr looks behind the end of its
\* string (string.cpp:16-49, 166-342).
StringAnswersRight ==
  LET x == Str(args.s1)  y == Str(args.s2)  r == call.ret
      X == x \o <<0>>  Y == y \o <<0>>  n == call.args[1]
      FX == Folded(X)  FY == Folded(Y)
  IN
  /\ Called("strlen") => r = Len(x)
  /\ Called("strnlen") => r = Min({Len(x), n})
  /\ Called("strcmp") => r = Difference(X, Y)
  /\ Called("strncmp") => r = Difference(Prefix(X, n), Prefix(Y, n))
  /\ Called("strcasecmp") /\ ~SameFolded(FX, FY) => r = Difference(FX, FY)
  /\ Called("strncasecmp") /\ (n <= Min({Len(X), Len(Y)}) \/ ~SameFolded(FX, FY)) =>
       r = Difference(Prefix(FX, n), Prefix(FY, n))
  /\ Called("strchr") => r = IF n >= 128 THEN -1 ELSE Place(args.s1, X, <<n>>)
  /\ Called("strrchr") => r = LastPlace(args.s1, X, n)
  /\ Called("strnchr") => r = Place(args.s1, Prefix(X, n), <<call.args[2]>>)
  /\ Called("strstr") => r = Place(args.s1, x, y)
  /\ Called("strnstr") /\ (n <= Len(x) \/ y = <<>>) => r = Place(args.s1, Prefix(x, n), y)

\* The aligned words that hold a byte of the string of n bytes at p or its NUL.
WordsOf(p, n) == {a \in 0 .. M - 1 : a \div WORD \in {b \div WORD : b \in p .. p + n}}

\* Reading by words never leaves the words that hold the strings, so it cannot touch
\* a page they do not touch (string.cpp:29-37, 63-70, 178-192).  Two exceptions: the
\* second operand of strcmp is read up to WORD - 1 bytes behind its NUL, and
\* strcasecmp, which makes the NUL 0x20 before it looks for it, reads on behind the
\* NULs exactly when the folded strings are the same so far (string.cpp:210-219).
\* strncasecmp and strnstr also read behind the NULs, up to their length argument
\* (string.cpp:226-233, 296-302), and nothing is said of them here.
ReadsInWords ==
  LET x == Str(args.s1)  y == Str(args.s2)
      Bytes == (args.s1 .. args.s1 + Len(x)) \cup (args.s2 .. args.s2 + Len(y))
  IN
  /\ call.op \in {"strlen", "strnlen", "strcpy", "strncpy", "strlcpy", "strcat", "strncat",
                  "strlcat", "strcmp", "strncmp", "strchr", "strrchr", "strnchr", "strstr"} =>
       call.reads \subseteq
         WordsOf(args.s1, Len(x)) \cup WordsOf(args.s2, Len(y))
           \cup (IF Called("strcmp") THEN args.s2 .. args.s2 + Len(y) + WORD - 1 ELSE {})
  /\ Called("strcasecmp") =>
       (call.reads \subseteq Bytes <=> ~SameFolded(Folded(x \o <<0>>), Folded(y \o <<0>>)))

\* memset, memcpy and memmove leave exactly the bytes asked for, whatever the
\* alignment, the count and, for memmove, the overlap; memcmp gives the difference
\* of the first bytes that differ (mem_op.cpp).
BlocksRight ==
  LET old == call.before  d == call.args[1]  s == call.args[2]  n == call.args[3] IN
  /\ Called("memcpy") \/ Called("memmove") => mem = Copied(old, d, s, n) /\ call.ret = d
  /\ Called("memset") => mem = [a \in DOMAIN old |-> IF a \in d .. d + s - 1 THEN 255 ELSE old[a]]
  /\ Called("memcmp") =>
       LET at == {i \in 0 .. n - 1 : old[d + i] # old[s + i]} IN
       call.ret = IF at = {} THEN 0 ELSE old[d + Min(at)] - old[s + Min(at)]
=============================================================================
