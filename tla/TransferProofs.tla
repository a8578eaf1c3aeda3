--------------------------- MODULE TransferProofs ---------------------------
(***************************************************************************)
(* Theorems about the file protocol, for buffers, files and messages of    *)
(* any length: that no letter is lost or overtaken on the way, and that    *)
(* the receiver stays in step as long as each read returns one block.      *)
(***************************************************************************)
EXTENDS Transfer, FoldProofs

Chars == Seq(Nat)
Sizes == 1 .. BufferSize - 1
Buffers == [0 .. BufferSize - 1 -> Nat]

-----------------------------------------------------------------------------
(* Letters.                                                                *)

Mark(c) == IF c > NEWLINE THEN <<c>> ELSE <<>>
Marks(s) == [i \in DOMAIN s |-> Mark(s[i])]

(* Letters joins what Mark makes of every character, and returns           *)
(* characters.                                                             *)
LEMMA MarksType ==
  ASSUME NEW s \in Chars
  PROVE  /\ Marks(s) \in Seq(Seq(Nat)) /\ Letters(s) = FlattenSeq(Marks(s))
         /\ Letters(s) \in Chars
<1>1. \A c \in Nat : Mark(c) \in Seq(Nat)
  BY DEF Mark
<1>2. Marks(s) \in [1 .. Len(s) -> Seq(Nat)] /\ Len(s) \in Nat
  <2>1. DOMAIN s = 1 .. Len(s) /\ Len(s) \in Nat /\ \A i \in 1 .. Len(s) : s[i] \in Nat
    BY DEF Chars
  <2>2. QED
    BY <1>1, <2>1 DEF Marks
<1>3. Marks(s) \in Seq(Seq(Nat))
  BY <1>2
<1>4. Letters(s) = FlattenSeq(Marks(s))
  BY DEF Letters, Marks, Mark
<1>5. QED
  BY <1>3, <1>4, FlattenType DEF Chars

(* The marks of a sequence are as many as its members, place by place.     *)
LEMMA MarksAt ==
  ASSUME NEW s \in Chars
  PROVE  /\ Len(Marks(s)) = Len(s) /\ Len(s) \in Nat
         /\ \A i \in 1 .. Len(s) : Marks(s)[i] = Mark(s[i])
<1>1. DOMAIN s = 1 .. Len(s) /\ Len(s) \in Nat
  BY DEF Chars
<1>2. PICK p : p = Marks(s)
  OBVIOUS
<1>3. p \in Seq(Seq(Nat)) /\ DOMAIN p = 1 .. Len(s)
  BY <1>1, <1>2, MarksType DEF Marks
<1>4. Len(p) = Len(s)
  BY <1>1, <1>3
<1>5. QED
  BY <1>1, <1>2, <1>4 DEF Marks

(* The letters of one text after another are the letters of the one and    *)
(* then those of the other.                                                *)
LEMMA LettersCat ==
  ASSUME NEW s \in Chars, NEW t \in Chars
  PROVE  /\ Cat(s, t) \in Chars
         /\ Letters(Cat(s, t)) = Cat(Letters(s), Letters(t))
<1>1. PICK r : r = Cat(s, t)
  OBVIOUS
<1>2. /\ r \in Chars /\ Len(r) = Len(s) + Len(t) /\ Len(s) \in Nat /\ Len(t) \in Nat
      /\ \A i \in 1 .. Len(s) : r[i] = s[i]
      /\ \A i \in 1 .. Len(t) : r[Len(s) + i] = t[i]
  <2>1. s \in Seq(Nat) /\ t \in Seq(Nat) /\ Len(s) \in Nat /\ Len(t) \in Nat
    BY MarksAt DEF Chars
  <2>2. r \in Seq(Nat) /\ Len(r) = Len(s) + Len(t)
    BY <1>1, <2>1, CatType
  <2>3. \A i \in 1 .. Len(s) : r[i] = s[i]
    BY <1>1, <2>1, CatFirst
  <2>4. \A i \in 1 .. Len(t) : r[Len(s) + i] = t[i]
    BY <1>1, <2>1, CatSecond
  <2>5. QED
    BY <2>1, <2>2, <2>3, <2>4 DEF Chars
<1>3. PICK p, q, m : p = Marks(s) /\ q = Marks(t) /\ m = Marks(r)
  OBVIOUS
<1>4. /\ p \in Seq(Seq(Nat)) /\ q \in Seq(Seq(Nat)) /\ m \in Seq(Seq(Nat))
      /\ Letters(s) = FlattenSeq(p) /\ Letters(t) = FlattenSeq(q)
      /\ Letters(r) = FlattenSeq(m)
  BY <1>2, <1>3, MarksType
<1>5. /\ Len(p) = Len(s) /\ Len(q) = Len(t) /\ Len(m) = Len(r)
      /\ \A i \in 1 .. Len(s) : p[i] = Mark(s[i])
      /\ \A i \in 1 .. Len(t) : q[i] = Mark(t[i])
      /\ \A i \in 1 .. Len(r) : m[i] = Mark(r[i])
  BY <1>2, <1>3, MarksAt
<1>6. \A i \in 1 .. Len(p) : m[i] = p[i]
  <2>1. ASSUME NEW i \in 1 .. Len(s) PROVE i \in 1 .. Len(r)
    BY <1>2
  <2>2. QED
    BY <1>2, <1>5, <2>1
<1>7. \A i \in 1 .. Len(q) : m[Len(p) + i] = q[i]
  <2>1. ASSUME NEW i \in 1 .. Len(t) PROVE Len(s) + i \in 1 .. Len(r)
    BY <1>2
  <2>2. QED
    BY <1>2, <1>5, <2>1
<1>8. m = Cat(p, q)
  <2>1. Len(m) = Len(p) + Len(q)
    BY <1>2, <1>5
  <2>2. QED
    BY <1>4, <1>6, <1>7, <2>1, CatUnique, Zenon
<1>9. FlattenSeq(m) = Cat(FlattenSeq(p), FlattenSeq(q))
  BY <1>4, <1>8, FlattenCat
<1>10. QED
  BY <1>1, <1>2, <1>4, <1>9

(* A marker alone, a newline or a NUL, has no letters.                     *)
LEMMA LettersNone ==
  /\ Letters(<<>>) = <<>>
  /\ \A c \in Nat : c <= NEWLINE => Letters(<<c>>) = <<>>
<1>1. Marks(<<>>) = <<>> /\ <<>> \in Chars
  BY DEF Marks, Chars
<1>2. ASSUME NEW c \in Nat, c <= NEWLINE PROVE Letters(<<c>>) = <<>>
  <2>1. <<c>> \in Chars /\ Mark(c) = <<>>
    BY <1>2 DEF Chars, Mark, NEWLINE
  <2>2. Marks(<<c>>) = << <<>> >>
    BY <2>1 DEF Marks
  <2>3. <<>> \in Seq(Seq(Nat)) /\ <<>> \in Seq(Nat)
    OBVIOUS
  <2>4. Append(<<>>, <<>>) = << <<>> >>
    OBVIOUS
  <2>5. FlattenSeq(Append(<<>>, <<>>)) = FlattenSeq(<<>>) \o <<>>
    BY <2>3, FlattenAppend
  <2>6. FlattenSeq(<<>>) \o <<>> = <<>>
    BY FlattenEmpty
  <2>7. QED
    BY <2>1, <2>2, <2>4, <2>5, <2>6, MarksType
<1>3. QED
  BY <1>1, <1>2, MarksType, FlattenEmpty

-----------------------------------------------------------------------------
(* Lengths of lines and messages.                                          *)

(* The line that is read next ends at the first newline, or with the text. *)
LEMMA LineEnds ==
  ASSUME rest \in Chars
  PROVE  /\ LineLength \in Nat /\ LineLength <= Len(rest)
         /\ LineLength < Len(rest) => rest[LineLength + 1] = NEWLINE
<1> DEFINE S == {i \in 1 .. Len(rest) : rest[i] = NEWLINE} \cup {Len(rest) + 1}
<1>1. Len(rest) \in Nat
  BY DEF Chars
<1>2. S \in SUBSET Nat /\ S # {} /\ Len(rest) + 1 \in S
  BY <1>1
<1>3. \A x \in S : x \in 1 .. Len(rest) + 1
                   /\ (x # Len(rest) + 1 => rest[x] = NEWLINE)
  BY <1>1
<1>4. LineLength = Min(S) - 1
  BY DEF LineLength
<1> HIDE DEF S
<1>5. PICK m : m = Min(S)
  OBVIOUS
<1>6. m \in S
  BY <1>2, <1>5, LeastExists
<1>7. LineLength = m - 1
  BY <1>4, <1>5
<1>8. m \in 1 .. Len(rest) + 1 /\ (m # Len(rest) + 1 => rest[m] = NEWLINE)
  BY <1>3, <1>6
<1>9. QED
  BY <1>1, <1>7, <1>8

(* The first i of the sizes add up to sum[i], for i up to n.               *)
Adds(sum, sizes, n) ==
  sum = [i \in 0 .. n |-> IF i = 0 THEN 0 ELSE sum[i - 1] + sizes[i]]

Step(sum, sizes, k) == sum[k] = sum[k - 1] + sizes[k]

(* One equation of the sums, for a prover that need not see the function.  *)
LEMMA AddsStep ==
  ASSUME NEW n, n \in Nat, NEW sizes, NEW sum, Adds(sum, sizes, n), NEW k, k \in 1 .. n
  PROVE  Step(sum, sizes, k)
BY DEF Adds, Step

(* The sums of any n sizes exist, by induction over the numbers up to n.   *)
LEMMA SumsAlong ==
  ASSUME NEW n \in Nat, NEW sizes, \A i \in 1 .. n : sizes[i] \in Nat
  PROVE  \E sum \in [0 .. n -> Nat] : Adds(sum, sizes, n)
<1> DEFINE A == {k \in Nat : k <= n => \E sum \in [0 .. k -> Nat] : Adds(sum, sizes, k)}
<1>1. 0 \in A
  <2> DEFINE f == [i \in 0 .. 0 |-> 0]
  <2>1. f \in [0 .. 0 -> Nat] /\ Adds(f, sizes, 0)
    BY DEF Adds
  <2>2. QED
    BY <2>1
<1>2. ASSUME NEW k \in Nat, k \in A PROVE k + 1 \in A
  <2> SUFFICES ASSUME k + 1 <= n
               PROVE  \E sum \in [0 .. k + 1 -> Nat] : Adds(sum, sizes, k + 1)
    OBVIOUS
  <2>1. PICK f \in [0 .. k -> Nat] : Adds(f, sizes, k)
    BY <1>2
  <2> DEFINE g == [i \in 0 .. k + 1 |-> IF i = k + 1 THEN f[k] + sizes[k + 1] ELSE f[i]]
  <2>2. g \in [0 .. k + 1 -> Nat]
    <3>1. f[k] \in Nat /\ sizes[k + 1] \in Nat
      OBVIOUS
    <3>2. QED
      BY <3>1
  <2>3. ASSUME NEW i \in 0 .. k + 1
        PROVE  g[i] = IF i = 0 THEN 0 ELSE g[i - 1] + sizes[i]
    <3>1. CASE i = k + 1
      <4>1. g[i] = f[k] + sizes[k + 1] /\ i - 1 = k /\ g[k] = f[k]
        BY <3>1
      <4>2. QED
        BY <3>1, <4>1
    <3>2. CASE i # k + 1
      <4>1. i \in 0 .. k /\ g[i] = f[i]
        BY <3>2
      <4>2. i # 0 => g[i - 1] = f[i - 1]
        BY <4>1
      <4>3. f[i] = IF i = 0 THEN 0 ELSE f[i - 1] + sizes[i]
        BY <2>1, <4>1 DEF Adds
      <4>4. QED
        BY <4>1, <4>2, <4>3
    <3>3. QED
      BY <3>1, <3>2
  <2>4. Adds(g, sizes, k + 1)
    <3>1. g = [i \in 0 .. k + 1 |-> g[i]]
      OBVIOUS
    <3> HIDE DEF g
    <3>2. QED
      BY <2>3, <3>1 DEF Adds
  <2>5. QED
    BY <2>2, <2>4
<1>3. Nat \subseteq A
  <2> HIDE DEF A
  <2>1. QED
    BY <1>1, <1>2, SetInduction
<1>4. n \in A
  BY <1>3
<1>5. QED
  BY <1>4

(* And no two functions are the sums of the same sizes.                    *)
LEMMA SumsUnique ==
  ASSUME NEW n \in Nat, NEW sizes, NEW f, NEW g, Adds(f, sizes, n), Adds(g, sizes, n)
  PROVE  f[n] = g[n]
<1> DEFINE A == {i \in Nat : i <= n => f[i] = g[i]}
<1>1. 0 \in A
  BY DEF Adds
<1>2. ASSUME NEW i \in Nat, i \in A PROVE i + 1 \in A
  <2> SUFFICES ASSUME i + 1 <= n PROVE f[i + 1] = g[i + 1]
    OBVIOUS
  <2>1. PICK m : m = i + 1
    OBVIOUS
  <2>2. m \in 1 .. n /\ m - 1 = i
    BY <2>1
  <2>3. f[m] = f[m - 1] + sizes[m] /\ g[m] = g[m - 1] + sizes[m]
    BY <2>2 DEF Adds
  <2>4. f[i] = g[i]
    BY <1>2
  <2>5. QED
    BY <2>1, <2>2, <2>3, <2>4
<1>3. Nat \subseteq A
  <2> HIDE DEF A
  <2>1. QED
    BY <1>1, <1>2, SetInduction
<1>4. n \in A
  BY <1>3
<1>5. QED
  BY <1>4

(* Total is the last of the sums, and a number.                            *)
LEMMA Totals ==
  ASSUME NEW sizes \in Seq(Nat)
  PROVE  /\ Total(sizes) \in Nat
         /\ sizes = <<>> => Total(sizes) = 0
         /\ \E sum \in [0 .. Len(sizes) -> Nat] :
              Adds(sum, sizes, Len(sizes)) /\ Total(sizes) = sum[Len(sizes)]
<1> DEFINE F == CHOOSE sum : Adds(sum, sizes, Len(sizes))
<1>1. Len(sizes) \in Nat /\ \A i \in 1 .. Len(sizes) : sizes[i] \in Nat
  OBVIOUS
<1>2. PICK f \in [0 .. Len(sizes) -> Nat] : Adds(f, sizes, Len(sizes))
  BY <1>1, SumsAlong
<1>3. Total(sizes) = F[Len(sizes)]
  BY DEF Total, Adds
<1>4. Adds(F, sizes, Len(sizes))
  BY <1>2, Zenon
<1> HIDE DEF F
<1>5. Total(sizes) = f[Len(sizes)]
  BY <1>1, <1>2, <1>3, <1>4, SumsUnique
<1>6. sizes = <<>> => f[Len(sizes)] = 0
  BY <1>2 DEF Adds
<1>7. QED
  BY <1>1, <1>2, <1>5, <1>6

(* A total without its first size is that much smaller.                    *)
LEMMA TotalTail ==
  ASSUME NEW sizes \in Seq(Nat), sizes # <<>>
  PROVE  Total(sizes) = Head(sizes) + Total(Tail(sizes))
<1>1. PICK t : t = Tail(sizes)
  OBVIOUS
<1>2. /\ t \in Seq(Nat) /\ Len(t) \in Nat /\ Len(sizes) = Len(t) + 1 /\ Head(sizes) = sizes[1]
      /\ Head(sizes) \in Nat /\ \A i \in 1 .. Len(t) : t[i] = sizes[i + 1]
  BY <1>1, TailProperties
<1>3. PICK f \in [0 .. Len(sizes) -> Nat] :
        Adds(f, sizes, Len(sizes)) /\ Total(sizes) = f[Len(sizes)]
  BY Totals
<1>4. PICK g \in [0 .. Len(t) -> Nat] : Adds(g, t, Len(t)) /\ Total(t) = g[Len(t)]
  BY <1>2, Totals
<1> DEFINE A == {n \in Nat : n <= Len(t) => f[n + 1] = Head(sizes) + g[n]}
<1>5. 0 \in A
  <2>1. f[1] = f[1 - 1] + sizes[1] /\ f[0] = 0
    <3>1. Len(sizes) \in Nat /\ 1 \in 1 .. Len(sizes) /\ Adds(f, sizes, Len(sizes))
      BY <1>2, <1>3
    <3>2. Step(f, sizes, 1)
      BY <3>1, AddsStep, Zenon
    <3>3. f[0] = 0
      BY <3>1 DEF Adds
    <3>4. QED
      BY <3>2, <3>3 DEF Step
  <2>2. g[0] = 0
    BY <1>2, <1>4 DEF Adds
  <2>3. QED
    BY <1>2, <2>1, <2>2
<1>6. ASSUME NEW n \in Nat, n \in A PROVE n + 1 \in A
  <2> SUFFICES ASSUME n + 1 <= Len(t) PROVE f[(n + 1) + 1] = Head(sizes) + g[n + 1]
    OBVIOUS
  <2>1. PICK m, k, lt, ls : m = n + 1 /\ k = m + 1 /\ lt = Len(t) /\ ls = Len(sizes)
    OBVIOUS
  <2>2. /\ m \in 1 .. Len(t) /\ k \in 1 .. Len(sizes)
        /\ k - 1 = m /\ m - 1 = n /\ m \in 0 .. Len(sizes) /\ n \in 0 .. Len(t)
    <3>1. lt \in Nat /\ ls = lt + 1 /\ m <= lt
      BY <1>2, <2>1
    <3>2. /\ m \in 1 .. lt /\ k \in 1 .. ls
          /\ k - 1 = m /\ m - 1 = n /\ m \in 0 .. ls /\ n \in 0 .. lt
      BY <2>1, <3>1
    <3>3. QED
      BY <2>1, <3>2
  <2>3. f[k] = f[k - 1] + sizes[k]
    <3>1. Len(sizes) \in Nat /\ k \in 1 .. Len(sizes) /\ Adds(f, sizes, Len(sizes))
      BY <1>2, <1>3, <2>2
    <3>2. Step(f, sizes, k)
      BY <3>1, AddsStep, Zenon
    <3>3. QED
      BY <3>2 DEF Step
  <2>4. g[m] = g[m - 1] + t[m]
    <3>1. Len(t) \in Nat /\ m \in 1 .. Len(t) /\ Adds(g, t, Len(t))
      BY <1>2, <1>4, <2>2
    <3>2. Step(g, t, m)
      BY <3>1, AddsStep, Zenon
    <3>3. QED
      BY <3>2 DEF Step
  <2>5. f[m] = Head(sizes) + g[n]
    BY <1>6, <2>1, <2>2
  <2>6. t[m] = sizes[k] /\ t[m] \in Nat
    BY SMTT(30), <1>2, <2>1, <2>2
  <2>7. g[n] \in Nat
    BY <1>4, <2>2
  <2>8. f[k] = (Head(sizes) + g[n]) + t[m] /\ g[m] = g[n] + t[m]
    BY <2>2, <2>3, <2>4, <2>5, <2>6
  <2>9. PICK h, a, c : h = Head(sizes) /\ a = g[n] /\ c = t[m]
    OBVIOUS
  <2>10. h \in Nat /\ a \in Nat /\ c \in Nat
    BY <1>2, <2>6, <2>7, <2>9
  <2>11. (h + a) + c = h + (a + c)
    BY <2>10
  <2>12. QED
    BY <2>1, <2>8, <2>9, <2>11
<1>7. Nat \subseteq A
  <2> HIDE DEF A
  <2>1. QED
    BY <1>5, <1>6, SetInduction
<1>8. Len(t) \in A
  BY <1>2, <1>7
<1>9. QED
  BY <1>1, <1>2, <1>3, <1>4, <1>8

-----------------------------------------------------------------------------
(* The buffer.                                                             *)

FirstOf(b, n) == [i \in 1 .. n |-> b[i - 1]]
WrittenTo(b, at, s) ==
  [i \in 0 .. BufferSize - 1 |-> IF i \in at .. at + Len(s) - 1 THEN s[i - at + 1] ELSE b[i]]

(* The first characters of a buffer are as many as asked for.              *)
LEMMA FirstType ==
  ASSUME NEW b \in Buffers, NEW n \in 0 .. BufferSize
  PROVE  FirstOf(b, n) \in Chars /\ Len(FirstOf(b, n)) = n
BY TransferAssumption DEF FirstOf, Buffers, Chars

(* Writing into a buffer leaves a buffer.                                  *)
LEMMA WrittenType ==
  ASSUME NEW b \in Buffers, NEW at \in 0 .. BufferSize, NEW s \in Chars
  PROVE  WrittenTo(b, at, s) \in Buffers
<1>1. BufferSize \in Nat /\ Len(s) \in Nat /\ at \in Nat
  BY TransferAssumption DEF Chars
<1>2. ASSUME NEW i \in 0 .. BufferSize - 1
      PROVE  (IF i \in at .. at + Len(s) - 1 THEN s[i - at + 1] ELSE b[i]) \in Nat
  <2>1. i \in at .. at + Len(s) - 1 => i - at + 1 \in 1 .. Len(s)
    BY <1>1
  <2>2. QED
    BY <2>1 DEF Buffers, Chars
<1>3. QED
  BY <1>2 DEF WrittenTo, Buffers

(* What is written behind the first n is behind them.                      *)
LEMMA WrittenFirst ==
  ASSUME NEW b \in Buffers, NEW n \in 0 .. BufferSize, NEW s \in Chars,
         NEW k \in 0 .. Len(s), n + k <= BufferSize
  PROVE  FirstOf(WrittenTo(b, n, s), n + k) = Cat(FirstOf(b, n), SubSeq(s, 1, k))
<1>1. PICK c, u, f, g : /\ c = WrittenTo(b, n, s) /\ u = SubSeq(s, 1, k)
                        /\ f = FirstOf(b, n) /\ g = FirstOf(c, n + k)
  OBVIOUS
<1>2. BufferSize \in Nat /\ Len(s) \in Nat /\ n \in Nat /\ k \in Nat
  BY TransferAssumption DEF Chars
<1>3. u \in Chars /\ Len(u) = k /\ \A i \in 1 .. k : u[i] = s[i]
  BY <1>1, <1>2 DEF Chars
<1>4. f \in Chars /\ Len(f) = n /\ \A i \in 1 .. n : f[i] = b[i - 1]
  BY <1>1, FirstType DEF FirstOf
<1>5. g \in Chars /\ Len(g) = n + k /\ \A i \in 1 .. n + k : g[i] = c[i - 1]
  <2>1. n + k \in 0 .. BufferSize /\ c \in Buffers
    BY <1>1, <1>2, WrittenType
  <2>2. g \in Chars /\ Len(g) = n + k
    BY <1>1, <2>1, FirstType
  <2>3. QED
    BY <1>1, <2>2 DEF FirstOf
<1>6. ASSUME NEW i \in 1 .. Len(f) PROVE g[i] = f[i]
  <2>1. i \in 1 .. n + k /\ i - 1 \in 0 .. BufferSize - 1 /\ i \in 1 .. n
        /\ i - 1 \notin n .. n + Len(s) - 1
    BY <1>2, <1>4
  <2>2. c[i - 1] = b[i - 1]
    BY <1>1, <2>1 DEF WrittenTo
  <2>3. QED
    BY <1>4, <1>5, <2>1, <2>2
<1>7. ASSUME NEW j \in 1 .. Len(u) PROVE g[Len(f) + j] = u[j]
  <2>1. PICK i : i = n + j
    OBVIOUS
  <2>2. /\ i \in 1 .. n + k /\ i - 1 \in 0 .. BufferSize - 1 /\ j \in 1 .. k
        /\ i - 1 \in n .. n + Len(s) - 1 /\ (i - 1) - n + 1 = j
    BY <1>2, <1>3, <2>1
  <2>3. c[i - 1] = s[j]
    BY <1>1, <2>2 DEF WrittenTo
  <2>4. QED
    BY <1>3, <1>4, <1>5, <2>1, <2>2, <2>3
<1>8. g = Cat(f, u)
  BY <1>3, <1>4, <1>5, <1>6, <1>7, CatUnique DEF Chars
<1>9. QED
  BY <1>1, <1>8

(* What MovedUp copies from the write head on is in front.                 *)
MovedTo(got, at) ==
  [i \in 0 .. BufferSize - 1 |-> got[IF i + at < BufferSize - 1 THEN i + at ELSE i]]

(* What sendFullBuffer (network.cpp:88-98) leaves in front of the buffer    *)
(* is the beginning of what getline wrote behind the write head.           *)
LEMMA MovedFirst ==
  ASSUME NEW b \in Buffers, NEW w \in 0 .. BufferSize - 1, NEW s \in Chars,
         BufferSize - 1 - w <= Len(s)
  PROVE  /\ MovedTo(WrittenTo(b, w, s), w) \in Buffers
         /\ FirstOf(MovedTo(WrittenTo(b, w, s), w), BufferSize - 1 - w)
              = SubSeq(s, 1, BufferSize - 1 - w)
<1>1. PICK g, m, k, f, u : /\ g = WrittenTo(b, w, s) /\ m = MovedTo(g, w)
                           /\ k = BufferSize - 1 - w
                           /\ f = FirstOf(m, k) /\ u = SubSeq(s, 1, k)
  OBVIOUS
<1>2. BufferSize \in Nat /\ w \in Nat /\ k \in 0 .. BufferSize /\ Len(s) \in Nat
  BY <1>1, TransferAssumption DEF Chars
<1>3. g \in Buffers
  <2>1. w \in 0 .. BufferSize
    BY <1>2
  <2>2. QED
    BY <1>1, <2>1, WrittenType
<1>4. m \in Buffers
  <2>1. ASSUME NEW i \in 0 .. BufferSize - 1
        PROVE  (IF i + w < BufferSize - 1 THEN i + w ELSE i) \in 0 .. BufferSize - 1
    BY <1>2
  <2>2. QED
    BY <1>1, <1>3, <2>1 DEF MovedTo, Buffers
<1>5. f \in Seq(Nat) /\ Len(f) = k /\ \A i \in 1 .. k : f[i] = m[i - 1]
  BY <1>1, <1>2, <1>4, FirstType DEF FirstOf, Chars
<1>6. u \in Seq(Nat) /\ Len(u) = k /\ \A i \in 1 .. k : u[i] = s[i]
  <2>1. s \in Seq(Nat) /\ k \in Nat /\ k <= Len(s)
    BY <1>1, <1>2 DEF Chars
  <2>2. QED
    BY <1>1, <2>1
<1>7. ASSUME NEW i \in 1 .. k PROVE f[i] = u[i]
  <2>1. PICK j : j = i - 1 + w
    OBVIOUS
  <2>2. /\ i - 1 \in 0 .. BufferSize - 1 /\ i - 1 + w < BufferSize - 1
        /\ j \in 0 .. BufferSize - 1 /\ j \in w .. w + Len(s) - 1 /\ j - w + 1 = i
    BY <1>1, <1>2, <2>1
  <2>3. m[i - 1] = g[j]
    BY <1>1, <2>1, <2>2 DEF MovedTo
  <2>4. g[j] = s[i]
    BY <1>1, <2>2 DEF WrittenTo
  <2>5. QED
    BY <1>5, <1>6, <2>3, <2>4
<1>8. f = u
  BY <1>5, <1>6, <1>7, SameSeq
<1>9. QED
  BY <1>1, <1>4, <1>8

-----------------------------------------------------------------------------
(* Sequences of characters.                                                *)

(* Characters with Cat are a monoid: what the proofs below use of it.      *)
LEMMA Algebra ==
  /\ <<>> \in Chars
  /\ \A s, t \in Chars : Cat(s, t) \in Chars
  /\ \A r, s, t \in Chars : Cat(Cat(r, s), t) = Cat(r, Cat(s, t))
  /\ \A t \in Chars : Cat(<<>>, t) = t /\ Cat(t, <<>>) = t
<1>1. <<>> \in Seq(Nat)
  OBVIOUS
<1>2. QED
  BY <1>1, CatProperties DEF Chars

(* A sequence with one character more: its front, its last, its            *)
(* beginnings.                                                             *)
LEMMA Appends ==
  ASSUME NEW s \in Chars, NEW c \in Nat
  PROVE  /\ Append(s, c) \in Chars /\ Len(Append(s, c)) = Len(s) + 1 /\ Len(s) \in Nat
         /\ Append(s, c) = Cat(s, <<c>>) /\ <<c>> \in Chars
         /\ SubSeq(Append(s, c), 1, Len(s)) = s
         /\ SubSeq(Append(s, c), 1, Len(s) + 1) = Append(s, c)
         /\ Append(s, c) # <<>> /\ Front(Append(s, c)) = s /\ Last(Append(s, c)) = c
<1>1. PICK r : r = Append(s, c)
  OBVIOUS
<1>2. /\ s \in Seq(Nat) /\ r \in Seq(Nat) /\ Len(r) = Len(s) + 1 /\ Len(s) \in Nat
      /\ r[Len(s) + 1] = c /\ r # <<>>
  BY <1>1 DEF Chars
<1>3. \A i \in 1 .. Len(s) : r[i] = s[i]
  BY <1>1 DEF Chars
<1>4. <<c>> \in Seq(Nat) /\ r = Cat(s, <<c>>)
  BY <1>1, <1>2 DEF Cat
<1>5. SubSeq(r, 1, Len(s)) = s
  <2>1. PICK u : u = SubSeq(r, 1, Len(s))
    OBVIOUS
  <2>2. u \in Seq(Nat) /\ Len(u) = Len(s) /\ \A i \in 1 .. Len(s) : u[i] = r[i]
    BY <1>2, <2>1
  <2>3. u = s
    BY <1>2, <1>3, <2>2, SameSeq
  <2>4. QED
    BY <2>1, <2>3
<1>6. SubSeq(r, 1, Len(s) + 1) = r
  <2>1. PICK u : u = SubSeq(r, 1, Len(s) + 1)
    OBVIOUS
  <2>2. u \in Seq(Nat) /\ Len(u) = Len(r) /\ \A i \in 1 .. Len(r) : u[i] = r[i]
    BY <1>2, <2>1
  <2>3. u = r
    BY <1>2, <2>2, SameSeq
  <2>4. QED
    BY <2>1, <2>3
<1>7. Front(r) = s /\ Last(r) = c
  BY <1>2, <1>5 DEF Front, Last
<1>8. QED
  BY <1>1, <1>2, <1>4, <1>5, <1>6, <1>7 DEF Chars

(* A sequence is its first k members and the others.                       *)
LEMMA SplitsSeq ==
  ASSUME NEW S, NEW s \in Seq(S), NEW k \in 0 .. Len(s)
  PROVE  /\ SubSeq(s, 1, k) \in Seq(S) /\ Len(SubSeq(s, 1, k)) = k
         /\ SubSeq(s, k + 1, Len(s)) \in Seq(S)
         /\ Len(SubSeq(s, k + 1, Len(s))) = Len(s) - k
         /\ s = Cat(SubSeq(s, 1, k), SubSeq(s, k + 1, Len(s)))
<1>1. PICK u, v : u = SubSeq(s, 1, k) /\ v = SubSeq(s, k + 1, Len(s))
  OBVIOUS
<1>2. Len(s) \in Nat /\ k \in Nat
  OBVIOUS
<1>3. u \in Seq(S) /\ Len(u) = k /\ \A i \in 1 .. k : u[i] = s[i]
  BY <1>1, <1>2
<1>4. v \in Seq(S) /\ Len(v) = Len(s) - k
  BY <1>1, <1>2
<1>5. \A i \in 1 .. Len(s) - k : v[i] = s[k + i]
  BY <1>1, <1>2
<1>6. s = Cat(u, v)
  <2>1. Len(s) = Len(u) + Len(v)
    BY <1>2, <1>3, <1>4
  <2>2. \A i \in 1 .. Len(u) : s[i] = u[i]
    BY <1>3
  <2>3. \A i \in 1 .. Len(v) : s[Len(u) + i] = v[i]
    BY <1>3, <1>4, <1>5
  <2>4. QED
    BY <1>2, <1>3, <1>4, <2>1, <2>2, <2>3, CatUnique, Zenon
<1>7. QED
  BY <1>1, <1>3, <1>4, <1>6

(* The same of a text.                                                     *)
LEMMA Splits ==
  ASSUME NEW s \in Chars, NEW k \in 0 .. Len(s)
  PROVE  /\ SubSeq(s, 1, k) \in Chars /\ Len(SubSeq(s, 1, k)) = k
         /\ SubSeq(s, k + 1, Len(s)) \in Chars
         /\ Len(SubSeq(s, k + 1, Len(s))) = Len(s) - k
         /\ s = Cat(SubSeq(s, 1, k), SubSeq(s, k + 1, Len(s)))
<1>1. s \in Seq(Nat)
  BY DEF Chars
<1>2. QED
  BY <1>1, SplitsSeq DEF Chars

Block == Seq(Nat) \ {<<>>}

(* The blocks without their markers.                                       *)
Fronts(w) == [i \in DOMAIN w |-> Front(w[i])]

(* What the blocks of a wire hold.                                         *)
LEMMA Holds ==
  ASSUME NEW w \in Seq(Block)
  PROVE  /\ w \in Seq(Seq(Nat)) /\ FlattenSeq(w) \in Chars
         /\ Fronts(w) \in Seq(Seq(Nat)) /\ Len(Fronts(w)) = Len(w) /\ Len(w) \in Nat
         /\ FlattenSeq(Fronts(w)) \in Chars
         /\ \A i \in 1 .. Len(w) : Fronts(w)[i] = Front(w[i]) /\ w[i] \in Chars
<1>1. Len(w) \in Nat /\ DOMAIN w = 1 .. Len(w)
  OBVIOUS
<1>2. \A i \in 1 .. Len(w) : w[i] \in Seq(Nat)
  BY DEF Block
<1>3. w \in Seq(Seq(Nat))
  BY <1>1, <1>2
<1>4. \A s \in Seq(Nat) : Front(s) \in Seq(Nat)
  BY DEF Front
<1>5. Fronts(w) \in [1 .. Len(w) -> Seq(Nat)]
  BY <1>1, <1>2, <1>4 DEF Fronts
<1>6. Fronts(w) \in Seq(Seq(Nat)) /\ Len(Fronts(w)) = Len(w)
  BY <1>1, <1>5
<1>7. QED
  BY <1>1, <1>2, <1>3, <1>5, <1>6, FlattenType DEF Chars, Fronts

(* What a wire holds when one block more is sent, with and without         *)
(* markers.                                                                *)
LEMMA SendBlock ==
  ASSUME NEW w \in Seq(Block), NEW b \in Block
  PROVE  /\ Append(w, b) \in Seq(Block) /\ Len(Append(w, b)) = Len(w) + 1
         /\ FlattenSeq(Append(w, b)) = Cat(FlattenSeq(w), b)
         /\ FlattenSeq(Fronts(Append(w, b))) = Cat(FlattenSeq(Fronts(w)), Front(b))
<1>1. PICK r : r = Append(w, b)
  OBVIOUS
<1>2. /\ r \in Seq(Block) /\ Len(r) = Len(w) + 1 /\ Len(w) \in Nat /\ r[Len(w) + 1] = b
      /\ \A i \in 1 .. Len(w) : r[i] = w[i]
  BY <1>1
<1>3. b \in Seq(Nat) /\ Front(b) \in Seq(Nat)
  BY DEF Block, Front
<1>4. FlattenSeq(r) = Cat(FlattenSeq(w), b)
  BY <1>1, <1>3, Holds, FlattenAppend DEF Cat
<1>5. PICK f, g : f = Fronts(w) /\ g = Fronts(r)
  OBVIOUS
<1>6. /\ f \in Seq(Seq(Nat)) /\ Len(f) = Len(w) /\ \A i \in 1 .. Len(w) : f[i] = Front(w[i])
      /\ g \in Seq(Seq(Nat)) /\ Len(g) = Len(r) /\ \A i \in 1 .. Len(r) : g[i] = Front(r[i])
  BY <1>2, <1>5, Holds
<1>7. g = Append(f, Front(b))
  <2>1. PICK h : h = Append(f, Front(b))
    OBVIOUS
  <2>2. /\ h \in Seq(Seq(Nat)) /\ Len(h) = Len(f) + 1 /\ h[Len(f) + 1] = Front(b)
        /\ \A i \in 1 .. Len(f) : h[i] = f[i]
    BY <1>3, <1>6, <2>1
  <2>3. ASSUME NEW i \in 1 .. Len(r) PROVE g[i] = h[i]
    <3>1. CASE i = Len(w) + 1
      BY <1>2, <1>6, <2>2, <3>1
    <3>2. CASE i # Len(w) + 1
      <4>1. i \in 1 .. Len(w)
        BY <1>2, <3>2
      <4>2. QED
        BY <1>2, <1>6, <2>2, <4>1
    <3>3. QED
      BY <3>1, <3>2
  <2>4. g = h
    <3>1. Len(g) = Len(h) /\ \A i \in 1 .. Len(g) : g[i] = h[i]
      BY <1>2, <1>6, <2>2, <2>3
    <3>2. QED
      BY <1>6, <2>2, <3>1, SameSeq, Zenon
  <2>5. QED
    BY <2>1, <2>4
<1>8. FlattenSeq(g) = Cat(FlattenSeq(f), Front(b))
  BY <1>3, <1>6, <1>7, FlattenAppend DEF Cat
<1>9. QED
  BY <1>1, <1>2, <1>4, <1>5, <1>8

-----------------------------------------------------------------------------
(* The invariant.                                                          *)

buffered == FirstOf(buffer, writehead)

TypeInv ==
  /\ content \in Chars /\ rest \in Chars /\ ret \in Chars
  /\ lengths \in Seq(Sizes)
  /\ buffer \in Buffers
  /\ writehead \in 0 .. BufferSize
  /\ writehead = BufferSize => pc = "undefined"
  /\ wire \in Seq(Block)
  /\ pc = "chunks" => Len(rest) = Total(lengths)
  /\ pc \in {"close", "sent"} => rest = <<>>
  /\ pc = "sent" => writehead = 0

(* Every letter is in one place, and they are in order.                    *)
LettersHeld ==
  Cat(Letters(ret), Cat(Letters(FlattenSeq(wire)), Cat(Letters(buffered), Letters(rest))))

LettersInv == receiver # "assertion" => LettersHeld = Letters(content)

(* A block that is full ends with the newline of its last line, or with    *)
(* the marker behind its last chunk.                                       *)
MarkInv ==
  /\ pc = "file" /\ writehead > 0 => buffer[writehead - 1] = NEWLINE
  /\ pc = "chunks" /\ writehead > 0 => buffer[writehead] = MORE_PACKETS

(* As long as no read has merged blocks, they are whole and well marked.   *)
WholeInv ==
  ~merged =>
    /\ receiver # "assertion"
    /\ receiver = "done" => pc = "sent" /\ wire = <<>>
    /\ \A i \in 1 .. Len(wire) :
         /\ Len(wire[i]) <= BufferSize
         /\ Last(wire[i]) = IF pc = "sent" /\ i = Len(wire) THEN END_OF_FILE ELSE MORE_PACKETS

AsItIs == NEWLINE \notin Range(content) \/ Len(content) < BufferSize - 1

TextHeld == Cat(ret, Cat(FlattenSeq(Fronts(wire)), Cat(buffered, rest)))

(* And what has one line, or fits in one block, is on its way as it is.    *)
ExactInv ==
  ~merged /\ AsItIs =>
    /\ pc # "retry"
    /\ pc = "file" => /\ wire = <<>> /\ ret = <<>>
                      /\ NEWLINE \notin Range(content) => writehead = 0
    /\ TextHeld = content

IInv == TypeInv /\ LettersInv /\ MarkInv /\ WholeInv /\ ExactInv

-----------------------------------------------------------------------------
(* What the actions of the sender do to the text.                          *)

(* The beginning of a text goes into the buffer, with a marker behind it.  *)
Added(b, w, r, k, c) == WrittenTo(b, w, Append(SubSeq(r, 1, k), c))
After(r, k) == SubSeq(r, k + 1, Len(r))
IsSum(n, w, k) == n = w + k

(* The buffer and the rest hold the same text before and after.            *)
LEMMA AddsText ==
  ASSUME NEW b \in Buffers, NEW w \in 0 .. BufferSize, NEW r \in Chars,
         NEW k \in 0 .. Len(r), NEW c \in Nat, NEW n \in 0 .. BufferSize, IsSum(n, w, k),
         NEW b1, b1 = Added(b, w, r, k, c), NEW r1, r1 = After(r, k)
  PROVE  /\ b1 \in Buffers /\ r1 \in Chars /\ FirstOf(b1, n) \in Chars
         /\ Cat(FirstOf(b1, n), r1) = Cat(FirstOf(b, w), r)
<1>1. PICK x, s : /\ x = SubSeq(r, 1, k) /\ s = Append(x, c)
                  /\ b1 = WrittenTo(b, w, s) /\ r1 = SubSeq(r, k + 1, Len(r))
  BY DEF Added, After
<1>2. BufferSize \in Nat /\ w \in Nat /\ k \in Nat /\ Len(r) \in Nat
  BY TransferAssumption DEF Chars
<1>3. x \in Chars /\ Len(x) = k /\ r1 \in Chars /\ r = Cat(x, r1)
  BY <1>1, Splits
<1>4. s \in Chars /\ Len(s) = k + 1 /\ SubSeq(s, 1, k) = x
  <2>1. s \in Chars /\ Len(s) = Len(x) + 1 /\ SubSeq(s, 1, Len(x)) = x
    BY <1>1, <1>3, Appends
  <2>2. QED
    BY <1>3, <2>1
<1>5. b1 \in Buffers
  BY <1>1, <1>4, WrittenType
<1>6. FirstOf(b1, w + k) = Cat(FirstOf(b, w), x)
  <2>1. k \in 0 .. Len(s) /\ w + k <= BufferSize
    BY <1>2, <1>4 DEF IsSum
  <2>2. FirstOf(WrittenTo(b, w, s), w + k) = Cat(FirstOf(b, w), SubSeq(s, 1, k))
    BY <1>4, <2>1, WrittenFirst
  <2>3. QED
    BY <1>1, <1>4, <2>2
<1>7. FirstOf(b, w) \in Chars
  BY FirstType
<1>8. QED
  BY <1>3, <1>5, <1>6, <1>7, Algebra DEF IsSum

(* Behind the text stands the marker, if there is room for it.             *)
LEMMA AddsMark ==
  ASSUME NEW b \in Buffers, NEW w \in 0 .. BufferSize, NEW r \in Chars,
         NEW k \in 0 .. Len(r), NEW c \in Nat, NEW n \in 0 .. BufferSize - 1, IsSum(n, w, k),
         NEW b1, b1 = Added(b, w, r, k, c)
  PROVE  b1[n] = c
<1>1. PICK x, s : x = SubSeq(r, 1, k) /\ s = Append(x, c) /\ b1 = WrittenTo(b, w, s)
  BY DEF Added
<1>2. BufferSize \in Nat /\ w \in Nat /\ k \in Nat /\ Len(r) \in Nat
  BY TransferAssumption DEF Chars
<1>3. x \in Seq(Nat) /\ Len(x) = k
  BY <1>1, Splits DEF Chars
<1>4. Len(s) = k + 1 /\ s[k + 1] = c
  BY <1>1, <1>3
<1>5. n \in w .. w + Len(s) - 1 /\ n - w + 1 = k + 1
  BY <1>2, <1>4 DEF IsSum
<1>6. QED
  BY <1>1, <1>4, <1>5 DEF WrittenTo

(* The last character that counts is the last one of the text.             *)
LEMMA AddsLast ==
  ASSUME NEW b \in Buffers, NEW w \in 0 .. BufferSize, NEW r \in Chars,
         NEW k \in 1 .. Len(r), NEW c \in Nat, NEW n \in 0 .. BufferSize - 1,
         NEW i \in Nat, IsSum(i, w, k), IsSum(i, n, 1),
         NEW b1, b1 = Added(b, w, r, k, c)
  PROVE  b1[n] = r[k]
<1>1. PICK x, s : x = SubSeq(r, 1, k) /\ s = Append(x, c) /\ b1 = WrittenTo(b, w, s)
  BY DEF Added
<1>2. BufferSize \in Nat /\ w \in Nat /\ k \in Nat /\ Len(r) \in Nat /\ n \in Nat
  BY TransferAssumption DEF Chars
<1>3. x \in Seq(Nat) /\ Len(x) = k /\ x[k] = r[k]
  <2>1. k \in 0 .. Len(r)
    BY <1>2
  <2>2. x \in Seq(Nat) /\ Len(x) = k
    BY <1>1, <2>1, Splits DEF Chars
  <2>3. QED
    BY <1>1, <1>2, <2>2 DEF Chars
<1>4. Len(s) = k + 1 /\ s[k] = x[k]
  BY <1>1, <1>2, <1>3
<1>5. n \in w .. w + Len(s) - 1 /\ n - w + 1 = k
  BY <1>2, <1>4 DEF IsSum
<1>6. QED
  BY <1>1, <1>3, <1>4, <1>5 DEF WrittenTo

(* The letters of a text that is divided otherwise are the same.           *)
LEMMA LettersSame ==
  ASSUME NEW r \in Chars, NEW s \in Chars, NEW t \in Chars, NEW u \in Chars,
         Cat(r, s) = Cat(t, u)
  PROVE  Cat(Letters(r), Letters(s)) = Cat(Letters(t), Letters(u))
<1>1. Letters(Cat(r, s)) = Cat(Letters(r), Letters(s))
  BY LettersCat
<1>2. Letters(Cat(t, u)) = Cat(Letters(t), Letters(u))
  BY LettersCat
<1>3. QED
  BY <1>1, <1>2

(* What is held in the buffer and on the wire are characters.              *)
LEMMA HeldType ==
  TypeInv => /\ buffered \in Chars /\ FlattenSeq(wire) \in Chars
             /\ FlattenSeq(Fronts(wire)) \in Chars
<1> SUFFICES ASSUME TypeInv
             PROVE  /\ buffered \in Chars /\ FlattenSeq(wire) \in Chars
                    /\ FlattenSeq(Fronts(wire)) \in Chars
  OBVIOUS
<1>1. PICK b, n, w : b = buffer /\ n = writehead /\ w = wire
  OBVIOUS
<1>2. b \in Buffers /\ n \in 0 .. BufferSize /\ w \in Seq(Block)
  BY <1>1 DEF TypeInv
<1>3. FirstOf(b, n) \in Chars
  BY <1>2, FirstType
<1>4. FlattenSeq(w) \in Chars /\ FlattenSeq(Fronts(w)) \in Chars
  BY <1>2, Holds
<1>5. QED
  BY <1>1, <1>3, <1>4 DEF buffered

(* The same after a step.                                                  *)
LEMMA HeldTypeNext ==
  (TypeInv => /\ buffered \in Chars /\ FlattenSeq(wire) \in Chars
              /\ FlattenSeq(Fronts(wire)) \in Chars)'
BY HeldType, PTL

(* Between the buffer and what is not read yet nothing is lost.            *)
LEMMA Kept ==
  ASSUME TypeInv, TypeInv', UNCHANGED <<wire, ret>>,
         Cat(buffered', rest') = Cat(buffered, rest)
  PROVE  LettersHeld' = LettersHeld /\ TextHeld' = TextHeld
<1>1. PICK r, s, t, u : r = buffered' /\ s = rest' /\ t = buffered /\ u = rest
  OBVIOUS
<1>2. r \in Chars /\ s \in Chars /\ t \in Chars /\ u \in Chars
  BY <1>1, HeldType, HeldTypeNext DEF TypeInv
<1>3. Cat(r, s) = Cat(t, u)
  BY <1>1
<1>4. Cat(Letters(r), Letters(s)) = Cat(Letters(t), Letters(u))
  BY <1>2, <1>3, LettersSame
<1>5. QED
  BY <1>1, <1>3, <1>4 DEF LettersHeld, TextHeld

(* A block leaves the buffer, with its letters ...                         *)
LEMMA LettersSent ==
  ASSUME TypeInv, TypeInv', NEW b \in Block, wire' = Append(wire, b), UNCHANGED ret,
         Cat(Letters(b), Cat(Letters(buffered'), Letters(rest')))
           = Cat(Letters(buffered), Letters(rest))
  PROVE  LettersHeld' = LettersHeld
<1>1. PICK r, s, t, u, w, p : /\ r = buffered' /\ s = rest' /\ t = buffered /\ u = rest
                              /\ w = wire /\ p = ret
  OBVIOUS
<1>2. /\ r \in Chars /\ s \in Chars /\ t \in Chars /\ u \in Chars /\ p \in Chars
      /\ w \in Seq(Block) /\ b \in Chars
  BY <1>1, HeldType, HeldTypeNext DEF TypeInv, Block, Chars
<1>3. PICK f, g : f = FlattenSeq(w) /\ g = FlattenSeq(Append(w, b))
  OBVIOUS
<1>4. g = Cat(f, b) /\ f \in Chars
  BY <1>2, <1>3, SendBlock, Holds
<1>5. Letters(g) = Cat(Letters(f), Letters(b))
  BY <1>2, <1>4, LettersCat
<1>6. PICK lr, ls, lt, lu, lp, lf, lb :
        /\ lr = Letters(r) /\ ls = Letters(s) /\ lt = Letters(t) /\ lu = Letters(u)
        /\ lp = Letters(p) /\ lf = Letters(f) /\ lb = Letters(b)
  OBVIOUS
<1>7. /\ lr \in Chars /\ ls \in Chars /\ lf \in Chars /\ lb \in Chars
  BY <1>2, <1>4, <1>6, MarksType
<1>8. Cat(lb, Cat(lr, ls)) = Cat(lt, lu)
  BY <1>1, <1>6
<1>9. Cat(Cat(lf, lb), Cat(lr, ls)) = Cat(lf, Cat(lt, lu))
  BY <1>7, <1>8, Algebra
<1>10. LettersHeld' = Cat(lp, Cat(Cat(lf, lb), Cat(lr, ls)))
  BY <1>1, <1>3, <1>5, <1>6 DEF LettersHeld
<1>11. LettersHeld = Cat(lp, Cat(lf, Cat(lt, lu)))
  BY <1>1, <1>3, <1>6 DEF LettersHeld
<1>12. QED
  BY <1>9, <1>10, <1>11

(* ... and with its text.                                                  *)
LEMMA TextSent ==
  ASSUME TypeInv, TypeInv', NEW b \in Block, wire' = Append(wire, b), UNCHANGED ret,
         Cat(Front(b), Cat(buffered', rest')) = Cat(buffered, rest)
  PROVE  TextHeld' = TextHeld
<1>1. PICK r, s, t, u, w, p, x : /\ r = buffered' /\ s = rest' /\ t = buffered /\ u = rest
                                 /\ w = wire /\ p = ret /\ x = Front(b)
  OBVIOUS
<1>2. /\ r \in Chars /\ s \in Chars /\ x \in Chars /\ w \in Seq(Block)
  <2>1. b \in Seq(Nat) /\ Front(b) \in Seq(Nat)
    BY DEF Block, Front
  <2>2. x \in Chars
    BY <1>1, <2>1 DEF Chars
  <2>3. QED
    BY <1>1, <2>2, HeldType, HeldTypeNext DEF TypeInv
<1>3. PICK f, g : f = FlattenSeq(Fronts(w)) /\ g = FlattenSeq(Fronts(Append(w, b)))
  OBVIOUS
<1>4. g = Cat(f, x) /\ f \in Chars
  BY <1>1, <1>2, <1>3, SendBlock, Holds
<1>5. Cat(x, Cat(r, s)) = Cat(t, u)
  BY <1>1
<1>6. Cat(Cat(f, x), Cat(r, s)) = Cat(f, Cat(t, u))
  BY <1>2, <1>4, <1>5, Algebra
<1>7. TextHeld' = Cat(p, Cat(Cat(f, x), Cat(r, s)))
  BY <1>1, <1>3, <1>4 DEF TextHeld
<1>8. TextHeld = Cat(p, Cat(f, Cat(t, u)))
  BY <1>1, <1>3 DEF TextHeld
<1>9. QED
  BY <1>6, <1>7, <1>8

(* What is sent with a marker behind it has the letters it had before.     *)
LEMMA Marked ==
  ASSUME NEW x \in Chars, NEW c \in Nat, c <= NEWLINE
  PROVE  Append(x, c) \in Block /\ Letters(Append(x, c)) = Letters(x)
<1>1. Append(x, c) \in Chars /\ Append(x, c) # <<>>
      /\ Append(x, c) = Cat(x, <<c>>) /\ <<c>> \in Chars
  BY Appends
<1>2. Letters(Cat(x, <<c>>)) = Cat(Letters(x), Letters(<<c>>))
  BY <1>1, LettersCat
<1>3. Letters(<<c>>) = <<>>
  BY LettersNone
<1>4. Letters(x) \in Chars
  BY MarksType
<1>5. QED
  BY <1>1, <1>2, <1>3, <1>4, Algebra DEF Block, Chars

(* One character more of the buffer.                                       *)
LEMMA FirstNext ==
  ASSUME NEW b \in Buffers, NEW n \in 0 .. BufferSize - 1
  PROVE  FirstOf(b, n + 1) = Append(FirstOf(b, n), b[n]) /\ b[n] \in Nat
<1>1. PICK f, g, h : /\ f = FirstOf(b, n) /\ g = FirstOf(b, n + 1)
                     /\ h = Append(f, b[n])
  OBVIOUS
<1>2. BufferSize \in Nat /\ n \in 0 .. BufferSize /\ n + 1 \in 0 .. BufferSize /\ b[n] \in Nat
  BY TransferAssumption DEF Buffers
<1>3. f \in Seq(Nat) /\ Len(f) = n /\ \A i \in 1 .. n : f[i] = b[i - 1]
  BY <1>1, <1>2, FirstType DEF FirstOf, Chars
<1>4. g \in Seq(Nat) /\ Len(g) = n + 1 /\ \A i \in 1 .. n + 1 : g[i] = b[i - 1]
  BY <1>1, <1>2, FirstType DEF FirstOf, Chars
<1>5. /\ h \in Seq(Nat) /\ Len(h) = n + 1 /\ h[n + 1] = b[n]
      /\ \A i \in 1 .. n : h[i] = f[i]
  BY <1>1, <1>2, <1>3
<1>6. ASSUME NEW i \in 1 .. n + 1 PROVE g[i] = h[i]
  <2>1. CASE i = n + 1
    <3>1. i - 1 = n
      BY <1>2, <2>1
    <3>2. g[i] = b[n]
      BY <1>4, <3>1
    <3>3. QED
      BY <1>5, <2>1, <3>2
  <2>2. CASE i # n + 1
    <3>1. i \in 1 .. n
      BY <1>2, <2>2
    <3>2. QED
      BY <1>3, <1>4, <1>5, <3>1
  <2>3. QED
    BY <2>1, <2>2
<1>7. g = h
  BY <1>4, <1>5, <1>6, SameSeq
<1>8. QED
  BY <1>1, <1>2, <1>7

(* The whole is not shorter than its last two parts, and has the           *)
(* characters of the last one.                                             *)
LEMMA Covers ==
  ASSUME TypeInv, TextHeld = content
  PROVE  /\ Len(content) \in Nat /\ Len(rest) \in Nat
         /\ Len(content) >= writehead + Len(rest)
         /\ \A i \in 1 .. Len(rest) : rest[i] \in Range(content)
<1>1. PICK r, f, b, t, c, n : /\ r = ret /\ f = FlattenSeq(Fronts(wire)) /\ b = buffered
                              /\ t = rest /\ c = content /\ n = writehead
  OBVIOUS
<1>2. r \in Seq(Nat) /\ f \in Seq(Nat) /\ b \in Seq(Nat) /\ t \in Seq(Nat) /\ c \in Seq(Nat)
  BY <1>1, HeldType DEF TypeInv, Chars
<1>3. Len(b) = n /\ n \in Nat
  <2>1. PICK u : u = buffer
    OBVIOUS
  <2>2. u \in Buffers /\ n \in 0 .. BufferSize /\ b = FirstOf(u, n)
    BY <1>1, <2>1 DEF TypeInv, buffered
  <2>3. QED
    BY <2>2, FirstType, TransferAssumption
<1>4. PICK x, y : x = Cat(b, t) /\ y = Cat(f, x)
  OBVIOUS
<1>5. c = Cat(r, y)
  BY <1>1, <1>4 DEF TextHeld
<1>6. /\ x \in Seq(Nat) /\ Len(x) = Len(b) + Len(t)
      /\ \A i \in 1 .. Len(t) : x[Len(b) + i] = t[i]
  <2>1. \A i \in 1 .. Len(t) : x[Len(b) + i] = t[i]
    BY <1>2, <1>4, CatSecond
  <2>2. QED
    BY <1>2, <1>4, <2>1, CatType
<1>7. /\ y \in Seq(Nat) /\ Len(y) = Len(f) + Len(x)
      /\ \A i \in 1 .. Len(x) : y[Len(f) + i] = x[i]
  <2>1. \A i \in 1 .. Len(x) : y[Len(f) + i] = x[i]
    <3>1. ASSUME NEW i \in 1 .. Len(x) PROVE Cat(f, x)[Len(f) + i] = x[i]
      BY ZenonT(40), <1>2, <1>6, CatSecond
    <3>2. QED
      BY <1>4, <3>1
  <2>2. QED
    BY <1>2, <1>4, <1>6, <2>1, CatType
<1>8. /\ Len(c) = Len(r) + Len(y)
      /\ \A i \in 1 .. Len(y) : c[Len(r) + i] = y[i]
  <2>1. \A i \in 1 .. Len(y) : c[Len(r) + i] = y[i]
    <3>1. ASSUME NEW i \in 1 .. Len(y) PROVE Cat(r, y)[Len(r) + i] = y[i]
      BY ZenonT(40), <1>2, <1>7, CatSecond
    <3>2. QED
      BY <1>5, <3>1
  <2>2. QED
    BY <1>2, <1>5, <1>7, <2>1, CatType
<1>9. /\ Len(r) \in Nat /\ Len(f) \in Nat /\ Len(t) \in Nat /\ Len(c) \in Nat
      /\ Len(x) \in Nat /\ Len(y) \in Nat /\ DOMAIN c = 1 .. Len(c)
  BY <1>2, <1>6, <1>7
<1>10. ASSUME NEW i \in 1 .. Len(t) PROVE t[i] \in Range(c)
  <2>1. PICK j, k, l : j = n + i /\ k = Len(f) + j /\ l = Len(r) + k
    OBVIOUS
  <2>2. j \in 1 .. Len(x) /\ k \in 1 .. Len(y) /\ l \in 1 .. Len(c)
    <3>1. PICK lr, lf, lt, lx, ly, lc :
            /\ lr = Len(r) /\ lf = Len(f) /\ lt = Len(t)
            /\ lx = Len(x) /\ ly = Len(y) /\ lc = Len(c)
      OBVIOUS
    <3>2. /\ lr \in Nat /\ lf \in Nat /\ lt \in Nat /\ n \in Nat /\ i \in 1 .. lt
          /\ lx = n + lt /\ ly = lf + lx /\ lc = lr + ly
      BY <1>3, <1>6, <1>7, <1>8, <1>9, <3>1
    <3>3. j \in Nat /\ j >= 1 /\ j <= lx
      BY <2>1, <3>2
    <3>4. k \in Nat /\ k >= 1 /\ k <= ly
      BY <2>1, <3>1, <3>2, <3>3
    <3>5. l \in Nat /\ l >= 1 /\ l <= lc
      <4>1. l = lr + k /\ lc = lr + ly /\ lr \in Nat /\ ly \in Nat
        BY <2>1, <3>1, <3>2
      <4>2. QED
        BY <3>4, <4>1
    <3>6. QED
      BY <3>1, <3>2, <3>3, <3>4, <3>5
  <2>3. t[i] = x[j] /\ x[j] = y[k] /\ y[k] = c[l]
    BY <1>3, <1>6, <1>7, <1>8, <2>1, <2>2
  <2>4. QED
    BY <1>9, <2>2, <2>3 DEF Range
<1>11. QED
  BY <1>1, <1>3, <1>6, <1>7, <1>8, <1>9, <1>10

(* A step of the sender that sends nothing leaves the blocks whole.        *)
LEMMA Standing ==
  ASSUME WholeInv, UNCHANGED <<wire, receiver, merged>>, pc # "sent", pc' # "sent"
  PROVE  WholeInv'
BY DEF WholeInv

(* A block that is not too long and well marked joins whole blocks.        *)
LEMMA Joined ==
  ASSUME TypeInv, WholeInv, pc # "sent", NEW b \in Block, wire' = Append(wire, b),
         UNCHANGED <<receiver, merged>>, Len(b) <= BufferSize,
         Last(b) = IF pc' = "sent" THEN END_OF_FILE ELSE MORE_PACKETS
  PROVE  WholeInv'
<1> SUFFICES ASSUME ~merged
             PROVE  /\ receiver' # "assertion" /\ receiver' # "done"
                    /\ \A i \in 1 .. Len(wire') :
                         /\ Len(wire'[i]) <= BufferSize
                         /\ Last(wire'[i]) = IF pc' = "sent" /\ i = Len(wire')
                                               THEN END_OF_FILE ELSE MORE_PACKETS
  BY DEF WholeInv
<1>1. PICK w, v : w = wire /\ v = wire'
  OBVIOUS
<1>2. w \in Seq(Block)
  BY <1>1 DEF TypeInv
<1>3. /\ Len(w) \in Nat /\ Len(v) = Len(w) + 1 /\ v[Len(w) + 1] = b
      /\ \A i \in 1 .. Len(w) : v[i] = w[i]
  BY <1>1, <1>2
<1>4. receiver' # "assertion" /\ receiver' # "done"
      /\ \A i \in 1 .. Len(w) : Len(w[i]) <= BufferSize /\ Last(w[i]) = MORE_PACKETS
  BY <1>1 DEF WholeInv
<1>5. ASSUME NEW i \in 1 .. Len(v)
      PROVE  /\ Len(v[i]) <= BufferSize
             /\ Last(v[i]) = IF pc' = "sent" /\ i = Len(v)
                               THEN END_OF_FILE ELSE MORE_PACKETS
  <2>1. CASE i = Len(v)
    BY <1>3, <2>1
  <2>2. CASE i # Len(v)
    <3>1. i \in 1 .. Len(w)
      BY <1>3, <2>2
    <3>2. QED
      BY <1>3, <1>4, <2>2, <3>1
  <2>3. QED
    BY <2>1, <2>2
<1>6. QED
  BY <1>1, <1>4, <1>5

-----------------------------------------------------------------------------
(* The actions.                                                            *)

(* Sender::try_add_chunk, the last line, preserves the invariant: the rest *)
(* moves into the buffer and the NUL behind it does not count.             *)
LEMMA AddLastLine ==
  ASSUME IInv, addLastLine
  PROVE  IInv'
<1>1. PICK b, w, r, k : b = buffer /\ w = writehead /\ r = rest /\ k = Len(rest)
  OBVIOUS
<1>2. /\ b \in Buffers /\ w \in 0 .. BufferSize - 1 /\ r \in Chars /\ k = Len(r)
      /\ BufferSize \in Nat /\ k \in Nat
  BY <1>1, TransferAssumption DEF IInv, TypeInv, addLastLine, addingLine, Chars
<1>3. LineLength = k /\ k <= Room
  BY <1>1 DEF addLastLine
<1>4. w + k < BufferSize
  BY <1>1, <1>2, <1>3 DEF Room
<1>5. PICK b1, r1, n : /\ b1 = Added(b, w, r, k, END_OF_FILE)
                       /\ r1 = After(r, k)
                       /\ n = w + k
  OBVIOUS
<1>6. /\ b1 \in Buffers /\ FirstOf(b1, n) \in Chars
      /\ Cat(FirstOf(b1, n), r1) = Cat(FirstOf(b, w), r)
  <2>1. /\ w \in 0 .. BufferSize /\ k \in 0 .. Len(r) /\ n \in 0 .. BufferSize
        /\ END_OF_FILE \in Nat /\ IsSum(n, w, k)
    BY <1>2, <1>4, <1>5 DEF END_OF_FILE, NUL, IsSum
  <2>2. QED
    BY <1>2, <1>5, <2>1, AddsText
<1>7. r1 = <<>> /\ SubSeq(r, 1, k) = r
  <2>1. r \in Seq(Nat)
    BY <1>2 DEF Chars
  <2>2. r1 \in Seq(Nat) /\ Len(r1) = 0
    BY <1>2, <1>5, <2>1 DEF After
  <2>3. SubSeq(r, 1, k) \in Seq(Nat) /\ Len(SubSeq(r, 1, k)) = Len(r)
        /\ \A i \in 1 .. Len(r) : SubSeq(r, 1, k)[i] = r[i]
    BY <1>2, <2>1
  <2>4. PICK u : u = SubSeq(r, 1, k)
    OBVIOUS
  <2>5. u = r
    BY <2>1, <2>3, <2>4, SameSeq
  <2>6. QED
    BY <2>2, <2>4, <2>5
<1>8. buffer' = b1 /\ writehead' = n /\ rest' = r1
  BY <1>1, <1>3, <1>5, <1>7 DEF addLastLine, Added, Written, WrittenTo
<1>9. Cat(buffered', rest') = Cat(buffered, rest)
  BY <1>1, <1>6, <1>8 DEF buffered
<1>10. TypeInv'
  <2>1. n \in 0 .. BufferSize - 1
    BY <1>2, <1>4, <1>5
  <2>2. QED
    BY <1>2, <1>6, <1>7, <1>8, <2>1 DEF IInv, TypeInv, addLastLine, Chars, receiverVars
<1>11. LettersHeld' = LettersHeld /\ TextHeld' = TextHeld
  BY <1>9, <1>10, Kept DEF IInv, addLastLine, receiverVars
<1>12. WholeInv'
  BY Standing DEF IInv, addLastLine, addingLine, receiverVars
<1>13. QED
  BY <1>10, <1>11, <1>12
  DEF IInv, LettersInv, MarkInv, ExactInv, AsItIs, addLastLine, receiverVars

(* Sender::try_add_chunk, a line and its newline: where NEWLINE is in the  *)
(* file, ExactInv says that the file fits in one block.                    *)
LEMMA AddLine ==
  ASSUME IInv, addLine
  PROVE  IInv'
<1>1. PICK b, w, r, k : b = buffer /\ w = writehead /\ r = rest /\ k = LineLength + 1
  OBVIOUS
<1>2. /\ b \in Buffers /\ w \in 0 .. BufferSize - 1 /\ r \in Chars /\ Len(r) \in Nat
      /\ BufferSize \in Nat
  BY <1>1, TransferAssumption DEF IInv, TypeInv, addLine, addingLine, Chars
<1>3. k \in 1 .. Len(r) /\ r[k] = NEWLINE /\ k - 1 <= Room
  <2>1. rest \in Chars
    BY <1>1, <1>2
  <2>2. LineLength \in Nat /\ (LineLength < Len(rest) => rest[LineLength + 1] = NEWLINE)
    BY <2>1, LineEnds
  <2>3. LineLength < Len(rest) /\ LineLength <= Room
    BY DEF addLine
  <2>4. QED
    BY <1>1, <1>2, <2>2, <2>3
<1>4. w + k <= BufferSize
  BY <1>1, <1>2, <1>3 DEF Room
<1>5. PICK b1, r1, n, m : /\ b1 = Added(b, w, r, k, MORE_PACKETS)
                          /\ r1 = After(r, k)
                          /\ n = w + k /\ m = n - 1
  OBVIOUS
<1>6. /\ b1 \in Buffers /\ r1 \in Chars /\ FirstOf(b1, n) \in Chars
      /\ Cat(FirstOf(b1, n), r1) = Cat(FirstOf(b, w), r)
      /\ n \in 1 .. BufferSize /\ b1[m] = NEWLINE
  <2>1. /\ w \in 0 .. BufferSize /\ k \in 0 .. Len(r) /\ MORE_PACKETS \in Nat
        /\ n \in 1 .. BufferSize /\ n \in 0 .. BufferSize
        /\ m \in 0 .. BufferSize - 1 /\ IsSum(n, w, k) /\ IsSum(n, m, 1)
    BY <1>2, <1>3, <1>4, <1>5 DEF MORE_PACKETS, NEWLINE, IsSum
  <2>2. /\ b1 \in Buffers /\ r1 \in Chars /\ FirstOf(b1, n) \in Chars
        /\ Cat(FirstOf(b1, n), r1) = Cat(FirstOf(b, w), r)
    BY <1>2, <1>5, <2>1, AddsText
  <2>3. b1[m] = NEWLINE
    <3>1. n \in Nat /\ k \in 1 .. Len(r) /\ b1 = Added(b, w, r, k, MORE_PACKETS)
      BY <1>2, <1>3, <1>5, <2>1
    <3>2. b1[m] = r[k]
      BY SMTT(30), <1>2, <2>1, <3>1, AddsLast
    <3>3. QED
      BY <1>3, <3>2
  <2>4. QED
    BY <2>1, <2>2, <2>3
<1>7. buffer' = b1 /\ writehead' = n /\ rest' = r1
  <2>1. LineLength \in Nat
    <3>1. rest \in Chars
      BY <1>1, <1>2
    <3>2. QED
      BY <3>1, LineEnds
  <2>2. writehead + LineLength + 1 = w + k /\ LineLength + 2 = k + 1
    BY <1>1, <1>2, <2>1
  <2>3. QED
    BY <1>1, <1>5, <2>2 DEF addLine, Added, After, Written, WrittenTo
<1>8. Cat(buffered', rest') = Cat(buffered, rest)
  BY <1>1, <1>6, <1>7 DEF buffered
<1>9. pc' = IF n = BufferSize THEN "undefined" ELSE "file"
  BY <1>7 DEF addLine
<1>10. TypeInv'
  <2>1. n \in 0 .. BufferSize
    BY <1>2, <1>6
  <2>2. QED
    BY <1>6, <1>7, <1>9, <2>1 DEF IInv, TypeInv, addLine, receiverVars
<1>11. LettersHeld' = LettersHeld /\ TextHeld' = TextHeld
  BY <1>8, <1>10, Kept DEF IInv, addLine, receiverVars
<1>12. WholeInv'
  BY <1>9, Standing DEF IInv, addLine, addingLine, receiverVars
<1>13. MarkInv'
  <2>1. pc' # "chunks" /\ buffer'[writehead' - 1] = NEWLINE
    BY <1>5, <1>6, <1>7, <1>9
  <2>2. QED
    BY <2>1 DEF MarkInv
<1>14. ExactInv'
  <2> SUFFICES ASSUME ~merged', AsItIs'
               PROVE  /\ pc' # "retry"
                      /\ pc' = "file" => /\ wire' = <<>> /\ ret' = <<>>
                                         /\ NEWLINE \notin Range(content') => writehead' = 0
                      /\ TextHeld' = content'
    BY DEF ExactInv
  <2>1. /\ ~merged /\ AsItIs /\ content' = content /\ wire' = wire /\ ret' = ret
    BY DEF AsItIs, addLine, receiverVars
  <2>2. pc = "file" /\ wire = <<>> /\ ret = <<>> /\ TextHeld = content
    BY <2>1 DEF IInv, ExactInv, addLine, addingLine
  <2>3. NEWLINE \in Range(content)
    BY <1>1, <1>3, <2>2, Covers DEF IInv
  <2>4. QED
    BY <1>9, <1>11, <2>1, <2>2, <2>3
<1>15. QED
  BY <1>10, <1>11, <1>12, <1>13, <1>14 DEF IInv, LettersInv, addLine, receiverVars

(* Sender::add_chunk_from_file gives up: nothing moves.                    *)
LEMMA LineTooLong ==
  ASSUME IInv, lineTooLong
  PROVE  IInv'
<1>1. buffered' = buffered /\ pc' \in {"exited", "assertion"} /\ pc \in {"file", "retry"}
  BY DEF lineTooLong, addingLine, buffered
<1>2. TypeInv'
  BY <1>1 DEF IInv, TypeInv, lineTooLong, receiverVars
<1>3. LettersHeld' = LettersHeld /\ TextHeld' = TextHeld
  <2>1. Cat(buffered', rest') = Cat(buffered, rest) /\ UNCHANGED <<wire, ret>>
    BY <1>1 DEF lineTooLong, receiverVars
  <2>2. QED
    BY <1>2, <2>1, Kept DEF IInv
<1>4. WholeInv'
  BY <1>1, Standing DEF IInv, lineTooLong, receiverVars
<1>5. QED
  BY <1>1, <1>2, <1>3, <1>4
  DEF IInv, LettersInv, MarkInv, ExactInv, AsItIs, lineTooLong, receiverVars

(* Sender::add_chunk_from_file when a line does not fit: the block ends    *)
(* with a newline by MarkInv, which then is its marker; and ExactInv rules *)
(* the step out for a file of one line or of one block.                    *)
LEMMA SendFullBuffer ==
  ASSUME IInv, sendFullBuffer
  PROVE  IInv'
<1>1. PICK b, w, r, k : b = buffer /\ w = writehead /\ r = rest /\ k = Room
  OBVIOUS
<1>2. /\ b \in Buffers /\ w \in 1 .. BufferSize - 1 /\ r \in Chars /\ Len(r) \in Nat
      /\ BufferSize \in Nat /\ BufferSize >= 4
  <2>1. /\ b \in Buffers /\ w \in 0 .. BufferSize /\ w # BufferSize /\ w # 0 /\ r \in Chars
    BY <1>1 DEF IInv, TypeInv, sendFullBuffer
  <2>2. BufferSize \in Nat /\ BufferSize >= 4
    BY TransferAssumption
  <2>3. QED
    BY <2>1, <2>2 DEF Chars
<1>3. k = IF w = BufferSize - 1 THEN 0 ELSE BufferSize - w - 2
  BY <1>1, <1>2 DEF Room
<1>4. k \in 0 .. Len(r) /\ k < Len(r)
  <2>1. LineLength \in Nat /\ LineLength <= Len(r)
    <3>1. rest \in Chars
      BY <1>1, <1>2
    <3>2. QED
      BY <1>1, <3>1, LineEnds
  <2>2. LineLength > k
    BY <1>1 DEF sendFullBuffer
  <2>3. k \in Nat
    BY <1>2, <1>3
  <2>4. QED
    BY <1>2, <2>1, <2>2, <2>3
<1>5. PICK x, s, r1, w1, b1, f, g :
        /\ x = SubSeq(r, 1, k) /\ s = Append(x, NUL) /\ r1 = SubSeq(r, k + 1, Len(r))
        /\ w1 = BufferSize - 1 - w /\ b1 = MovedTo(WrittenTo(b, w, s), w)
        /\ f = FirstOf(b, w) /\ g = FirstOf(b1, w1)
  OBVIOUS
<1>6. /\ buffer' = b1 /\ writehead' = w1 /\ rest' = r1 /\ wire' = Append(wire, f)
      /\ buffered = f /\ buffered' = g /\ pc = "file" /\ pc' = "retry"
      /\ UNCHANGED <<content, lengths, ret, receiver, merged>>
  BY <1>1, <1>5
  DEF sendFullBuffer, Written, WrittenTo, MovedUp, MovedTo, First, FirstOf, buffered, receiverVars
<1>7. x \in Chars /\ Len(x) = k /\ r1 \in Chars /\ r = Cat(x, r1)
  BY <1>2, <1>4, <1>5, Splits
<1>8. NUL \in Nat /\ NUL <= NEWLINE
  BY DEF NUL, NEWLINE
<1>9. /\ s \in Chars /\ Len(s) = k + 1 /\ SubSeq(s, 1, k + 1) = s
      /\ Letters(s) = Letters(x)
  <2>1. s \in Chars /\ Len(s) = Len(x) + 1 /\ SubSeq(s, 1, Len(x) + 1) = s
    BY <1>5, <1>7, <1>8, Appends
  <2>2. Letters(s) = Letters(x)
    BY <1>5, <1>7, <1>8, Marked
  <2>3. QED
    BY <1>7, <2>1, <2>2
<1>10. b1 \in Buffers /\ g = SubSeq(s, 1, w1)
  <2>1. BufferSize - 1 - w <= Len(s) /\ w \in 0 .. BufferSize - 1
    BY <1>2, <1>3, <1>9
  <2>2. /\ MovedTo(WrittenTo(b, w, s), w) \in Buffers
        /\ FirstOf(MovedTo(WrittenTo(b, w, s), w), BufferSize - 1 - w)
             = SubSeq(s, 1, BufferSize - 1 - w)
    BY <1>2, <1>9, <2>1, MovedFirst
  <2>3. QED
    BY <1>5, <2>2
<1>11. Letters(g) = Letters(x)
  <2>1. CASE w = BufferSize - 1
    <3>1. w1 = 0 /\ k = 0
      BY <1>2, <1>3, <1>5, <2>1
    <3>2. g = <<>> /\ x = <<>>
      BY <1>7, <1>9, <1>10, <3>1 DEF Chars
    <3>3. QED
      BY <3>2
  <2>2. CASE w # BufferSize - 1
    <3>1. w1 = k + 1
      BY <1>2, <1>3, <1>5, <2>2
    <3>2. QED
      BY <1>9, <1>10, <3>1
  <2>3. QED
    BY <2>1, <2>2
<1>12. f \in Chars /\ Len(f) = w /\ f \in Block
  <2>1. w \in 0 .. BufferSize
    BY <1>2
  <2>2. f \in Chars /\ Len(f) = w
    BY <1>2, <1>5, <2>1, FirstType
  <2>3. QED
    BY <1>2, <2>2 DEF Block, Chars
<1>13. Last(f) = NEWLINE
  <2>1. b[w - 1] = NEWLINE
    BY <1>1, <1>2, <1>6 DEF IInv, MarkInv
  <2>2. w \in 1 .. w
    BY <1>2
  <2>3. f[w] = b[w - 1]
    BY <1>5, <2>2 DEF FirstOf
  <2>4. QED
    BY <1>12, <2>1, <2>3 DEF Last
<1>14. TypeInv'
  <2>1. w1 \in 0 .. BufferSize /\ w1 # BufferSize
    BY <1>2, <1>5
  <2>2. wire' \in Seq(Block)
    <3>1. wire \in Seq(Block)
      BY DEF IInv, TypeInv
    <3>2. QED
      BY <1>6, <1>12, <3>1
  <2>3. QED
    BY <1>6, <1>7, <1>10, <2>1, <2>2 DEF IInv, TypeInv
<1>15. LettersHeld' = LettersHeld
  <2>1. PICK lf, lx, l1 : lf = Letters(f) /\ lx = Letters(x) /\ l1 = Letters(r1)
    OBVIOUS
  <2>2. Letters(r) = Cat(lx, l1)
    BY <1>7, <2>1, LettersCat
  <2>3. Cat(Letters(f), Cat(Letters(buffered'), Letters(rest')))
          = Cat(Letters(buffered), Letters(rest))
    BY <1>1, <1>6, <1>11, <2>1, <2>2
  <2>4. QED
    BY <1>6, <1>12, <1>14, <2>3, LettersSent DEF IInv
<1>16. WholeInv'
  <2>1. Len(f) <= BufferSize /\ Last(f) = MORE_PACKETS
    BY <1>2, <1>12, <1>13 DEF MORE_PACKETS
  <2>2. QED
    BY <1>6, <1>12, <2>1, Joined DEF IInv
<1>17. ~(~merged /\ AsItIs)
  <2> SUFFICES ASSUME ~merged, AsItIs PROVE FALSE
    OBVIOUS
  <2>1. TextHeld = content /\ NEWLINE \in Range(content)
    BY <1>1, <1>2, <1>6 DEF IInv, ExactInv
  <2>2. Len(content) < BufferSize - 1
    BY <2>1 DEF AsItIs
  <2>3. Len(content) \in Nat /\ Len(content) >= w + Len(r)
    BY <1>1, <2>1, Covers DEF IInv
  <2>4. w + Len(r) >= BufferSize - 1
    BY <1>2, <1>3, <1>4
  <2>5. QED
    BY <1>2, <2>2, <2>3, <2>4
<1>18. ExactInv'
  BY <1>6, <1>17 DEF ExactInv, AsItIs
<1>19. QED
  BY <1>6, <1>14, <1>15, <1>16, <1>18 DEF IInv, LettersInv, MarkInv

(* Lengths of chunks are numbers.                                          *)
LEMMA SizesAre ==
  ASSUME NEW l \in Seq(Sizes)
  PROVE  l \in Seq(Nat)
<1>1. Len(l) \in Nat /\ l \in [1 .. Len(l) -> Sizes]
  OBVIOUS
<1>2. \A i \in 1 .. Len(l) : l[i] \in Nat
  BY <1>1 DEF Sizes
<1>3. l \in [1 .. Len(l) -> Nat]
  BY <1>1, <1>2
<1>4. QED
  BY <1>1, <1>3

(* Sender::add_chunk preserves the invariant.                              *)
LEMMA AddChunk ==
  ASSUME IInv, add_chunk
  PROVE  IInv'
<1>1. PICK b, w, r, l, k : /\ b = buffer /\ w = writehead /\ r = rest
                           /\ l = lengths /\ k = Head(lengths)
  OBVIOUS
<1>2. /\ b \in Buffers /\ w \in 0 .. BufferSize - 1 /\ r \in Chars /\ Len(r) \in Nat
      /\ BufferSize \in Nat /\ l \in Seq(Sizes) /\ l # <<>> /\ pc = "chunks"
      /\ Len(r) = Total(l)
  BY <1>1, TransferAssumption DEF IInv, TypeInv, add_chunk, Chars
<1>3. /\ k = Head(l) /\ k \in Sizes /\ Tail(l) \in Seq(Sizes)
      /\ l \in Seq(Nat) /\ Tail(l) \in Seq(Nat)
  <2>1. /\ Head(l) \in Sizes /\ Tail(l) \in Seq(Sizes)
    BY <1>2
  <2>2. l \in Seq(Nat) /\ Tail(l) \in Seq(Nat)
    BY <1>2, <2>1, SizesAre
  <2>3. QED
    BY <1>1, <2>1, <2>2
<1>4. Total(l) = k + Total(Tail(l)) /\ Total(Tail(l)) \in Nat
  <2>1. Total(l) = Head(l) + Total(Tail(l))
    BY <1>2, <1>3, TotalTail
  <2>2. PICK t : t = Tail(l)
    OBVIOUS
  <2>3. t \in Seq(Nat)
    BY <1>3, <2>2
  <2>4. Total(t) \in Nat
    BY <2>3, Totals
  <2>5. QED
    BY <1>3, <2>1, <2>2, <2>4
<1>5. k \in 1 .. Len(r) /\ w + k <= BufferSize - 1
  <2>1. k <= BufferSize - 1 - w
    BY <1>1 DEF add_chunk, Fits
  <2>2. k \in Nat /\ k >= 1
    BY <1>2, <1>3 DEF Sizes
  <2>3. QED
    BY <1>2, <1>4, <2>1, <2>2
<1>6. PICK b1, r1, n : /\ b1 = Added(b, w, r, k, MORE_PACKETS)
                       /\ r1 = After(r, k) /\ n = w + k
  OBVIOUS
<1>7. /\ buffer' = b1 /\ rest' = r1 /\ writehead' = n /\ lengths' = Tail(l) /\ pc' = "chunks"
      /\ UNCHANGED <<content, wire, ret, receiver, merged>>
  BY <1>1, <1>2, <1>6 DEF add_chunk, Written, WrittenTo, Added, After, receiverVars
<1>8. /\ b1 \in Buffers /\ r1 \in Chars /\ FirstOf(b1, n) \in Chars
      /\ Cat(FirstOf(b1, n), r1) = Cat(FirstOf(b, w), r)
      /\ n \in 0 .. BufferSize - 1 /\ b1[n] = MORE_PACKETS
  <2>1. /\ w \in 0 .. BufferSize /\ k \in 0 .. Len(r) /\ MORE_PACKETS \in Nat
        /\ n \in 0 .. BufferSize /\ n \in 0 .. BufferSize - 1 /\ IsSum(n, w, k)
    BY <1>2, <1>5, <1>6 DEF MORE_PACKETS, NEWLINE, IsSum
  <2>2. /\ b1 \in Buffers /\ r1 \in Chars /\ FirstOf(b1, n) \in Chars
        /\ Cat(FirstOf(b1, n), r1) = Cat(FirstOf(b, w), r)
    BY <1>2, <1>6, <2>1, AddsText
  <2>3. b1[n] = MORE_PACKETS
    BY <1>2, <1>6, <2>1, AddsMark
  <2>4. QED
    BY <2>1, <2>2, <2>3
<1>9. Len(r1) = Total(Tail(l))
  <2>1. k \in 0 .. Len(r)
    BY <1>2, <1>5
  <2>2. Len(SubSeq(r, k + 1, Len(r))) = Len(r) - k
    BY <1>2, <2>1, Splits
  <2>3. QED
    <3>1. k \in Nat /\ Len(r1) = Len(r) - k
      <4>1. k \in Nat
        BY <1>2, <1>5
      <4>2. r1 = SubSeq(r, k + 1, Len(r))
        BY <1>6 DEF After
      <4>3. QED
        BY <2>2, <4>1, <4>2
    <3>2. Len(r) = k + Total(Tail(l)) /\ Total(Tail(l)) \in Nat
      BY <1>2, <1>4
    <3>3. QED
      BY <3>1, <3>2
<1>10. TypeInv'
  <2>1. n \in 0 .. BufferSize /\ n # BufferSize
    BY <1>2, <1>8
  <2>2. QED
    BY <1>3, <1>7, <1>8, <1>9, <2>1 DEF IInv, TypeInv
<1>11. Cat(buffered', rest') = Cat(buffered, rest)
  BY <1>1, <1>7, <1>8 DEF buffered
<1>12. LettersHeld' = LettersHeld /\ TextHeld' = TextHeld
  BY <1>7, <1>10, <1>11, Kept DEF IInv
<1>13. WholeInv'
  BY <1>2, <1>7, Standing DEF IInv
<1>14. MarkInv'
  BY <1>7, <1>8 DEF MarkInv
<1>15. QED
  BY <1>7, <1>10, <1>12, <1>13, <1>14 DEF IInv, LettersInv, ExactInv, AsItIs

(* Sender::send_chunks sends the buffer and the marker of MarkInv behind   *)
(* it.                                                                     *)
LEMMA SendChunks ==
  ASSUME IInv, send_chunks
  PROVE  IInv'
<1>1. PICK b, w, r : b = buffer /\ w = writehead /\ r = rest
  OBVIOUS
<1>2. /\ b \in Buffers /\ w \in 0 .. BufferSize - 1 /\ r \in Chars
      /\ BufferSize \in Nat /\ BufferSize >= 4 /\ pc = "chunks"
  BY <1>1, TransferAssumption DEF IInv, TypeInv, send_chunks
<1>3. w > 0
  <2>1. lengths \in Seq(Sizes) /\ lengths # <<>>
    BY DEF IInv, TypeInv, send_chunks
  <2>2. Head(lengths) \in Sizes
    BY <2>1
  <2>3. ~(Head(lengths) <= BufferSize - 1 - w)
    BY <1>1 DEF send_chunks, Fits
  <2>4. QED
    BY <1>2, <2>2, <2>3 DEF Sizes
<1>4. PICK f, g, h, e : /\ f = FirstOf(b, w) /\ g = Append(f, b[w])
                        /\ h = FirstOf(b, 0) /\ e = <<>>
  OBVIOUS
<1>5. f \in Chars /\ Len(f) = w /\ h = e /\ e \in Chars /\ Letters(e) = e
  <2>1. w \in 0 .. BufferSize /\ 0 \in 0 .. BufferSize
    BY <1>2
  <2>2. f \in Chars /\ Len(f) = w /\ h \in Chars /\ Len(h) = 0
    BY <1>2, <1>4, <2>1, FirstType
  <2>3. QED
    BY <1>4, <2>2, LettersNone DEF Chars
<1>6. b[w] = MORE_PACKETS /\ MORE_PACKETS \in Nat /\ MORE_PACKETS <= NEWLINE
  BY <1>1, <1>2, <1>3 DEF IInv, MarkInv, MORE_PACKETS, NEWLINE
<1>7. /\ g \in Block /\ Letters(g) = Letters(f) /\ Front(g) = f /\ Last(g) = MORE_PACKETS
      /\ Len(g) = w + 1
  <2>1. g \in Block /\ Letters(g) = Letters(f)
    BY <1>4, <1>5, <1>6, Marked
  <2>2. Front(g) = f /\ Last(g) = MORE_PACKETS /\ Len(g) = Len(f) + 1
    BY <1>4, <1>5, <1>6, Appends
  <2>3. QED
    BY <1>5, <2>1, <2>2
<1>8. FirstOf(b, w + 1) = g
  BY <1>2, <1>4, FirstNext
<1>9. /\ wire' = Append(wire, g) /\ writehead' = 0 /\ buffered = f /\ buffered' = e
      /\ rest' = r /\ pc' = "chunks"
      /\ UNCHANGED <<content, lengths, buffer, ret, receiver, merged>>
  BY <1>1, <1>2, <1>4, <1>5, <1>8 DEF send_chunks, First, FirstOf, buffered, receiverVars
<1>10. TypeInv'
  <2>1. wire' \in Seq(Block)
    <3>1. wire \in Seq(Block)
      BY DEF IInv, TypeInv
    <3>2. QED
      BY <1>7, <1>9, <3>1
  <2>2. 0 \in 0 .. BufferSize /\ 0 # BufferSize
    BY <1>2
  <2>3. QED
    BY <1>1, <1>2, <1>9, <2>1, <2>2 DEF IInv, TypeInv
<1>11. LettersHeld' = LettersHeld
  <2>1. PICK lf, lr : lf = Letters(f) /\ lr = Letters(r)
    OBVIOUS
  <2>2. Cat(e, lr) = lr
    BY <1>2, <1>4, <2>1, MarksType, Algebra
  <2>3. Cat(Letters(g), Cat(Letters(buffered'), Letters(rest')))
          = Cat(Letters(buffered), Letters(rest))
    BY <1>1, <1>5, <1>7, <1>9, <2>1, <2>2
  <2>4. QED
    BY <1>7, <1>9, <1>10, <2>3, LettersSent DEF IInv
<1>12. TextHeld' = TextHeld
  <2>1. Cat(e, r) = r
    BY <1>2, <1>4, Algebra
  <2>2. Cat(Front(g), Cat(buffered', rest')) = Cat(buffered, rest)
    BY <1>1, <1>7, <1>9, <2>1
  <2>3. QED
    BY <1>7, <1>9, <1>10, <2>2, TextSent DEF IInv
<1>13. WholeInv'
  <2>1. Len(g) <= BufferSize
    BY <1>2, <1>7
  <2>2. QED
    BY <1>2, <1>7, <1>9, <2>1, Joined DEF IInv
<1>14. MarkInv'
  BY <1>9 DEF MarkInv
<1>15. QED
  BY <1>2, <1>9, <1>10, <1>11, <1>12, <1>13, <1>14 DEF IInv, LettersInv, ExactInv, AsItIs

(* Sender::close sends what is left with the marker of the end.            *)
LEMMA Close ==
  ASSUME IInv, close
  PROVE  IInv'
<1>1. PICK b, w : b = buffer /\ w = writehead
  OBVIOUS
<1>2. /\ b \in Buffers /\ w \in 0 .. BufferSize - 1
      /\ BufferSize \in Nat /\ BufferSize >= 4
      /\ pc \in {"close", "chunks"} /\ rest = <<>>
  <2>1. pc \in {"close", "chunks"} /\ BufferSize \in Nat /\ BufferSize >= 4
    BY TransferAssumption DEF close
  <2>2. b \in Buffers /\ w \in 0 .. BufferSize /\ w # BufferSize
    BY <1>1, <2>1 DEF IInv, TypeInv
  <2>3. rest = <<>>
    <3>1. CASE pc = "close"
      BY <3>1 DEF IInv, TypeInv
    <3>2. CASE pc = "chunks"
      <4>1. lengths = <<>> /\ Len(rest) = Total(lengths) /\ rest \in Seq(Nat)
        BY <3>2 DEF close, IInv, TypeInv, Chars
      <4>2. PICK l : l = lengths
        OBVIOUS
      <4>3. l \in Seq(Nat) /\ l = <<>>
        BY <4>1, <4>2
      <4>4. Total(l) = 0
        BY <4>3, Totals
      <4>5. QED
        BY <4>1, <4>2, <4>4
    <3>3. QED
      BY <2>1, <3>1, <3>2
  <2>4. QED
    BY <2>1, <2>2, <2>3
<1>3. PICK f, g, e, b1 : /\ f = FirstOf(b, w) /\ g = Append(f, NUL) /\ e = <<>>
                         /\ b1 = [b EXCEPT ![w] = END_OF_FILE]
  OBVIOUS
<1>4. NUL \in Nat /\ NUL <= NEWLINE /\ END_OF_FILE = NUL
  BY DEF NUL, NEWLINE, END_OF_FILE
<1>5. b1 \in Buffers
  BY <1>2, <1>3, <1>4 DEF Buffers
<1>6. f \in Chars /\ Len(f) = w /\ FirstOf(b1, 0) = e /\ e \in Chars /\ Letters(e) = e
  <2>1. w \in 0 .. BufferSize /\ 0 \in 0 .. BufferSize
    BY <1>2
  <2>2. f \in Chars /\ Len(f) = w
    BY <1>2, <1>3, <2>1, FirstType
  <2>3. FirstOf(b1, 0) \in Chars /\ Len(FirstOf(b1, 0)) = 0
    BY <1>5, <2>1, FirstType
  <2>4. QED
    BY <1>3, <2>2, <2>3, LettersNone DEF Chars
<1>7. /\ g \in Block /\ Letters(g) = Letters(f) /\ Front(g) = f /\ Last(g) = END_OF_FILE
      /\ Len(g) = w + 1 /\ g = f \o <<END_OF_FILE>>
  <2>1. g \in Block /\ Letters(g) = Letters(f)
    BY <1>3, <1>4, <1>6, Marked
  <2>2. /\ Front(g) = f /\ Last(g) = END_OF_FILE /\ Len(g) = Len(f) + 1
        /\ g = Cat(f, <<END_OF_FILE>>)
    BY <1>3, <1>4, <1>6, Appends
  <2>3. QED
    BY <1>6, <2>1, <2>2 DEF Cat
<1>8. /\ wire' = Append(wire, g) /\ writehead' = 0 /\ buffer' = b1
      /\ buffered = f /\ buffered' = e
      /\ rest = e /\ rest' = e /\ pc' = "sent"
      /\ UNCHANGED <<content, lengths, ret, receiver, merged>>
  <2>1. First(writehead) = f
    BY <1>1, <1>3 DEF First, FirstOf
  <2>2. QED
    BY <1>1, <1>2, <1>3, <1>6, <1>7, <2>1 DEF close, buffered, receiverVars
<1>9. TypeInv'
  <2>1. wire' \in Seq(Block)
    <3>1. wire \in Seq(Block)
      BY DEF IInv, TypeInv
    <3>2. QED
      BY <1>7, <1>8, <3>1
  <2>2. 0 \in 0 .. BufferSize /\ 0 # BufferSize
    BY <1>2
  <2>3. QED
    BY <1>3, <1>5, <1>6, <1>8, <2>1, <2>2 DEF IInv, TypeInv
<1>10. LettersHeld' = LettersHeld
  <2>1. PICK lf : lf = Letters(f)
    OBVIOUS
  <2>2. Cat(e, e) = e
    BY <1>3, <1>6, Algebra
  <2>3. Cat(Letters(g), Cat(Letters(buffered'), Letters(rest')))
          = Cat(Letters(buffered), Letters(rest))
    BY <1>6, <1>7, <1>8, <2>1, <2>2
  <2>4. QED
    BY <1>7, <1>8, <1>9, <2>3, LettersSent DEF IInv
<1>11. TextHeld' = TextHeld
  <2>1. Cat(e, e) = e
    BY <1>3, <1>6, Algebra
  <2>2. Cat(Front(g), Cat(buffered', rest')) = Cat(buffered, rest)
    BY <1>7, <1>8, <2>1
  <2>3. QED
    BY <1>7, <1>8, <1>9, <2>2, TextSent DEF IInv
<1>12. WholeInv'
  <2>1. Len(g) <= BufferSize
    BY <1>2, <1>7
  <2>2. QED
    BY <1>2, <1>7, <1>8, <2>1, Joined DEF IInv
<1>13. QED
  BY <1>8, <1>9, <1>10, <1>11, <1>12 DEF IInv, LettersInv, ExactInv, AsItIs, MarkInv

-----------------------------------------------------------------------------
(* The receiver.                                                           *)

(* One block holds what it holds.                                          *)
LEMMA FlattenOne ==
  ASSUME NEW s \in Chars
  PROVE  FlattenSeq(<<s>>) = s
<1>1. s \in Seq(Nat) /\ <<>> \in Seq(Seq(Nat)) /\ Append(<<>>, s) = <<s>>
  BY DEF Chars
<1>2. FlattenSeq(Append(<<>>, s)) = FlattenSeq(<<>>) \o s
  BY <1>1, FlattenAppend
<1>3. <<>> \o s = s
  BY <1>1
<1>4. QED
  BY <1>1, <1>2, <1>3, FlattenEmpty

(* What a block holds is what is in front of its marker, and the marker.   *)
LEMMA LastFront ==
  ASSUME NEW s \in Block
  PROVE  Front(s) \in Chars /\ Last(s) \in Nat /\ s = Append(Front(s), Last(s))
<1>1. s \in Seq(Nat) /\ Len(s) \in Nat /\ Len(s) >= 1
  BY DEF Block
<1>2. PICK f, c, r : f = Front(s) /\ c = Last(s) /\ r = Append(f, c)
  OBVIOUS
<1>3. f \in Seq(Nat) /\ Len(f) = Len(s) - 1 /\ \A i \in 1 .. Len(s) - 1 : f[i] = s[i]
  <2>1. PICK n : n = Len(s) - 1
    OBVIOUS
  <2>2. n \in Nat /\ n <= Len(s) /\ f = SubSeq(s, 1, n)
    BY <1>1, <1>2, <2>1 DEF Front
  <2>3. f \in Seq(Nat) /\ Len(f) = n /\ \A i \in 1 .. n : f[i] = s[i]
    BY <1>1, <2>2
  <2>4. QED
    BY <2>1, <2>3
<1>4. c = s[Len(s)] /\ c \in Nat
  BY <1>1, <1>2 DEF Last
<1>5. /\ r \in Seq(Nat) /\ Len(r) = Len(s) /\ r[Len(s)] = c
      /\ \A i \in 1 .. Len(s) - 1 : r[i] = f[i]
  BY <1>1, <1>2, <1>3, <1>4
<1>6. ASSUME NEW i \in 1 .. Len(s) PROVE s[i] = r[i]
  <2>1. CASE i = Len(s)
    BY <1>4, <1>5, <2>1
  <2>2. CASE i # Len(s)
    <3>1. i \in 1 .. Len(s) - 1
      BY <1>1, <2>2
    <3>2. QED
      BY <1>3, <1>5, <3>1
  <2>3. QED
    BY <2>1, <2>2
<1>7. s = r
  BY <1>1, <1>5, <1>6, SameSeq
<1>8. QED
  BY <1>2, <1>3, <1>4, <1>7 DEF Chars

(* The first blocks of a wire, and the others.                             *)
LEMMA WireSplits ==
  ASSUME NEW w \in Seq(Block), NEW n \in 1 .. Len(w)
  PROVE  /\ FlattenSeq(SubSeq(w, 1, n)) \in Block /\ SubSeq(w, n + 1, Len(w)) \in Seq(Block)
         /\ FlattenSeq(w) = Cat(FlattenSeq(SubSeq(w, 1, n)), FlattenSeq(SubSeq(w, n + 1, Len(w))))
<1>1. PICK u, v : u = SubSeq(w, 1, n) /\ v = SubSeq(w, n + 1, Len(w))
  OBVIOUS
<1>2. n \in 0 .. Len(w)
  OBVIOUS
<1>3. /\ u \in Seq(Block) /\ Len(u) = n /\ v \in Seq(Block) /\ w = Cat(u, v)
  BY <1>1, <1>2, SplitsSeq
<1>4. u \in Seq(Seq(Nat)) /\ v \in Seq(Seq(Nat)) /\ FlattenSeq(u) \in Chars
  BY <1>3, Holds
<1>5. FlattenSeq(w) = Cat(FlattenSeq(u), FlattenSeq(v))
  BY <1>3, <1>4, FlattenCat
<1>6. FlattenSeq(u) # <<>>
  <2>1. u # <<>> /\ Head(u) \in Block
    BY <1>3
  <2>2. PICK h, z : h = Head(u) /\ z = FlattenSeq(Tail(u))
    OBVIOUS
  <2>3. Tail(u) \in Seq(Seq(Nat))
    BY <1>4, <2>1, TailProperties
  <2>4. h \in Seq(Nat) /\ h # <<>> /\ z \in Seq(Nat)
    BY <2>1, <2>2, <2>3, FlattenType DEF Block
  <2>5. FlattenSeq(u) = h \o z
    BY <1>4, <2>1, <2>2, FlattenHeadTail
  <2>6. QED
    BY <2>4, <2>5
<1>7. QED
  BY <1>1, <1>3, <1>4, <1>5, <1>6 DEF Block, Chars

(* What is left of a block goes in front of the others.                    *)
LEMMA Rejoins ==
  ASSUME NEW v \in Seq(Block), NEW s \in Chars
  PROVE  /\ (IF s = <<>> THEN <<>> ELSE <<s>>) \o v \in Seq(Block)
         /\ FlattenSeq((IF s = <<>> THEN <<>> ELSE <<s>>) \o v) = Cat(s, FlattenSeq(v))
<1>1. FlattenSeq(v) \in Chars /\ v \in Seq(Seq(Nat))
  BY Holds
<1>2. CASE s = <<>>
  <2>1. <<>> \o v = v
    OBVIOUS
  <2>2. Cat(s, FlattenSeq(v)) = FlattenSeq(v)
    BY <1>1, <1>2, Algebra
  <2>3. QED
    BY <1>2, <2>1, <2>2
<1>3. CASE s # <<>>
  <2>1. <<s>> \o v \in Seq(Block) /\ <<s>> \in Seq(Seq(Nat))
    BY <1>3 DEF Block, Chars
  <2>2. FlattenSeq(Cat(<<s>>, v)) = Cat(FlattenSeq(<<s>>), FlattenSeq(v))
    BY <1>1, <2>1, FlattenCat
  <2>3. QED
    BY <1>3, <2>1, <2>2, FlattenOne DEF Cat
<1>4. QED
  BY <1>2, <1>3

(* The first block of a wire, without its marker, and the others without   *)
(* theirs.                                                                 *)
LEMMA FirstBlock ==
  ASSUME NEW w \in Seq(Block), NEW v, Len(w) >= 1, v = SubSeq(w, 2, Len(w))
  PROVE  /\ FlattenSeq(SubSeq(w, 1, 1)) = w[1] /\ w[1] \in Block
         /\ FlattenSeq(Fronts(w)) = Cat(Front(w[1]), FlattenSeq(Fronts(v)))
         /\ v \in Seq(Block) /\ Len(v) = Len(w) - 1
         /\ \A i \in 1 .. Len(v) : v[i] = w[i + 1]
<1>1. Len(w) \in Nat /\ w[1] \in Block
  OBVIOUS
<1>2. v \in Seq(Block) /\ Len(v) = Len(w) - 1 /\ \A i \in 1 .. Len(v) : v[i] = w[i + 1]
  <2>1. v \in Seq(Block) /\ Len(v) = Len(w) - 1
    <3>1. 1 \in 0 .. Len(w)
      BY <1>1
    <3>2. /\ SubSeq(w, 1 + 1, Len(w)) \in Seq(Block)
          /\ Len(SubSeq(w, 1 + 1, Len(w))) = Len(w) - 1
      BY <3>1, SplitsSeq
    <3>3. 1 + 1 = 2
      OBVIOUS
    <3>4. QED
      BY <3>2, <3>3
  <2>2. PICK l : l = Len(w) - 1
    OBVIOUS
  <2>3. ASSUME NEW i \in 1 .. l PROVE v[i] = w[i + 1]
    <3>1. l \in Nat /\ i \in 1 .. (Len(w) - 2 + 1)
      BY <1>1, <2>2
    <3>2. SubSeq(w, 2, Len(w))[i] = w[2 + i - 1]
      BY <1>1, <3>1
    <3>3. 2 + i - 1 = i + 1
      BY <3>1
    <3>4. QED
      BY <3>2, <3>3
  <2>4. QED
    BY <2>1, <2>2, <2>3
<1>3. SubSeq(w, 1, 1) = <<w[1]>>
  <2>1. PICK u, x : u = SubSeq(w, 1, 1) /\ x = <<w[1]>>
    OBVIOUS
  <2>2. u \in Seq(Block) /\ Len(u) = 1 /\ u[1] = w[1]
    BY <1>1, <2>1
  <2>3. x \in Seq(Block) /\ Len(x) = 1 /\ x[1] = w[1]
    BY <1>1, <2>1
  <2>4. u = x
    BY <2>2, <2>3, SameSeq
  <2>5. QED
    BY <2>1, <2>4
<1>4. FlattenSeq(SubSeq(w, 1, 1)) = w[1]
  BY <1>1, <1>3, FlattenOne DEF Block, Chars
<1>5. PICK f, g : f = Fronts(w) /\ g = Fronts(v)
  OBVIOUS
<1>6. /\ f \in Seq(Seq(Nat)) /\ Len(f) = Len(w) /\ \A i \in 1 .. Len(w) : f[i] = Front(w[i])
  BY <1>5, Holds
<1>7. /\ g \in Seq(Seq(Nat)) /\ Len(g) = Len(v) /\ \A i \in 1 .. Len(v) : g[i] = Front(v[i])
  BY <1>2, <1>5, Holds
<1>8. f # <<>> /\ Head(f) = Front(w[1])
  BY <1>1, <1>6
<1>9. PICK t : t = Tail(f)
  OBVIOUS
<1>10. t \in Seq(Seq(Nat)) /\ Len(t) = Len(f) - 1 /\ \A i \in 1 .. Len(t) : t[i] = f[i + 1]
  BY <1>6, <1>8, <1>9, TailProperties
<1>11. ASSUME NEW i \in 1 .. Len(g) PROVE g[i] = t[i]
  <2>1. i \in 1 .. Len(v) /\ i \in 1 .. Len(t) /\ i + 1 \in 1 .. Len(w)
    BY <1>1, <1>2, <1>6, <1>7, <1>10
  <2>2. QED
    BY <1>2, <1>6, <1>7, <1>10, <2>1
<1>12. g = t
  <2>1. Len(g) = Len(t)
    BY <1>1, <1>2, <1>6, <1>7, <1>10
  <2>2. QED
    BY <1>7, <1>10, <1>11, <2>1, SameSeq
<1>13. FlattenSeq(f) = Head(f) \o FlattenSeq(Tail(f))
  BY <1>6, <1>8, FlattenHeadTail
<1>14. QED
  BY <1>1, <1>2, <1>4, <1>5, <1>8, <1>9, <1>12, <1>13 DEF Cat

(* A step of receiveLongMessage_sync, whatever the read returns, keeps     *)
(* every letter; and when it returns one block, that block ends where a    *)
(* marker stands.                                                          *)
LEMMA Receive ==
  ASSUME IInv, receive
  PROVE  IInv'
<1>1. PICK n \in 1 .. Len(wire) :
        LET come == FlattenSeq(SubSeq(wire, 1, n))
        IN  \E size \in 1 .. Min({Len(come), ReadSize}) :
              LET got  == SubSeq(come, 1, size)
                  left == SubSeq(come, size + 1, Len(come))
              IN  /\ size > Len(come) - Len(wire[n])
                  /\ wire' = (IF left = <<>> THEN <<>> ELSE <<left>>)
                               \o SubSeq(wire, n + 1, Len(wire))
                  /\ ret' = Appended(got)
                  /\ receiver' = CASE Last(got) = END_OF_FILE  -> "done"
                                   [] Last(got) = MORE_PACKETS -> "reading"
                                   [] OTHER                    -> "assertion"
                  /\ merged' = (merged \/ n > 1 \/ left # <<>>)
  BY DEF receive
<1> DEFINE flat == FlattenSeq(SubSeq(wire, 1, n))
<1>2. PICK k \in 1 .. Min({Len(flat), ReadSize}) :
        LET got  == SubSeq(flat, 1, k)
            left == SubSeq(flat, k + 1, Len(flat))
        IN  /\ wire' = (IF left = <<>> THEN <<>> ELSE <<left>>)
                         \o SubSeq(wire, n + 1, Len(wire))
            /\ ret' = Appended(got)
            /\ receiver' = CASE Last(got) = END_OF_FILE  -> "done"
                             [] Last(got) = MORE_PACKETS -> "reading"
                             [] OTHER                    -> "assertion"
            /\ merged' = (merged \/ n > 1 \/ left # <<>>)
  BY <1>1
<1>3. PICK w, v, come, m, got, left, p, fg :
        /\ w = wire /\ v = SubSeq(w, n + 1, Len(w)) /\ come = FlattenSeq(SubSeq(w, 1, n))
        /\ m = Min({Len(come), ReadSize}) /\ got = SubSeq(come, 1, k)
        /\ left = SubSeq(come, k + 1, Len(come)) /\ p = ret /\ fg = Front(got)
  OBVIOUS
<1>4. /\ wire' = (IF left = <<>> THEN <<>> ELSE <<left>>) \o v
      /\ ret' = Cat(p, fg)
      /\ receiver' = CASE Last(got) = END_OF_FILE  -> "done"
                       [] Last(got) = MORE_PACKETS -> "reading"
                       [] OTHER                    -> "assertion"
      /\ merged' = (merged \/ n > 1 \/ left # <<>>)
  BY <1>2, <1>3 DEF Appended, Cat
<1>5. receiver = "reading" /\ UNCHANGED senderVars
  BY DEF receive
<1>6. w \in Seq(Block) /\ p \in Chars /\ Len(w) \in Nat /\ n \in 1 .. Len(w)
  BY <1>3 DEF IInv, TypeInv
<1>7. come \in Block /\ v \in Seq(Block) /\ FlattenSeq(w) = Cat(come, FlattenSeq(v))
  BY <1>3, <1>6, WireSplits
<1>8. come \in Chars /\ Len(come) \in Nat /\ Len(come) >= 1
  BY <1>7 DEF Block, Chars
<1>9. k \in 1 .. Len(come)
  <2>1. ReadSize \in Nat /\ ReadSize >= 1
    BY TransferAssumption
  <2>2. PICK S : S = {Len(come), ReadSize}
    OBVIOUS
  <2>3. S \in SUBSET Nat /\ S # {}
    BY <1>8, <2>1, <2>2
  <2>4. m \in S /\ \A y \in S : m <= y
    BY <1>3, <2>2, <2>3, LeastExists
  <2>5. k \in 1 .. m
    BY <1>2, <1>3
  <2>6. QED
    BY <1>8, <2>1, <2>2, <2>4, <2>5
<1>10. got \in Block /\ Len(got) = k /\ left \in Chars /\ come = Cat(got, left)
      /\ Len(left) = Len(come) - k
  <2>1. k \in 0 .. Len(come)
    BY <1>8, <1>9
  <2>2. /\ SubSeq(come, 1, k) \in Chars /\ Len(SubSeq(come, 1, k)) = k
        /\ SubSeq(come, k + 1, Len(come)) \in Chars
        /\ Len(SubSeq(come, k + 1, Len(come))) = Len(come) - k
        /\ come = Cat(SubSeq(come, 1, k), SubSeq(come, k + 1, Len(come)))
    BY <1>8, <2>1, Splits
  <2>3. left = SubSeq(come, k + 1, Len(come)) /\ got = SubSeq(come, 1, k)
    BY <1>3
  <2>4. got \in Chars /\ Len(got) = k
    BY <2>2, <2>3
  <2>5. got \in Block
    BY <1>9, <2>4 DEF Block, Chars
  <2>6. QED
    BY <2>2, <2>3, <2>4, <2>5
<1>11. fg \in Chars /\ Last(got) \in Nat /\ got = Append(fg, Last(got))
  BY <1>3, <1>10, LastFront
<1>12. wire' \in Seq(Block) /\ FlattenSeq(wire') = Cat(left, FlattenSeq(v))
  BY <1>4, <1>7, <1>10, Rejoins
<1>13. TypeInv'
  <2>1. Cat(p, fg) \in Chars
    BY <1>6, <1>11, Algebra
  <2>2. QED
    BY <1>4, <1>5, <1>12, <2>1 DEF IInv, TypeInv, senderVars
<1>14. LettersInv'
  <2> SUFFICES ASSUME receiver' # "assertion" PROVE LettersHeld' = Letters(content')
    BY DEF LettersInv
  <2>1. Last(got) <= NEWLINE
    BY <1>4 DEF END_OF_FILE, MORE_PACKETS, NUL, NEWLINE
  <2>2. Letters(got) = Letters(fg)
    BY <1>11, <2>1, Marked
  <2>3. PICK fv, z, lg, ll, lv, lp :
          /\ fv = FlattenSeq(v) /\ z = Cat(Letters(buffered), Letters(rest))
          /\ lg = Letters(got) /\ ll = Letters(left) /\ lv = Letters(fv) /\ lp = Letters(p)
    OBVIOUS
  <2>4. fv \in Chars /\ got \in Chars
    BY <1>7, <1>10, <2>3, Holds DEF Block, Chars
  <2>5. lg \in Chars /\ ll \in Chars /\ lv \in Chars /\ lp \in Chars
    BY <1>6, <1>10, <2>3, <2>4, MarksType
  <2>6. z \in Chars
    <3>1. PICK x, y : x = buffered /\ y = rest
      OBVIOUS
    <3>2. x \in Chars /\ y \in Chars
      BY <3>1, HeldType DEF IInv, TypeInv
    <3>3. Letters(x) \in Chars /\ Letters(y) \in Chars
      BY <3>2, MarksType
    <3>4. QED
      BY <2>3, <3>1, <3>3, Algebra
  <2>7. Letters(Cat(p, fg)) = Cat(lp, lg)
    BY <1>6, <1>11, <2>2, <2>3, LettersCat
  <2>8. Letters(Cat(left, fv)) = Cat(ll, lv)
    BY <1>10, <2>3, <2>4, LettersCat
  <2>9. Letters(FlattenSeq(w)) = Cat(Cat(lg, ll), lv)
    <3>1. Letters(come) = Cat(lg, ll)
      BY <1>10, <2>3, <2>4, LettersCat
    <3>2. Letters(Cat(come, fv)) = Cat(Letters(come), lv)
      BY <1>8, <2>3, <2>4, LettersCat
    <3>3. QED
      BY <1>7, <2>3, <3>1, <3>2
  <2>10. LettersHeld' = Cat(Cat(lp, lg), Cat(Cat(ll, lv), z))
    <3>1. buffered' = buffered /\ rest' = rest
      BY <1>5 DEF senderVars, buffered
    <3>2. QED
      BY <1>4, <1>12, <2>3, <2>7, <2>8, <3>1 DEF LettersHeld
  <2>11. LettersHeld = Cat(lp, Cat(Cat(Cat(lg, ll), lv), z))
    BY <1>3, <2>3, <2>9 DEF LettersHeld
  <2>12. Cat(Cat(lp, lg), Cat(Cat(ll, lv), z)) = Cat(lp, Cat(Cat(Cat(lg, ll), lv), z))
    <3>1. Cat(Cat(Cat(lg, ll), lv), z) = Cat(lg, Cat(Cat(ll, lv), z))
      BY <2>5, <2>6, Algebra
    <3>2. Cat(Cat(lp, lg), Cat(Cat(ll, lv), z)) = Cat(lp, Cat(lg, Cat(Cat(ll, lv), z)))
      BY <2>5, <2>6, Algebra
    <3>3. QED
      BY <3>1, <3>2
  <2>13. LettersHeld = Letters(content) /\ content' = content
    BY <1>5 DEF IInv, LettersInv, senderVars
  <2>14. QED
    BY <2>10, <2>11, <2>12, <2>13
<1>15. MarkInv'
  BY <1>5 DEF IInv, MarkInv, senderVars
<1>16. ASSUME ~merged'
       PROVE  /\ n = 1 /\ ~merged /\ wire' = v /\ got = w[1]
              /\ FlattenSeq(Fronts(w)) = Cat(Front(w[1]), FlattenSeq(Fronts(v)))
              /\ Len(v) = Len(w) - 1 /\ \A i \in 1 .. Len(v) : v[i] = w[i + 1]
  <2>1. n = 1 /\ ~merged /\ left = <<>>
    <3>1. ~merged /\ ~(n > 1) /\ left = <<>>
      BY <1>4, <1>16, Zenon
    <3>2. n = 1
      BY <1>6, <3>1
    <3>3. QED
      BY <3>1, <3>2
  <2>2. v = SubSeq(w, 2, Len(w)) /\ come = FlattenSeq(SubSeq(w, 1, 1)) /\ Len(w) >= 1
    BY <1>3, <1>6, <2>1
  <2>3. /\ come = w[1] /\ FlattenSeq(Fronts(w)) = Cat(Front(w[1]), FlattenSeq(Fronts(v)))
        /\ Len(v) = Len(w) - 1 /\ \A i \in 1 .. Len(v) : v[i] = w[i + 1]
    BY <1>6, <2>2, FirstBlock
  <2>4. got = come
    <3>1. got \in Chars
      BY <1>10 DEF Block, Chars
    <3>2. Cat(got, <<>>) = got
      BY <3>1, Algebra
    <3>3. QED
      BY <1>10, <2>1, <3>2
  <2>5. wire' = v
    BY <1>4, <1>7, <2>1
  <2>6. QED
    BY <2>1, <2>3, <2>4, <2>5
<1>17. WholeInv'
  <2> SUFFICES ASSUME ~merged'
               PROVE  /\ receiver' # "assertion"
                      /\ receiver' = "done" => pc' = "sent" /\ wire' = <<>>
                      /\ \A i \in 1 .. Len(wire') :
                           /\ Len(wire'[i]) <= BufferSize
                           /\ Last(wire'[i]) = IF pc' = "sent" /\ i = Len(wire')
                                                 THEN END_OF_FILE ELSE MORE_PACKETS
    BY DEF WholeInv
  <2>1. /\ n = 1 /\ ~merged /\ wire' = v /\ got = w[1] /\ Len(v) = Len(w) - 1
        /\ \A i \in 1 .. Len(v) : v[i] = w[i + 1]
    BY <1>16
  <2>2. pc' = pc
    BY <1>5 DEF senderVars
  <2>3. \A i \in 1 .. Len(w) :
          /\ Len(w[i]) <= BufferSize
          /\ Last(w[i]) = IF pc = "sent" /\ i = Len(w) THEN END_OF_FILE ELSE MORE_PACKETS
    BY <1>3, <2>1 DEF IInv, WholeInv
  <2>4. Last(got) = IF pc = "sent" /\ 1 = Len(w) THEN END_OF_FILE ELSE MORE_PACKETS
    BY <1>6, <2>1, <2>3
  <2>5. receiver' = IF pc = "sent" /\ 1 = Len(w) THEN "done" ELSE "reading"
    BY <1>4, <2>4 DEF END_OF_FILE, MORE_PACKETS, NUL, NEWLINE
  <2>6. 1 = Len(w) => v = <<>>
    <3>1. v \in Seq(Block) /\ (1 = Len(w) => Len(v) = 0)
      BY <1>6, <1>7, <2>1
    <3>2. QED
      BY <3>1
  <2>7. ASSUME NEW i \in 1 .. Len(v)
        PROVE  /\ Len(v[i]) <= BufferSize
               /\ Last(v[i]) = IF pc = "sent" /\ i = Len(v) THEN END_OF_FILE ELSE MORE_PACKETS
    <3>1. PICK j : j = i + 1
      OBVIOUS
    <3>2. j \in 1 .. Len(w) /\ v[i] = w[j] /\ (i = Len(v) <=> j = Len(w))
      BY <1>6, <2>1, <3>1
    <3>3. QED
      BY <2>3, <3>2
  <2>8. QED
    BY <2>1, <2>2, <2>5, <2>6, <2>7
<1>18. ExactInv'
  <2> SUFFICES ASSUME ~merged', AsItIs'
               PROVE  pc' # "retry" /\ pc' # "file" /\ TextHeld' = content'
    BY DEF ExactInv
  <2>1. /\ ~merged /\ wire' = v /\ got = w[1]
        /\ FlattenSeq(Fronts(w)) = Cat(Front(w[1]), FlattenSeq(Fronts(v)))
    BY <1>16
  <2>2. pc' = pc /\ content' = content /\ AsItIs /\ buffered' = buffered /\ rest' = rest
    BY <1>5 DEF senderVars, AsItIs, buffered
  <2>3. pc # "retry" /\ TextHeld = content /\ (pc = "file" => w = <<>>)
    BY <1>3, <2>1, <2>2 DEF IInv, ExactInv
  <2>4. w # <<>>
    BY <1>6
  <2>5. PICK fv, z : fv = FlattenSeq(Fronts(v)) /\ z = Cat(buffered, rest)
    OBVIOUS
  <2>6. fv \in Chars /\ z \in Chars
    <3>1. fv \in Chars
      BY <1>7, <2>5, Holds
    <3>2. PICK x, y : x = buffered /\ y = rest
      OBVIOUS
    <3>3. x \in Chars /\ y \in Chars
      BY <3>2, HeldType DEF IInv, TypeInv
    <3>4. QED
      BY <2>5, <3>1, <3>2, <3>3, Algebra
  <2>7. TextHeld = Cat(p, Cat(Cat(fg, fv), z))
    BY <1>3, <2>1, <2>5 DEF TextHeld
  <2>8. TextHeld' = Cat(Cat(p, fg), Cat(fv, z))
    BY <1>4, <2>1, <2>2, <2>5 DEF TextHeld
  <2>9. Cat(Cat(p, fg), Cat(fv, z)) = Cat(p, Cat(Cat(fg, fv), z))
    <3>1. Cat(Cat(fg, fv), z) = Cat(fg, Cat(fv, z))
      BY <1>11, <2>6, Algebra
    <3>2. Cat(Cat(p, fg), Cat(fv, z)) = Cat(p, Cat(fg, Cat(fv, z)))
      BY <1>6, <1>11, <2>6, Algebra
    <3>3. QED
      BY <3>1, <3>2
  <2>10. QED
    BY <2>2, <2>3, <2>4, <2>7, <2>8, <2>9
<1>19. QED
  BY <1>13, <1>14, <1>15, <1>17, <1>18 DEF IInv

-----------------------------------------------------------------------------
(* The beginning.                                                          *)

(* Files and messages are characters, and the chunks of a message add up   *)
(* to it.                                                                  *)
LEMMA Contents ==
  ASSUME Init
  PROVE  content \in Chars /\ lengths \in Seq(Sizes)
         /\ (pc = "chunks" => Len(content) = Total(lengths)) /\ pc \in {"file", "chunks"}
<1>1. CASE pc = "file" /\ content \in Files /\ lengths = <<>>
  <2>1. PICK n \in 0 .. MaxFile :
          \E newlines \in SUBSET (1 .. n) : content = FileWith(n, newlines)
    BY <1>1 DEF Files
  <2>2. n \in Nat
    BY TransferAssumption
  <2>3. PICK newlines \in SUBSET (1 .. n) : content = FileWith(n, newlines)
    BY <2>1
  <2>4. \A i \in 1 .. n : (IF i \in newlines THEN NEWLINE ELSE Letter(i)) \in Nat
    BY <2>2 DEF NEWLINE, Letter
  <2>5. FileWith(n, newlines) \in [1 .. n -> Nat]
    BY <2>4 DEF FileWith
  <2>6. content \in Chars
    BY <2>2, <2>3, <2>5 DEF Chars
  <2>7. QED
    BY <1>1, <2>6
<1>2. CASE pc = "chunks" /\ lengths \in Messages /\ content = Text(lengths)
  <2>1. PICK n \in 1 .. MaxChunks : lengths \in [1 .. n -> 1 .. BufferSize - 1]
    BY <1>2 DEF Messages
  <2>2. n \in Nat
    BY TransferAssumption
  <2>3. lengths \in Seq(Sizes)
    <3>1. lengths \in [1 .. n -> Sizes]
      BY <2>1 DEF Sizes
    <3>2. QED
      BY <2>2, <3>1
  <2>4. PICK l : l = lengths
    OBVIOUS
  <2>5. l \in Seq(Nat)
    BY <2>3, <2>4, SizesAre
  <2>6. Total(l) \in Nat
    BY <2>5, Totals
  <2>7. PICK m \in Nat : m = Total(l)
    BY <2>6
  <2>8. content = [i \in 1 .. m |-> Letter(i)]
    BY <1>2, <2>4, <2>7 DEF Text
  <2>9. content \in Seq(Nat) /\ Len(content) = m
    BY <2>8 DEF Letter
  <2>10. QED
    BY <1>2, <2>3, <2>4, <2>7, <2>9 DEF Chars
<1>3. QED
  BY <1>1, <1>2 DEF Init

(* The invariant holds at the beginning: all is in the rest.               *)
LEMMA InitInvariant == Init => IInv
<1> SUFFICES ASSUME Init PROVE IInv
  OBVIOUS
<1>1. PICK b, e, c : b = buffer /\ e = <<>> /\ c = content
  OBVIOUS
<1>2. /\ content \in Chars /\ lengths \in Seq(Sizes)
      /\ pc = "chunks" => Len(content) = Total(lengths)
      /\ pc \in {"file", "chunks"}
  BY Contents
<1>3. /\ rest = c /\ writehead = 0 /\ wire = e /\ ret = e
      /\ receiver = "reading" /\ merged = FALSE
      /\ b = [i \in 0 .. BufferSize - 1 |-> NUL]
  BY <1>1 DEF Init
<1>4. BufferSize \in Nat /\ BufferSize >= 4 /\ 0 \in 0 .. BufferSize
  BY TransferAssumption
<1>5. b \in Buffers
  BY <1>3 DEF Buffers, NUL
<1>6. FirstOf(b, 0) = e
  <2>1. FirstOf(b, 0) \in Chars /\ Len(FirstOf(b, 0)) = 0
    BY <1>4, <1>5, FirstType
  <2>2. QED
    BY <1>1, <2>1 DEF Chars
<1>7. e \in Chars /\ e \in Seq(Block) /\ FlattenSeq(e) = e /\ Letters(e) = e /\ Fronts(e) = e
  BY <1>1, FlattenEmpty, LettersNone DEF Chars, Fronts
<1>8. TypeInv
  BY <1>1, <1>2, <1>3, <1>4, <1>5, <1>7 DEF TypeInv
<1>9. c \in Chars /\ Letters(c) \in Chars
  BY <1>1, <1>2, MarksType
<1>10. LettersInv
  <2>1. LettersHeld = Cat(e, Cat(e, Cat(e, Letters(c))))
    BY <1>1, <1>3, <1>6, <1>7 DEF LettersHeld, buffered
  <2>2. Cat(e, Cat(e, Cat(e, Letters(c)))) = Letters(c)
    BY <1>1, <1>9, Algebra
  <2>3. QED
    BY <1>1, <2>1, <2>2 DEF LettersInv
<1>11. ExactInv
  <2>1. TextHeld = Cat(e, Cat(e, Cat(e, c)))
    BY <1>1, <1>3, <1>6, <1>7 DEF TextHeld, buffered
  <2>2. Cat(e, Cat(e, Cat(e, c))) = c
    BY <1>1, <1>9, Algebra
  <2>3. QED
    BY <1>1, <1>2, <1>3, <2>1, <2>2 DEF ExactInv
<1>12. MarkInv /\ WholeInv
  BY <1>1, <1>3 DEF MarkInv, WholeInv
<1>13. QED
  BY <1>8, <1>10, <1>11, <1>12 DEF IInv

-----------------------------------------------------------------------------
(* The theorems.                                                           *)

(* And a step that changes nothing preserves it.                           *)
LEMMA StutterInvariant ==
  ASSUME IInv, UNCHANGED vars
  PROVE  IInv'
BY DEF IInv, TypeInv, LettersInv, LettersHeld, MarkInv, WholeInv, ExactInv, TextHeld, AsItIs,
       buffered, vars, senderVars, receiverVars

(* The inductive invariant of the protocol, for files, messages, buffers   *)
(* and reads of any length (network.cpp:14-142): what has come, what is on *)
(* the wire, what is buffered and what has not been read are, one after    *)
(* the other, what is sent.                                                *)
THEOREM TransferInvariant == Spec => []IInv
<1>1. Init => IInv
  BY InitInvariant
<1>2. ASSUME IInv, [Next]_vars PROVE IInv'
  <2>1. CASE addLastLine
    BY <1>2, <2>1, AddLastLine
  <2>2. CASE addLine
    BY <1>2, <2>2, AddLine
  <2>3. CASE sendFullBuffer
    BY <1>2, <2>3, SendFullBuffer
  <2>4. CASE lineTooLong
    BY <1>2, <2>4, LineTooLong
  <2>5. CASE add_chunk
    BY <1>2, <2>5, AddChunk
  <2>6. CASE send_chunks
    BY <1>2, <2>6, SendChunks
  <2>7. CASE close
    BY <1>2, <2>7, Close
  <2>8. CASE receive
    BY <1>2, <2>8, Receive
  <2>9. CASE UNCHANGED vars
    BY <1>2, <2>9, StutterInvariant
  <2>10. QED
    BY <1>2, <2>1, <2>2, <2>3, <2>4, <2>5, <2>6, <2>7, <2>8, <2>9 DEF Next, send
<1>3. QED
  BY <1>1, <1>2, PTL DEF Spec

(* A text begins with what it is put together from.                        *)
LEMMA CatPrefix ==
  ASSUME NEW s \in Chars, NEW t \in Chars
  PROVE  IsPrefix(s, Cat(s, t))
<1>1. PICK r : r = Cat(s, t)
  OBVIOUS
<1>2. s \in Seq(Nat) /\ t \in Seq(Nat) /\ Len(s) \in Nat /\ Len(t) \in Nat
  BY DEF Chars
<1>3. r \in Seq(Nat) /\ Len(r) = Len(s) + Len(t)
  BY <1>1, <1>2, CatType
<1>4. \A i \in 1 .. Len(s) : r[i] = s[i]
  BY <1>1, <1>2, CatFirst
<1>5. PICK u, v : u = SubSeq(s, 1, Len(s)) /\ v = SubSeq(r, 1, Len(s))
  OBVIOUS
<1>6. u \in Seq(Nat) /\ Len(u) = Len(s) /\ \A i \in 1 .. Len(s) : u[i] = s[i]
  BY <1>2, <1>5
<1>7. v \in Seq(Nat) /\ Len(v) = Len(s) /\ \A i \in 1 .. Len(s) : v[i] = r[i]
  <2>1. Len(s) <= Len(r)
    BY <1>2, <1>3
  <2>2. QED
    BY <1>2, <1>3, <1>5, <2>1
<1>8. u = v
  BY <1>4, <1>6, <1>7, SameSeq
<1>9. QED
  <2>1. Len(s) <= Len(r)
    BY <1>2, <1>3
  <2>2. SubSeq(s, 1, Len(s)) = SubSeq(r, 1, Len(s))
    BY <1>5, <1>8
  <2>3. QED
    BY <1>1, <2>1, <2>2, Zenon DEF IsPrefix

(* What is still on the way when all has been sent and has come.           *)
LEMMA NothingLeft ==
  ASSUME IInv, ~merged, receiver = "done"
  PROVE  /\ pc = "sent" /\ wire = <<>> /\ Letters(ret) = Letters(content)
         /\ AsItIs => ret = content
<1>1. PICK b, e, p : b = buffer /\ e = <<>> /\ p = ret
  OBVIOUS
<1>2. pc = "sent" /\ wire = e
  BY <1>1 DEF IInv, WholeInv
<1>3. rest = e /\ writehead = 0 /\ b \in Buffers /\ p \in Chars
  BY <1>1, <1>2 DEF IInv, TypeInv
<1>4. FirstOf(b, 0) = e
  <2>1. 0 \in 0 .. BufferSize
    BY TransferAssumption
  <2>2. FirstOf(b, 0) \in Chars /\ Len(FirstOf(b, 0)) = 0
    BY <1>3, <2>1, FirstType
  <2>3. QED
    BY <1>1, <2>2 DEF Chars
<1>5. FlattenSeq(e) = e /\ Letters(e) = e /\ Fronts(e) = e /\ Letters(p) \in Chars
  BY <1>1, <1>3, FlattenEmpty, LettersNone, MarksType DEF Fronts
<1>6. LettersHeld = Letters(p)
  <2>1. LettersHeld = Cat(Letters(p), Cat(e, Cat(e, e)))
    BY <1>1, <1>2, <1>3, <1>4, <1>5 DEF LettersHeld, buffered
  <2>2. Cat(Letters(p), Cat(e, Cat(e, e))) = Letters(p)
    BY <1>1, <1>5, Algebra
  <2>3. QED
    BY <2>1, <2>2
<1>7. TextHeld = p
  <2>1. TextHeld = Cat(p, Cat(e, Cat(e, e)))
    BY <1>1, <1>2, <1>3, <1>4, <1>5 DEF TextHeld, buffered
  <2>2. Cat(p, Cat(e, Cat(e, e))) = p
    BY <1>1, <1>3, Algebra
  <2>3. QED
    BY <2>1, <2>2
<1>8. QED
  BY <1>1, <1>2, <1>6, <1>7 DEF IInv, LettersInv, ExactInv

(* ArrivesInOrder, for all constants: no letter is lost, doubled or        *)
(* overtaken (network.cpp:53-142), and what has one line or fits in one    *)
(* block arrives as it is, as long as each read returns one block.         *)
THEOREM LettersInOrder == Spec => []ArrivesInOrder
<1>1. IInv => ArrivesInOrder
  <2> SUFFICES ASSUME IInv PROVE ArrivesInOrder
    OBVIOUS
  <2>1. ASSUME receiver # "assertion" PROVE IsPrefix(Letters(ret), Letters(content))
    <3>1. PICK f, x, y, p : f = FlattenSeq(wire) /\ x = buffered /\ y = rest /\ p = ret
      OBVIOUS
    <3>2. f \in Chars /\ x \in Chars /\ y \in Chars /\ p \in Chars
      BY <3>1, HeldType DEF IInv, TypeInv
    <3>3. Letters(f) \in Chars /\ Letters(x) \in Chars /\ Letters(y) \in Chars
          /\ Letters(p) \in Chars
      BY <3>2, MarksType
    <3>4. PICK z : z = Cat(Letters(f), Cat(Letters(x), Letters(y)))
      OBVIOUS
    <3>5. z \in Chars
      BY <3>3, <3>4, Algebra
    <3>6. IsPrefix(Letters(p), Cat(Letters(p), z))
      BY <3>3, <3>5, CatPrefix
    <3>7. Letters(content) = Cat(Letters(p), z)
      BY <2>1, <3>1, <3>4 DEF IInv, LettersInv, LettersHeld
    <3>8. QED
      BY <3>1, <3>6, <3>7
  <2>2. ASSUME ~merged, receiver = "done", AsItIs PROVE ret = content
    BY <2>2, NothingLeft
  <2>3. QED
    BY <2>1, <2>2 DEF ArrivesInOrder, AsItIs
<1>2. QED
  BY <1>1, TransferInvariant, PTL

(* InStepWithBlocks, for all constants: as long as each read returns one   *)
(* block, no letter is taken for a marker (the assertion of                *)
(* network.cpp:140 holds), and the receiver is done only when all has been *)
(* sent and has come.                                                      *)
THEOREM BlocksInStep == Spec => []InStepWithBlocks
<1>1. IInv => InStepWithBlocks
  <2> SUFFICES ASSUME IInv, ~merged
               PROVE  /\ receiver # "assertion"
                      /\ receiver = "done" =>
                           pc = "sent" /\ wire = <<>> /\ Letters(ret) = Letters(content)
    BY DEF InStepWithBlocks
  <2>1. receiver # "assertion"
    BY DEF IInv, WholeInv
  <2>2. ASSUME receiver = "done"
        PROVE  pc = "sent" /\ wire = <<>> /\ Letters(ret) = Letters(content)
    BY <2>2, NothingLeft
  <2>3. QED
    BY <2>1, <2>2
<1>2. QED
  BY <1>1, TransferInvariant, PTL
=============================================================================
