----------------------------- MODULE FoldProofs -----------------------------
(***************************************************************************)
(* Facts about FlattenSeq, which says what the messages of a queue hold    *)
(* when they are put together, about MapThenSumSet, which adds up the      *)
(* power of creatures, the damage of a split and the fields of an amount   *)
(* of mana, and about the powers of a number.  Their definitions are       *)
(* recursive, so the facts need induction over the number of messages or   *)
(* of creatures: the induction here is about a set of numbers, where the   *)
(* library's is about a predicate.                                         *)
(***************************************************************************)
EXTENDS Integers, Sequences, FiniteSets, SequencesExt, FiniteSetsExt,
        WellFoundedInduction, SequenceTheorems, FiniteSetTheorems, TLAPS

(* Induction over the natural numbers, for a set instead of a predicate: a *)
(* set that has 0 and the successor of each of its numbers has them all.   *)
(* (The number in Nat that is least outside the set would have a           *)
(* predecessor in it.)                                                     *)
LEMMA SetInduction ==
  ASSUME NEW A, 0 \in A, \A n \in Nat : n \in A => n + 1 \in A
  PROVE  Nat \subseteq A
<1> DEFINE R == OpToRel(<, Nat)
<1> SUFFICES ASSUME Nat \ A # {} PROVE FALSE
  OBVIOUS
<1>1. IsWellFoundedOn(R, Nat)
  BY NatLessThanWellFounded, Zenon
<1> HIDE DEF R
<1>2. PICK m \in Nat \ A : \A k \in Nat \ A : <<k, m>> \notin R
  BY <1>1, WFMin
<1>3. \A k \in Nat : k < m => <<k, m>> \in R
  BY DEF R, OpToRel
<1>4. m # 0 /\ m - 1 \in Nat /\ m - 1 < m
  OBVIOUS
<1>5. m - 1 \in A
  BY <1>2, <1>3, <1>4
<1>6. m \in A
  BY <1>4, <1>5
<1>7. QED
  BY <1>6

(* Numbers in Nat have a least one, which Min chooses.                     *)
LEMMA LeastExists ==
  ASSUME NEW S \in SUBSET Nat, S # {}
  PROVE  Min(S) \in S /\ \A y \in S : Min(S) <= y
<1> DEFINE R == OpToRel(<, Nat)
<1>1. IsWellFoundedOn(R, Nat)
  BY NatLessThanWellFounded, Zenon
<1> HIDE DEF R
<1>2. PICK m \in S : \A k \in S : <<k, m>> \notin R
  BY <1>1, WFMin
<1>3. \A k \in Nat : k < m => <<k, m>> \in R
  BY DEF R, OpToRel
<1>4. ASSUME NEW k \in S PROVE m <= k
  <2>1. k \in Nat /\ m \in Nat
    OBVIOUS
  <2>2. ~(k < m)
    BY <1>2, <1>3, <2>1
  <2>3. QED
    BY <2>1, <2>2
<1>5. QED
  BY <1>4 DEF Min

-----------------------------------------------------------------------------
(* One sequence after another.  Where this definition is not expanded, the *)
(* provers reason about whole sequences and not about their members.       *)
Cat(s, t) == s \o t

(* Sequences with the same elements at the same places are the same.       *)
LEMMA SameSeq ==
  ASSUME NEW S, NEW s \in Seq(S), NEW t \in Seq(S), Len(s) = Len(t),
         \A i \in 1 .. Len(s) : s[i] = t[i]
  PROVE  s = t
<1>1. s = [i \in 1 .. Len(s) |-> s[i]] /\ t = [i \in 1 .. Len(t) |-> t[i]]
  OBVIOUS
<1>2. QED
  BY <1>1

(* What Cat returns is a sequence; it is associative, and the empty        *)
(* sequence is its neutral element.                                        *)
LEMMA CatProperties ==
  ASSUME NEW S, NEW r \in Seq(S), NEW s \in Seq(S), NEW t \in Seq(S)
  PROVE  /\ Cat(s, t) \in Seq(S)
         /\ Cat(Cat(r, s), t) = Cat(r, Cat(s, t))
         /\ Cat(<<>>, t) = t /\ Cat(t, <<>>) = t
BY ConcatAssociative, ConcatEmptySeq, ConcatProperties DEF Cat

(* Its members are those of the one and then those of the other, ...       *)
LEMMA CatType ==
  ASSUME NEW S, NEW s \in Seq(S), NEW t \in Seq(S)
  PROVE  Cat(s, t) \in Seq(S) /\ Len(Cat(s, t)) = Len(s) + Len(t)
BY DEF Cat

(* Member i of the first one is member i, ...                              *)
LEMMA CatFirst ==
  ASSUME NEW S, NEW s \in Seq(S), NEW t \in Seq(S), NEW i \in 1 .. Len(s)
  PROVE  Cat(s, t)[i] = s[i]
BY DEF Cat

(* ... and member i of the second one comes as far behind the first one.   *)
LEMMA CatSecond ==
  ASSUME NEW S, NEW s \in Seq(S), NEW t \in Seq(S), NEW i \in 1 .. Len(t)
  PROVE  Cat(s, t)[Len(s) + i] = t[i]
BY DEF Cat

(* ... and a sequence with these members is Cat(s, t).                     *)
LEMMA CatUnique ==
  ASSUME NEW S, NEW s \in Seq(S), NEW t \in Seq(S), NEW r \in Seq(S),
         Len(r) = Len(s) + Len(t), \A i \in 1 .. Len(s) : r[i] = s[i],
         \A i \in 1 .. Len(t) : r[Len(s) + i] = t[i]
  PROVE  r = Cat(s, t)
<1>1. PICK u : u = Cat(s, t)
  OBVIOUS
<1>2. u \in Seq(S) /\ Len(u) = Len(s) + Len(t) /\ Len(s) \in Nat /\ Len(t) \in Nat
  <2>1. Cat(s, t) \in Seq(S) /\ Len(Cat(s, t)) = Len(s) + Len(t)
    BY CatType
  <2>2. QED
    BY <1>1, <2>1
<1>3. ASSUME NEW i \in 1 .. Len(r) PROVE r[i] = u[i]
  <2>1. CASE i <= Len(s)
    <3>1. i \in 1 .. Len(s)
      BY <1>2, <2>1
    <3>2. u[i] = s[i]
      BY <1>1, <3>1, CatFirst
    <3>3. QED
      BY <3>1, <3>2
  <2>2. CASE i > Len(s)
    <3>1. i - Len(s) \in 1 .. Len(t) /\ i = Len(s) + (i - Len(s))
      BY <1>2, <2>2
    <3>2. PICK j \in 1 .. Len(t) : i = Len(s) + j
      BY <3>1
    <3>3. u[Len(s) + j] = t[j]
      BY <1>1, CatSecond
    <3>4. QED
      BY <3>2, <3>3
  <2>3. QED
    BY <1>2, <2>1, <2>2
<1>4. r = u
  BY <1>2, <1>3
<1>5. QED
  BY <1>1, <1>4

(* f holds, for each of the first k members of q, the first ones joined.   *)
Joins(f, q, k) ==
  \A i \in 1 .. k : f[i] = IF i = 1 THEN q[i] ELSE Cat(f[i-1], q[i])

(* The joins of any n sequences exist.                                     *)
LEMMA JoinsExists ==
  ASSUME NEW S, NEW n \in Nat, NEW q, \A i \in 1 .. n : q[i] \in Seq(S)
  PROVE  \E f \in [1 .. n -> Seq(S)] : Joins(f, q, n)
<1> DEFINE A == {k \in Nat : k <= n =>
                   \E f \in [1 .. k -> Seq(S)] : Joins(f, q, k)}
<1>1. 0 \in A
  <2> DEFINE f == [i \in 1 .. 0 |-> <<>>]
  <2>1. f \in [1 .. 0 -> Seq(S)] /\ Joins(f, q, 0)
    BY DEF Joins
  <2>2. QED
    BY <2>1
<1>2. ASSUME NEW k \in Nat, k \in A PROVE k + 1 \in A
  <2> SUFFICES ASSUME k + 1 <= n
               PROVE  \E f \in [1 .. k + 1 -> Seq(S)] : Joins(f, q, k + 1)
    OBVIOUS
  <2>1. PICK f \in [1 .. k -> Seq(S)] : Joins(f, q, k)
    BY <1>2
  <2> DEFINE last == IF k = 0 THEN q[1] ELSE Cat(f[k], q[k + 1])
             g == [i \in 1 .. k + 1 |-> IF i = k + 1 THEN last ELSE f[i]]
  <2>2. last \in Seq(S)
    <3>1. CASE k = 0
      BY <3>1
    <3>2. CASE k # 0
      <4>1. f[k] \in Seq(S) /\ q[k + 1] \in Seq(S)
        BY <3>2
      <4>2. QED
        BY <3>2, <4>1, CatProperties
    <3>3. QED
      BY <3>1, <3>2
  <2> HIDE DEF last
  <2>3. g \in [1 .. k + 1 -> Seq(S)]
    BY <2>2
  <2>4. ASSUME NEW i \in 1 .. k + 1
        PROVE  g[i] = IF i = 1 THEN q[i] ELSE Cat(g[i-1], q[i])
    <3>1. CASE i = k + 1
      <4>1. g[i] = last
        BY <3>1
      <4>2. k # 0 => g[i-1] = f[k]
        BY <3>1
      <4>3. QED
        BY <3>1, <4>1, <4>2 DEF last
    <3>2. CASE i # k + 1
      <4>1. i \in 1 .. k /\ g[i] = f[i]
        BY <3>2
      <4>2. i # 1 => g[i-1] = f[i-1]
        BY <4>1
      <4>3. f[i] = IF i = 1 THEN q[i] ELSE Cat(f[i-1], q[i])
        BY <4>1, <2>1 DEF Joins
      <4>4. QED
        BY <4>1, <4>2, <4>3
    <3>3. QED
      BY <3>1, <3>2
  <2>5. Joins(g, q, k + 1)
    BY <2>4 DEF Joins
  <2>6. QED
    BY <2>3, <2>5
<1>3. Nat \subseteq A
  <2> HIDE DEF A
  <2>1. QED
    BY <1>1, <1>2, SetInduction
<1>4. QED
  BY <1>3

(* They are determined by the sequences that they join.                    *)
LEMMA JoinsUnique ==
  ASSUME NEW q, NEW n \in Nat, NEW f, NEW g, Joins(f, q, n), Joins(g, q, n)
  PROVE  \A i \in 1 .. n : f[i] = g[i]
<1> DEFINE A == {i \in Nat : i \in 1 .. n => f[i] = g[i]}
<1>1. 0 \in A
  OBVIOUS
<1>2. ASSUME NEW i \in Nat, i \in A PROVE i + 1 \in A
  <2> SUFFICES ASSUME i + 1 \in 1 .. n PROVE f[i + 1] = g[i + 1]
    OBVIOUS
  <2>1. PICK j : j = i + 1
    OBVIOUS
  <2>2. /\ f[j] = IF j = 1 THEN q[j] ELSE Cat(f[j-1], q[j])
        /\ g[j] = IF j = 1 THEN q[j] ELSE Cat(g[j-1], q[j])
    BY <2>1 DEF Joins
  <2>3. j # 1 => f[j-1] = g[j-1]
    BY <2>1, <1>2
  <2>4. QED
    BY <2>1, <2>2, <2>3
<1>3. Nat \subseteq A
  <2> HIDE DEF A
  <2>1. QED
    BY <1>1, <1>2, SetInduction
<1>4. QED
  BY <1>3

(* FlattenSeq, which is defined by a recursive function, is the last of    *)
(* the joins.                                                              *)
LEMMA FlattenJoins ==
  ASSUME NEW n \in Nat \ {0}, NEW q, Len(q) = n, NEW f, NEW S,
         f \in [1 .. n -> S], Joins(f, q, n)
  PROVE  FlattenSeq(q) = f[n]
<1> DEFINE F == CHOOSE g : g = [i \in 1 .. n |->
                                  IF i = 1 THEN q[i] ELSE g[i-1] \o q[i]]
<1>1. f = [i \in 1 .. n |-> IF i = 1 THEN q[i] ELSE f[i-1] \o q[i]]
  BY DEF Joins, Cat
<1>2. F = [i \in 1 .. n |-> IF i = 1 THEN q[i] ELSE F[i-1] \o q[i]]
  BY <1>1, Zenon
<1>3. FlattenSeq(q) = F[n]
  BY DEF FlattenSeq
<1> HIDE DEF F
<1>4. Joins(F, q, n)
  BY <1>2 DEF Joins, Cat
<1>5. QED
  BY <1>3, <1>4, JoinsUnique

-----------------------------------------------------------------------------

(* No sequences, joined, are the empty sequence.                           *)
LEMMA FlattenEmpty == FlattenSeq(<<>>) = <<>>
BY DEF FlattenSeq

(* FlattenSeq returns a sequence over the same set.                        *)
LEMMA FlattenType ==
  ASSUME NEW S, NEW q \in Seq(Seq(S))
  PROVE  FlattenSeq(q) \in Seq(S)
<1>1. PICK n \in Nat : n = Len(q) /\ \A i \in 1 .. n : q[i] \in Seq(S)
  OBVIOUS
<1>2. CASE n = 0
  BY <1>1, <1>2, FlattenEmpty, EmptySeq
<1>3. CASE n # 0
  <2>1. PICK f \in [1 .. n -> Seq(S)] : Joins(f, q, n)
    BY <1>1, JoinsExists
  <2>2. FlattenSeq(q) = f[n]
    BY <1>1, <1>3, <2>1, FlattenJoins
  <2>3. QED
    BY <1>3, <2>2
<1>4. QED
  BY <1>2, <1>3

(* A message that is put at the end of a queue comes at the end of what    *)
(* the queue holds.                                                        *)
LEMMA FlattenAppend ==
  ASSUME NEW S, NEW q \in Seq(Seq(S)), NEW s \in Seq(S)
  PROVE  FlattenSeq(Append(q, s)) = FlattenSeq(q) \o s
<1>1. PICK n \in Nat : n = Len(q) /\ \A i \in 1 .. n : q[i] \in Seq(S)
  OBVIOUS
<1>2. PICK m \in Nat \ {0} : m = n + 1
  OBVIOUS
<1>3. PICK r : r = Append(q, s)
  OBVIOUS
<1>4. /\ Len(r) = m /\ r[m] = s
      /\ \A i \in 1 .. n : r[i] = q[i]
  BY <1>1, <1>2, <1>3, AppendProperties
<1>5. \A i \in 1 .. m : r[i] \in Seq(S)
  BY <1>1, <1>2, <1>4
<1>6. PICK g \in [1 .. m -> Seq(S)] : Joins(g, r, m)
  BY <1>5, JoinsExists
<1>7. FlattenSeq(r) = g[m]
  BY <1>4, <1>6, FlattenJoins
<1>8. CASE n = 0
  <2>1. g[m] = s
    BY <1>2, <1>4, <1>6, <1>8 DEF Joins
  <2>2. q = <<>>
    BY <1>1, <1>8, EmptySeq
  <2>3. Cat(<<>>, s) = s
    BY CatProperties
  <2>4. QED
    BY <1>3, <1>7, <2>1, <2>2, <2>3, FlattenEmpty, Zenon DEF Cat
<1>9. CASE n # 0
  <2> DEFINE f == [i \in 1 .. n |-> g[i]]
  <2>1. f \in [1 .. n -> Seq(S)] /\ f[n] = g[n]
    BY <1>2, <1>9
  <2>2. Joins(f, q, n)
    BY <1>2, <1>4, <1>6 DEF Joins
  <2> HIDE DEF f
  <2>3. FlattenSeq(q) = f[n]
    BY <1>1, <1>9, <2>1, <2>2, FlattenJoins
  <2>4. g[m] = Cat(g[n], s)
    BY <1>2, <1>4, <1>6, <1>9 DEF Joins
  <2>5. FlattenSeq(r) = Cat(FlattenSeq(q), s)
    BY <1>7, <2>1, <2>3, <2>4
  <2>6. QED
    BY <1>3, <2>5, Zenon DEF Cat
<1>10. QED
  BY <1>8, <1>9

(* The head and the tail of a sequence, member by member.                  *)
LEMMA TailProperties ==
  ASSUME NEW T, NEW q \in Seq(T), q # <<>>
  PROVE  /\ Tail(q) \in Seq(T) /\ Head(q) \in T /\ Head(q) = q[1]
         /\ Len(q) \in Nat \ {0} /\ Len(Tail(q)) \in Nat
         /\ Len(q) = Len(Tail(q)) + 1
         /\ Tail(q) = <<>> <=> Len(Tail(q)) = 0
         /\ \A i \in 1 .. Len(q) : q[i] \in T
         /\ \A i \in 1 .. Len(Tail(q)) : Tail(q)[i] \in T
         /\ \A i \in 1 .. Len(Tail(q)) : Tail(q)[i] = q[i + 1]
<1>1. Tail(q) \in Seq(T) /\ Head(q) \in T
  BY HeadTailProperties, Zenon
<1>2. Len(q) \in Nat \ {0} /\ Head(q) = q[1] /\ Len(Tail(q)) = Len(q) - 1
  OBVIOUS
<1>3. \A i \in 1 .. Len(q) - 1 : Tail(q)[i] = q[i + 1]
  OBVIOUS
<1>4. PICK t \in Seq(T) : t = Tail(q)
  BY <1>1
<1>5. /\ Len(t) \in Nat /\ \A i \in 1 .. Len(t) : t[i] \in T
      /\ t = <<>> <=> Len(t) = 0
  OBVIOUS
<1>6. QED
  BY <1>1, <1>2, <1>3, <1>4, <1>5

(* The joins of a sequence's tail, each behind the head, are the joins of  *)
(* the whole.                                                              *)
LEMMA JoinsTail ==
  ASSUME NEW S, NEW q \in Seq(Seq(S)), q # <<>>,
         NEW g \in [1 .. Len(Tail(q)) -> Seq(S)], Joins(g, Tail(q), Len(Tail(q)))
  PROVE  \E f \in [1 .. Len(q) -> Seq(S)] :
           /\ Joins(f, q, Len(q))
           /\ f[Len(q)] = IF Tail(q) = <<>> THEN Head(q)
                          ELSE Cat(Head(q), g[Len(Tail(q))])
<1> DEFINE t == Tail(q)
<1>1. PICK n \in Nat, m \in Nat : n = Len(t) /\ m = n + 1
  BY TailProperties
<1>2. /\ Len(q) = m /\ Head(q) = q[1]
      /\ \A i \in 1 .. n : t[i] = q[i + 1]
      /\ \A i \in 1 .. m : q[i] \in Seq(S)
      /\ t = <<>> <=> n = 0
      /\ Joins(g, t, n) /\ g \in [1 .. n -> Seq(S)]
  BY <1>1, TailProperties
<1> DEFINE f == [i \in 1 .. m |-> IF i = 1 THEN q[1] ELSE Cat(q[1], g[i-1])]
<1>3. ASSUME NEW i \in 1 .. m
      PROVE  /\ f[i] \in Seq(S)
             /\ f[i] = IF i = 1 THEN q[i] ELSE Cat(f[i-1], q[i])
  <2>1. CASE i = 1
    BY <1>1, <1>2, <2>1
  <2>2. CASE i = 2
    <3>1. f[i] = Cat(q[1], g[1]) /\ f[i-1] = q[1]
      BY <1>1, <1>2, <2>2
    <3>2. g[1] = t[1] /\ t[1] = q[2] /\ q[1] \in Seq(S) /\ q[2] \in Seq(S)
      BY <1>1, <1>2, <2>2 DEF Joins
    <3>3. Cat(q[1], q[2]) \in Seq(S)
      BY <3>2, CatProperties
    <3>4. QED
      BY <2>2, <3>1, <3>2, <3>3
  <2>3. CASE i # 1 /\ i # 2
    <3>1. PICK j \in Nat, k \in Nat : j = i - 1 /\ k = i - 2
      BY <1>1, <1>2, <2>3
    <3>2. j \in 1 .. n /\ k \in 1 .. n /\ j # 1 /\ k = j - 1 /\ j + 1 = i
      BY <1>1, <1>2, <2>3, <3>1
    <3>3. f[i] = Cat(q[1], g[j]) /\ f[j] = Cat(q[1], g[k])
      BY <1>1, <1>2, <2>3, <3>1, <3>2
    <3>4. g[j] = Cat(g[k], q[i])
      BY <1>1, <1>2, <3>2 DEF Joins
    <3>5. PICK a \in Seq(S), b \in Seq(S), c \in Seq(S) :
            a = q[1] /\ b = g[k] /\ c = q[i]
      <4>1. g[k] \in Seq(S)
        BY <1>2, <3>2
      <4>2. 1 \in 1 .. m /\ i \in 1 .. m
        BY <1>1
      <4>3. q[1] \in Seq(S) /\ q[i] \in Seq(S)
        BY <1>2, <4>2
      <4>4. QED
        BY <4>1, <4>3
    <3>6. Cat(Cat(a, b), c) = Cat(a, Cat(b, c)) /\ Cat(b, c) \in Seq(S)
      BY CatProperties
    <3>7. Cat(a, Cat(b, c)) \in Seq(S)
      BY <3>6, CatProperties
    <3>8. QED
      BY <1>1, <1>2, <2>3, <3>1, <3>3, <3>4, <3>5, <3>6, <3>7
  <2>4. QED
    BY <2>1, <2>2, <2>3
<1>4. f \in [1 .. m -> Seq(S)] /\ Joins(f, q, m)
  BY <1>3 DEF Joins
<1>5. f[m] = IF n = 0 THEN q[1] ELSE Cat(q[1], g[n])
  BY <1>1
<1> HIDE DEF f
<1>6. QED
  BY <1>1, <1>2, <1>4, <1>5

(* What a queue holds begins with its first message and goes on with what  *)
(* the rest of the queue holds.                                            *)
LEMMA FlattenHeadTail ==
  ASSUME NEW S, NEW q \in Seq(Seq(S)), q # <<>>
  PROVE  FlattenSeq(q) = Head(q) \o FlattenSeq(Tail(q))
<1>1. /\ Tail(q) \in Seq(Seq(S)) /\ Head(q) \in Seq(S)
      /\ Len(Tail(q)) \in Nat /\ Len(q) \in Nat \ {0}
      /\ Tail(q) # <<>> => Len(Tail(q)) # 0
      /\ \A i \in 1 .. Len(Tail(q)) : Tail(q)[i] \in Seq(S)
  BY TailProperties
<1>2. PICK g \in [1 .. Len(Tail(q)) -> Seq(S)] :
        Joins(g, Tail(q), Len(Tail(q)))
  BY <1>1, JoinsExists
<1>3. PICK f \in [1 .. Len(q) -> Seq(S)] :
        /\ Joins(f, q, Len(q))
        /\ f[Len(q)] = IF Tail(q) = <<>> THEN Head(q)
                       ELSE Cat(Head(q), g[Len(Tail(q))])
  BY <1>2, JoinsTail
<1>4. FlattenSeq(q) = f[Len(q)]
  BY <1>1, <1>3, FlattenJoins
<1>5. CASE Tail(q) = <<>>
  <2>1. Cat(Head(q), <<>>) = Head(q)
    BY <1>1, CatProperties
  <2>2. QED
    BY <1>3, <1>4, <1>5, <2>1, FlattenEmpty, Zenon DEF Cat
<1>6. CASE Tail(q) # <<>>
  <2>1. FlattenSeq(Tail(q)) = g[Len(Tail(q))]
    BY <1>1, <1>2, <1>6, FlattenJoins
  <2>2. QED
    BY <1>3, <1>4, <1>6, <2>1, Zenon DEF Cat
<1>7. QED
  BY <1>5, <1>6

(* What two queues hold, one behind the other.                             *)
LEMMA FlattenCat ==
  ASSUME NEW S, NEW q \in Seq(Seq(S)), NEW r \in Seq(Seq(S))
  PROVE  FlattenSeq(Cat(q, r)) = Cat(FlattenSeq(q), FlattenSeq(r))
<1> DEFINE A == {n \in Nat : \A t \in Seq(Seq(S)) : Len(t) = n =>
                   FlattenSeq(Cat(q, t)) = Cat(FlattenSeq(q), FlattenSeq(t))}
<1>0. FlattenSeq(q) \in Seq(S)
  BY FlattenType
<1>1. 0 \in A
  <2>1. Cat(q, <<>>) = q /\ Cat(FlattenSeq(q), <<>>) = FlattenSeq(q)
    BY <1>0, CatProperties
  <2>2. \A t \in Seq(Seq(S)) : Len(t) = 0 => t = <<>>
    BY EmptySeq
  <2>3. QED
    BY <2>1, <2>2, FlattenEmpty
<1>2. ASSUME NEW n \in Nat, n \in A PROVE n + 1 \in A
  <2> SUFFICES ASSUME NEW t \in Seq(Seq(S)), Len(t) = n + 1
               PROVE  FlattenSeq(Cat(q, t)) = Cat(FlattenSeq(q), FlattenSeq(t))
    OBVIOUS
  <2>1. PICK u, s : u = SubSeq(t, 1, n) /\ s = t[n + 1]
    OBVIOUS
  <2>2. u \in Seq(Seq(S)) /\ Len(u) = n /\ s \in Seq(S) /\ t = Append(u, s)
    BY <2>1
  <2>3. Cat(q, t) = Append(Cat(q, u), s)
    BY <2>2 DEF Cat
  <2>4. Cat(q, u) \in Seq(Seq(S)) /\ FlattenSeq(u) \in Seq(S)
    BY <2>2, CatProperties, FlattenType
  <2>5. /\ FlattenSeq(Cat(q, t)) = Cat(FlattenSeq(Cat(q, u)), s)
        /\ FlattenSeq(t) = Cat(FlattenSeq(u), s)
    BY <2>2, <2>3, <2>4, FlattenAppend DEF Cat
  <2>6. FlattenSeq(Cat(q, u)) = Cat(FlattenSeq(q), FlattenSeq(u))
    BY <1>2, <2>2
  <2>7. QED
    BY <1>0, <2>2, <2>4, <2>5, <2>6, CatProperties
<1>3. Nat \subseteq A
  <2> HIDE DEF A
  <2>1. QED
    BY <1>1, <1>2, SetInduction
<1>4. QED
  BY <1>3

-----------------------------------------------------------------------------
(* Sums over finite sets.                                                  *)

(* The member that MapThenSumSet adds first, and what is left.             *)
Pick(s) == CHOOSE x \in s : TRUE
Rest(s) == s \ {Pick(s)}

(* There is one member less to be added.                                   *)
LEMMA PickProperties ==
  ASSUME NEW s, IsFiniteSet(s), s # {}
  PROVE  /\ Pick(s) \in s /\ Rest(s) \subseteq s /\ IsFiniteSet(Rest(s))
         /\ Cardinality(s) \in Nat \ {0}
         /\ Cardinality(Rest(s)) = Cardinality(s) - 1
<1>1. Pick(s) \in s
  BY DEF Pick
<1>2. Cardinality(s) \in Nat /\ Cardinality(s) # 0
  BY FS_CardinalityType, FS_EmptySet
<1>3. QED
  BY <1>1, <1>2, FS_RemoveElement DEF Rest

(* f has, for the sets of T, the sum of w over their members.              *)
Sums(f, w, T) ==
  f = [s \in T |-> IF s = {} THEN 0 ELSE w[Pick(s)] + f[Rest(s)]]

SubsetsUpTo(S, n) == {s \in SUBSET S : Cardinality(s) <= n}

(* The sums over the subsets of a finite set exist, whatever is added.     *)
LEMMA SumsExist ==
  ASSUME NEW S, IsFiniteSet(S), NEW w, \A x \in S : w[x] \in Nat
  PROVE  \E f \in [SUBSET S -> Nat] : Sums(f, w, SUBSET S)
<1> DEFINE A == {n \in Nat : \E f \in [SubsetsUpTo(S, n) -> Nat] :
                                Sums(f, w, SubsetsUpTo(S, n))}
<1>0. \A s \in SUBSET S : /\ IsFiniteSet(s) /\ Cardinality(s) \in Nat
                          /\ Cardinality(s) = 0 <=> s = {}
  BY FS_Subset, FS_CardinalityType, FS_EmptySet
<1>1. 0 \in A
  <2> DEFINE f == [s \in SubsetsUpTo(S, 0) |-> 0]
  <2>1. \A s \in SubsetsUpTo(S, 0) : s = {}
    BY <1>0 DEF SubsetsUpTo
  <2>2. f \in [SubsetsUpTo(S, 0) -> Nat] /\ Sums(f, w, SubsetsUpTo(S, 0))
    BY <2>1 DEF Sums
  <2>3. QED
    BY <2>2
<1>2. ASSUME NEW n \in Nat, n \in A PROVE n + 1 \in A
  <2>1. PICK f \in [SubsetsUpTo(S, n) -> Nat] : Sums(f, w, SubsetsUpTo(S, n))
    BY <1>2
  <2> DEFINE g == [s \in SubsetsUpTo(S, n + 1) |->
                     IF s \in SubsetsUpTo(S, n) THEN f[s]
                     ELSE w[Pick(s)] + f[Rest(s)]]
  <2>2. ASSUME NEW s \in SubsetsUpTo(S, n + 1)
        PROVE  /\ g[s] \in Nat
               /\ g[s] = IF s = {} THEN 0 ELSE w[Pick(s)] + g[Rest(s)]
    <3>1. CASE s = {}
      <4>1. s \in SubsetsUpTo(S, n)
        BY <1>0, <3>1 DEF SubsetsUpTo
      <4>2. f[s] = 0
        BY <2>1, <3>1, <4>1 DEF Sums
      <4>3. QED
        BY <3>1, <4>1, <4>2
    <3>2. CASE s # {}
      <4>1. IsFiniteSet(s) /\ s \subseteq S /\ Cardinality(s) <= n + 1
        BY <1>0 DEF SubsetsUpTo
      <4>2. /\ Pick(s) \in S /\ Cardinality(s) \in Nat /\ Rest(s) \subseteq S
            /\ Cardinality(Rest(s)) = Cardinality(s) - 1
        BY <3>2, <4>1, PickProperties
      <4>3. Rest(s) \in SubsetsUpTo(S, n) /\ Rest(s) \in SubsetsUpTo(S, n + 1)
        BY <4>1, <4>2 DEF SubsetsUpTo
      <4>4. g[Rest(s)] = f[Rest(s)] /\ f[Rest(s)] \in Nat /\ w[Pick(s)] \in Nat
        BY <4>2, <4>3
      <4>5. s \in SubsetsUpTo(S, n) => f[s] = w[Pick(s)] + f[Rest(s)]
        BY <2>1, <3>2 DEF Sums
      <4>6. g[s] = w[Pick(s)] + f[Rest(s)]
        BY <4>5
      <4>7. QED
        BY <3>2, <4>4, <4>6
    <3>3. QED
      BY <3>1, <3>2
  <2>3. g \in [SubsetsUpTo(S, n + 1) -> Nat] /\ Sums(g, w, SubsetsUpTo(S, n + 1))
    BY <2>2 DEF Sums
  <2>4. QED
    BY <2>3
<1>3. Nat \subseteq A
  <2> HIDE DEF A
  <2>1. QED
    BY <1>1, <1>2, SetInduction
<1>4. Cardinality(S) \in A
  BY <1>0, <1>3
<1>5. SubsetsUpTo(S, Cardinality(S)) = SUBSET S
  BY <1>0, FS_Subset DEF SubsetsUpTo
<1>6. QED
  BY <1>4, <1>5

(* They are natural numbers, if what is added is.                          *)
LEMMA SumsType ==
  ASSUME NEW S, IsFiniteSet(S), NEW w, \A x \in S : w[x] \in Nat,
         NEW f, Sums(f, w, SUBSET S)
  PROVE  \A s \in SUBSET S : f[s] \in Nat
<1> DEFINE A == {n \in Nat : \A s \in SUBSET S : Cardinality(s) = n => f[s] \in Nat}
<1>0. \A s \in SUBSET S : /\ IsFiniteSet(s) /\ Cardinality(s) \in Nat
                          /\ Cardinality(s) = 0 <=> s = {}
  BY FS_Subset, FS_CardinalityType, FS_EmptySet
<1>1. 0 \in A
  BY <1>0 DEF Sums
<1>2. ASSUME NEW n \in Nat, n \in A PROVE n + 1 \in A
  <2> SUFFICES ASSUME NEW s \in SUBSET S, Cardinality(s) = n + 1
               PROVE  f[s] \in Nat
    OBVIOUS
  <2>1. s # {} /\ IsFiniteSet(s)
    BY <1>0
  <2>2. Pick(s) \in S /\ Rest(s) \in SUBSET S /\ Cardinality(Rest(s)) = n
    BY <2>1, PickProperties
  <2>3. f[s] = w[Pick(s)] + f[Rest(s)]
    BY <2>1 DEF Sums
  <2>4. QED
    BY <1>2, <2>2, <2>3
<1>3. Nat \subseteq A
  <2> HIDE DEF A
  <2>1. QED
    BY <1>1, <1>2, SetInduction
<1>4. QED
  BY <1>0, <1>3

(* The sum of what a function maps the elements of a set to.               *)
SumOver(w, S) == MapThenSumSet(LAMBDA x : w[x], S)

(* MapThenSumSet, which is defined by a recursive function, returns a      *)
(* natural number for a finite set of natural numbers.                     *)
LEMMA SumType ==
  ASSUME NEW S, IsFiniteSet(S), NEW w, \A x \in S : w[x] \in Nat
  PROVE  SumOver(w, S) \in Nat
<1> DEFINE pick(s) == CHOOSE x \in s : TRUE
           Is(f) == f = [s \in SUBSET S |-> IF s = {} THEN 0
                                       ELSE w[pick(s)] + f[s \ {pick(s)}]]
           F == CHOOSE f : Is(f)
<1>1. SumOver(w, S) = F[S]
  BY DEF SumOver, MapThenSumSet, MapThenFoldSet
<1>2. \E f : Is(f)
  <2>1. PICK f \in [SUBSET S -> Nat] : Sums(f, w, SUBSET S)
    BY SumsExist
  <2>2. QED
    BY <2>1, Zenon DEF Sums, Pick, Rest
<1>3. Sums(F, w, SUBSET S)
  BY <1>2, Zenon DEF Sums, Pick, Rest
<1> HIDE DEF F
<1>4. QED
  BY <1>1, <1>3, SumsType

(* v and w have the same numbers for the members of T.                     *)
Agree(v, w, T) == \A x \in T : v[x] = w[x]

(* f has the sum for every set of members of S.                            *)
SumsOf(f, w, S) == Sums(f, w, SUBSET S)

(* The sums of the same numbers are the same, whatever larger set they are *)
(* subsets of.                                                             *)
LEMMA SumsAgree ==
  ASSUME NEW S, NEW T \in SUBSET S, IsFiniteSet(T),
         NEW v, NEW w, Agree(v, w, T),
         NEW f, SumsOf(f, v, S), NEW g, SumsOf(g, w, T),
         NEW s \in SUBSET T
  PROVE  f[s] = g[s]
<1> DEFINE A == {n \in Nat : \A r \in SUBSET T : Cardinality(r) = n => f[r] = g[r]}
<1>0. \A r \in SUBSET T : /\ IsFiniteSet(r) /\ Cardinality(r) \in Nat
                          /\ Cardinality(r) = 0 <=> r = {}
  BY FS_Subset, FS_CardinalityType, FS_EmptySet
<1>1. 0 \in A
  BY <1>0 DEF Sums, SumsOf
<1>2. ASSUME NEW n \in Nat, n \in A PROVE n + 1 \in A
  <2> SUFFICES ASSUME NEW r \in SUBSET T, Cardinality(r) = n + 1
               PROVE  f[r] = g[r]
    OBVIOUS
  <2>1. r # {} /\ IsFiniteSet(r)
    BY <1>0
  <2>2. Pick(r) \in T /\ Rest(r) \in SUBSET T /\ Cardinality(Rest(r)) = n
    BY <2>1, PickProperties
  <2>3. f[r] = v[Pick(r)] + f[Rest(r)] /\ g[r] = w[Pick(r)] + g[Rest(r)]
    BY <2>1 DEF Sums, SumsOf
  <2>4. QED
    BY <1>2, <2>2, <2>3 DEF Agree
<1>3. Nat \subseteq A
  <2> HIDE DEF A
  <2>1. QED
    BY <1>1, <1>2, SetInduction
<1>4. QED
  BY <1>0, <1>3

(* MapThenSumSet is such a sum.                                            *)
LEMMA SumIsSums ==
  ASSUME NEW S, IsFiniteSet(S), NEW w, \A x \in S : w[x] \in Nat,
         NEW f, Sums(f, w, SUBSET S)
  PROVE  \A s \in SUBSET S : SumOver(w, s) = f[s]
<1> SUFFICES ASSUME NEW s \in SUBSET S PROVE SumOver(w, s) = f[s]
  OBVIOUS
<1>0. IsFiniteSet(s) /\ \A x \in s : w[x] \in Nat
  BY FS_Subset
<1> DEFINE pick(r) == CHOOSE x \in r : TRUE
           Is(g) == g = [r \in SUBSET s |-> IF r = {} THEN 0
                                       ELSE w[pick(r)] + g[r \ {pick(r)}]]
           F == CHOOSE g : Is(g)
<1>1. SumOver(w, s) = F[s]
  BY DEF SumOver, MapThenSumSet, MapThenFoldSet
<1>2. \E g : Is(g)
  <2>1. PICK g \in [SUBSET s -> Nat] : Sums(g, w, SUBSET s)
    BY <1>0, SumsExist
  <2>2. QED
    BY <2>1, Zenon DEF Sums, Pick, Rest
<1>3. Sums(F, w, SUBSET s)
  BY <1>2, Zenon DEF Sums, Pick, Rest
<1> HIDE DEF F
<1>4. s \in SUBSET S /\ s \in SUBSET s /\ Agree(w, w, s)
  BY DEF Agree
<1>5. SumsOf(f, w, S) /\ SumsOf(F, w, s)
  BY <1>3 DEF SumsOf
<1>6. f[s] = F[s]
  BY <1>0, <1>4, <1>5, SumsAgree
<1>7. QED
  BY <1>1, <1>6

(* Nothing adds up to 0.                                                   *)
LEMMA SumEmpty == ASSUME NEW w PROVE SumOver(w, {}) = 0
<1>1. IsFiniteSet({}) /\ \A x \in {} : w[x] \in Nat
  BY FS_EmptySet
<1>2. PICK f \in [SUBSET {} -> Nat] : Sums(f, w, SUBSET {})
  BY <1>1, SumsExist
<1>3. f[{}] = 0
  BY <1>2 DEF Sums
<1>4. QED
  BY <1>1, <1>2, <1>3, SumIsSums

(* Functions that agree on a set have the same sum over it.                *)
LEMMA SumSame ==
  ASSUME NEW S, IsFiniteSet(S), NEW v, NEW w,
         \A x \in S : v[x] \in Nat /\ v[x] = w[x]
  PROVE  SumOver(v, S) = SumOver(w, S)
<1>1. PICK f \in [SUBSET S -> Nat] : Sums(f, v, SUBSET S)
  BY SumsExist
<1>2. PICK g \in [SUBSET S -> Nat] : Sums(g, w, SUBSET S)
  BY SumsExist
<1>3. S \in SUBSET S /\ Agree(v, w, S)
      /\ \A x \in S : v[x] \in Nat /\ w[x] \in Nat
  BY DEF Agree
<1>4. SumsOf(f, v, S) /\ SumsOf(g, w, S)
  BY <1>1, <1>2 DEF SumsOf
<1>5. f[S] = g[S]
  BY <1>3, <1>4, SumsAgree
<1>6. SumOver(v, S) = f[S] /\ SumOver(w, S) = g[S]
  BY <1>1, <1>2, <1>3, SumIsSums
<1>7. QED
  BY <1>3, <1>5, <1>6

IsPlus(a, b, c) == a = b + c

(* Any member may be added first.                                          *)
LEMMA SumsRemove ==
  ASSUME NEW S, IsFiniteSet(S), NEW w, \A x \in S : w[x] \in Nat,
         NEW f, Sums(f, w, SUBSET S), NEW y \in S
  PROVE  IsPlus(f[S], w[y], f[S \ {y}])
<1> DEFINE A == {n \in Nat : \A s \in SUBSET S : Cardinality(s) = n =>
                               \A x \in s : f[s] = w[x] + f[s \ {x}]}
<1>0. \A s \in SUBSET S : /\ IsFiniteSet(s) /\ Cardinality(s) \in Nat
                          /\ Cardinality(s) = 0 <=> s = {}
                          /\ f[s] \in Nat
  BY FS_Subset, FS_CardinalityType, FS_EmptySet, SumsType
<1>1. 0 \in A
  BY <1>0
<1>2. ASSUME NEW n \in Nat, n \in A PROVE n + 1 \in A
  <2> SUFFICES ASSUME NEW s \in SUBSET S, Cardinality(s) = n + 1, NEW x \in s
               PROVE  f[s] = w[x] + f[s \ {x}]
    OBVIOUS
  <2>1. s # {} /\ IsFiniteSet(s)
    BY <1>0
  <2>2. PICK p : p = Pick(s)
    OBVIOUS
  <2>3. /\ p \in s /\ s \ {p} \in SUBSET S /\ Cardinality(s \ {p}) = n
        /\ f[s] = w[p] + f[s \ {p}]
    <3>1. Pick(s) \in s /\ Rest(s) \subseteq s /\ Cardinality(Rest(s)) = Cardinality(s) - 1
      BY <2>1, PickProperties
    <3>2. f[s] = w[Pick(s)] + f[Rest(s)]
      BY <2>1 DEF Sums
    <3>3. Rest(s) = s \ {p}
      BY <2>2 DEF Rest
    <3>4. QED
      BY <2>2, <3>1, <3>2, <3>3
  <2>4. CASE x = p
    BY <2>3, <2>4
  <2>5. CASE x # p
    <3>1. PICK q : q = s \ {p, x}
      OBVIOUS
    <3>2. /\ x \in s \ {p} /\ q = (s \ {p}) \ {x}
          /\ p \in s \ {x} /\ q = (s \ {x}) \ {p}
      BY <2>3, <2>5, <3>1
    <3>3. Cardinality(s \ {x}) = n /\ s \ {x} \in SUBSET S
      <4>1. Cardinality(s \ {x}) = Cardinality(s) - 1
        BY <2>1, FS_RemoveElement
      <4>2. QED
        BY <4>1
    <3>4. f[s \ {p}] = w[x] + f[q] /\ f[s \ {x}] = w[p] + f[q]
      <4>1. ASSUME NEW t \in SUBSET S, Cardinality(t) = n, NEW z \in t
            PROVE  f[t] = w[z] + f[t \ {z}]
        BY <1>2, <4>1
      <4>2. f[s \ {p}] = w[x] + f[(s \ {p}) \ {x}]
        BY ONLY <2>3, <3>2, <4>1
      <4>3. f[s \ {x}] = w[p] + f[(s \ {x}) \ {p}]
        BY ONLY <3>2, <3>3, <4>1
      <4>4. QED
        BY <3>2, <4>2, <4>3
    <3>5. f[q] \in Nat /\ w[x] \in Nat /\ w[p] \in Nat
      BY <1>0, <2>3, <3>1
    <3>6. QED
      BY <2>3, <3>4, <3>5
  <2>6. QED
    BY <2>4, <2>5
<1>3. Nat \subseteq A
  <2> HIDE DEF A
  <2>1. QED
    BY <1>1, <1>2, SetInduction
<1>4. QED
  BY <1>0, <1>3 DEF IsPlus

(* A sum is one element and the sum of the others.                         *)
LEMMA SumRemove ==
  ASSUME NEW S, IsFiniteSet(S), NEW w, \A x \in S : w[x] \in Nat, NEW y \in S
  PROVE  SumOver(w, S) = w[y] + SumOver(w, S \ {y})
<1>1. PICK f \in [SUBSET S -> Nat] : Sums(f, w, SUBSET S)
  BY SumsExist
<1>2. S \in SUBSET S /\ S \ {y} \in SUBSET S
  OBVIOUS
<1>3. IsPlus(f[S], w[y], f[S \ {y}])
  BY <1>1, SumsRemove
<1>4. \A s \in SUBSET S : SumOver(w, s) = f[s]
  BY <1>1, SumIsSums
<1>5. QED
  BY <1>2, <1>3, <1>4 DEF IsPlus

(* A number that is put at the end of a sequence is added to its sum.      *)
LEMMA SumAppend ==
  ASSUME NEW s \in Seq(Nat), NEW n \in Nat
  PROVE  SumOver(Append(s, n), DOMAIN Append(s, n)) = SumOver(s, DOMAIN s) + n
<1>1. PICK t : t = Append(s, n)
  OBVIOUS
<1>2. PICK k \in Nat : k = Len(s)
  OBVIOUS
<1>3. /\ DOMAIN s = 1 .. k /\ DOMAIN t = 1 .. (k + 1) /\ t[k + 1] = n
      /\ \A i \in 1 .. k : t[i] \in Nat /\ t[i] = s[i]
      /\ \A i \in 1 .. (k + 1) : t[i] \in Nat
  BY <1>1, <1>2
<1>4. IsFiniteSet(1 .. k) /\ IsFiniteSet(1 .. (k + 1))
  BY FS_Interval
<1>5. k + 1 \in 1 .. (k + 1) /\ (1 .. (k + 1)) \ {k + 1} = 1 .. k
  OBVIOUS
<1>6. SumOver(t, 1 .. (k + 1)) = t[k + 1] + SumOver(t, 1 .. k)
  BY <1>3, <1>4, <1>5, SumRemove
<1>7. SumOver(t, 1 .. k) = SumOver(s, 1 .. k) /\ SumOver(s, 1 .. k) \in Nat
  BY <1>3, <1>4, SumSame, SumType
<1>8. QED
  BY <1>1, <1>3, <1>6, <1>7

-----------------------------------------------------------------------------

(* The sum over the numbers up to n + 1 is that over those up to n, and    *)
(* what comes last.                                                        *)
LEMMA SumUpTo ==
  ASSUME NEW n \in Nat, NEW f, \A i \in 1 .. (n + 1) : f[i] \in Nat
  PROVE  /\ SumOver(f, 1 .. (n + 1)) = SumOver(f, 1 .. n) + f[n + 1]
         /\ SumOver(f, 1 .. n) \in Nat /\ SumOver(f, 1 .. (n + 1)) \in Nat
<1>1. IsFiniteSet(1 .. n) /\ IsFiniteSet(1 .. (n + 1))
  BY FS_Interval
<1>2. n + 1 \in 1 .. (n + 1) /\ (1 .. (n + 1)) \ {n + 1} = 1 .. n
  OBVIOUS
<1>3. SumOver(f, 1 .. (n + 1)) = f[n + 1] + SumOver(f, 1 .. n)
  BY <1>1, <1>2, SumRemove
<1>4. SumOver(f, 1 .. n) \in Nat /\ SumOver(f, 1 .. (n + 1)) \in Nat /\ f[n + 1] \in Nat
  BY <1>1, <1>2, SumType
<1>5. QED
  BY <1>3, <1>4

(* Over no numbers it is 0.                                                *)
LEMMA SumUpToZero == ASSUME NEW f PROVE SumOver(f, 1 .. 0) = 0
<1>1. 1 .. 0 = {}
  OBVIOUS
<1>2. QED
  BY <1>1, SumEmpty

(* What is added member by member is added in the sum.                     *)
LEMMA SumPlus ==
  ASSUME NEW n \in Nat, NEW f, NEW g, NEW h,
         \A i \in 1 .. n : f[i] \in Nat /\ g[i] \in Nat /\ h[i] = f[i] + g[i]
  PROVE  /\ SumOver(f, 1 .. n) \in Nat /\ SumOver(g, 1 .. n) \in Nat
         /\ SumOver(h, 1 .. n) = SumOver(f, 1 .. n) + SumOver(g, 1 .. n)
<1> DEFINE A == {k \in Nat : k <= n =>
                   /\ SumOver(f, 1 .. k) \in Nat /\ SumOver(g, 1 .. k) \in Nat
                   /\ SumOver(h, 1 .. k) = SumOver(f, 1 .. k) + SumOver(g, 1 .. k)}
<1>1. 0 \in A
  BY SumUpToZero
<1>2. ASSUME NEW k \in Nat, k \in A PROVE k + 1 \in A
  <2>1. SUFFICES ASSUME k + 1 <= n
                 PROVE  /\ SumOver(f, 1 .. (k + 1)) \in Nat /\ SumOver(g, 1 .. (k + 1)) \in Nat
                        /\ SumOver(h, 1 .. (k + 1))
                             = SumOver(f, 1 .. (k + 1)) + SumOver(g, 1 .. (k + 1))
    OBVIOUS
  <2>2. \A i \in 1 .. (k + 1) : i \in 1 .. n
    BY <2>1
  <2>3. \A i \in 1 .. (k + 1) : f[i] \in Nat /\ g[i] \in Nat /\ h[i] \in Nat
                                /\ h[i] = f[i] + g[i]
    BY <2>2
  <2>4. /\ SumOver(f, 1 .. (k + 1)) = SumOver(f, 1 .. k) + f[k + 1]
        /\ SumOver(f, 1 .. k) \in Nat /\ SumOver(f, 1 .. (k + 1)) \in Nat
    BY <2>3, SumUpTo
  <2>5. /\ SumOver(g, 1 .. (k + 1)) = SumOver(g, 1 .. k) + g[k + 1]
        /\ SumOver(g, 1 .. k) \in Nat /\ SumOver(g, 1 .. (k + 1)) \in Nat
    BY <2>3, SumUpTo
  <2>6. SumOver(h, 1 .. (k + 1)) = SumOver(h, 1 .. k) + h[k + 1]
    BY <2>3, SumUpTo
  <2>7. SumOver(h, 1 .. k) = SumOver(f, 1 .. k) + SumOver(g, 1 .. k)
    BY <1>2, <2>1
  <2>8. k + 1 \in 1 .. (k + 1)
    OBVIOUS
  <2>9. f[k + 1] \in Nat /\ g[k + 1] \in Nat /\ h[k + 1] = f[k + 1] + g[k + 1]
    BY <2>3, <2>8
  <2>10. QED
    BY <2>4, <2>5, <2>6, <2>7, <2>9
<1>3. Nat \subseteq A
  <2> HIDE DEF A
  <2>1. QED
    BY <1>1, <1>2, SetInduction
<1>4. QED
  BY <1>3

(* Nothing is added where there is nothing.                                *)
LEMMA SumTail ==
  ASSUME NEW n \in Nat, NEW o \in 0 .. n, NEW f, \A i \in 1 .. n : f[i] \in Nat,
         \A i \in (o + 1) .. n : f[i] = 0
  PROVE  SumOver(f, 1 .. n) = SumOver(f, 1 .. o)
<1> DEFINE A == {k \in Nat : o <= k /\ k <= n => SumOver(f, 1 .. k) = SumOver(f, 1 .. o)}
<1>1. 0 \in A
  <2>1. o <= 0 => o = 0
    OBVIOUS
  <2>2. QED
    BY <2>1
<1>2. ASSUME NEW k \in Nat, k \in A PROVE k + 1 \in A
  <2>1. SUFFICES ASSUME o <= k + 1, k + 1 <= n
                 PROVE  SumOver(f, 1 .. (k + 1)) = SumOver(f, 1 .. o)
    OBVIOUS
  <2>2. CASE o = k + 1
    BY <2>2
  <2>3. CASE o # k + 1
    <3>1. o <= k /\ k + 1 \in (o + 1) .. n
      BY <2>1, <2>3
    <3>2. \A i \in 1 .. (k + 1) : f[i] \in Nat
      BY <2>1
    <3>3. /\ SumOver(f, 1 .. (k + 1)) = SumOver(f, 1 .. k) + f[k + 1]
          /\ SumOver(f, 1 .. k) \in Nat
      BY <3>2, SumUpTo
    <3>4. f[k + 1] = 0
      BY <3>1
    <3>5. SumOver(f, 1 .. k) = SumOver(f, 1 .. o)
      BY <1>2, <2>1, <3>1
    <3>6. QED
      BY <3>3, <3>4, <3>5
  <2>4. QED
    BY <2>2, <2>3
<1>3. Nat \subseteq A
  <2> HIDE DEF A
  <2>1. QED
    BY <1>1, <1>2, SetInduction
<1>4. QED
  BY <1>3

(* A longer sum is no less.                                                *)
LEMMA SumLonger ==
  ASSUME NEW n \in Nat, NEW o \in 0 .. n, NEW f, \A i \in 1 .. n : f[i] \in Nat
  PROVE  SumOver(f, 1 .. o) <= SumOver(f, 1 .. n) /\ SumOver(f, 1 .. o) \in Nat
<1> DEFINE A == {k \in Nat : o <= k /\ k <= n =>
                   SumOver(f, 1 .. o) <= SumOver(f, 1 .. k)}
<1>0. SumOver(f, 1 .. o) \in Nat
  <2>1. IsFiniteSet(1 .. o) /\ \A i \in 1 .. o : f[i] \in Nat
    BY FS_Interval
  <2>2. QED
    BY <2>1, SumType
<1>1. 0 \in A
  <2>1. o <= 0 => o = 0
    OBVIOUS
  <2>2. QED
    BY <1>0, <2>1
<1>2. ASSUME NEW k \in Nat, k \in A PROVE k + 1 \in A
  <2>1. SUFFICES ASSUME o <= k + 1, k + 1 <= n
                 PROVE  SumOver(f, 1 .. o) <= SumOver(f, 1 .. (k + 1))
    OBVIOUS
  <2>2. CASE o = k + 1
    BY <1>0, <2>2
  <2>3. CASE o # k + 1
    <3>1. o <= k
      BY <2>1, <2>3
    <3>2. k + 1 \in 1 .. n /\ \A i \in 1 .. (k + 1) : f[i] \in Nat
      BY <2>1
    <3>3. /\ SumOver(f, 1 .. (k + 1)) = SumOver(f, 1 .. k) + f[k + 1]
          /\ SumOver(f, 1 .. k) \in Nat
      BY <3>2, SumUpTo
    <3>4. f[k + 1] \in Nat
      BY <3>2
    <3>5. SumOver(f, 1 .. o) <= SumOver(f, 1 .. k)
      BY <1>2, <2>1, <3>1
    <3>6. QED
      BY <1>0, <3>3, <3>4, <3>5
  <2>4. QED
    BY <2>2, <2>3
<1>3. Nat \subseteq A
  <2> HIDE DEF A
  <2>1. QED
    BY <1>1, <1>2, SetInduction
<1>4. QED
  BY <1>0, <1>3

(* One more at one place is one more in the sum.                           *)
LEMMA SumOneMore ==
  ASSUME NEW n \in Nat, NEW c \in 1 .. n, NEW f, NEW h,
         \A i \in 1 .. n : f[i] \in Nat /\ (i # c => h[i] = f[i]), h[c] = f[c] + 1
  PROVE  SumOver(h, 1 .. n) = SumOver(f, 1 .. n) + 1
<1>1. PICK S : S = (1 .. n) \ {c}
  OBVIOUS
<1>2. IsFiniteSet(1 .. n) /\ IsFiniteSet(S)
  <2>1. IsFiniteSet(1 .. n)
    BY FS_Interval
  <2>2. S \in SUBSET (1 .. n)
    BY <1>1
  <2>3. QED
    BY <2>1, <2>2, FS_Subset
<1>3. \A i \in S : f[i] \in Nat /\ h[i] = f[i]
  BY <1>1
<1>4. \A i \in 1 .. n : f[i] \in Nat /\ h[i] \in Nat
  <2>1. f[c] \in Nat /\ h[c] \in Nat
    OBVIOUS
  <2>2. QED
    BY <2>1
<1>5. /\ SumOver(f, 1 .. n) = f[c] + SumOver(f, S)
      /\ SumOver(h, 1 .. n) = h[c] + SumOver(h, S)
  BY <1>1, <1>2, <1>4, SumRemove
<1>6. SumOver(h, S) = SumOver(f, S) /\ SumOver(f, S) \in Nat
  BY <1>2, <1>3, SumSame, SumType
<1>7. f[c] \in Nat /\ h[c] = f[c] + 1
  OBVIOUS
<1>8. QED
  BY <1>5, <1>6, <1>7

(* Powers, as the repeated product that defines them, exist.               *)
LEMMA PowersExist ==
  ASSUME NEW n \in Nat, NEW b \in Nat
  PROVE  \E f \in [0 .. n -> Nat] : f = [i \in 0 .. n |-> IF i = 0 THEN 1 ELSE b * f[i - 1]]
<1> DEFINE A == {k \in Nat : \E f \in [0 .. k -> Nat] :
                               /\ f[0] = 1
                               /\ \A i \in 1 .. k : f[i] = b * f[i - 1]}
<1>1. 0 \in A
  <2> DEFINE f == [i \in 0 .. 0 |-> 1]
  <2>1. f \in [0 .. 0 -> Nat] /\ f[0] = 1 /\ \A i \in 1 .. 0 : f[i] = b * f[i - 1]
    OBVIOUS
  <2>2. QED
    BY <2>1
<1>2. ASSUME NEW k \in Nat, k \in A PROVE k + 1 \in A
  <2>1. PICK f \in [0 .. k -> Nat] : /\ f[0] = 1
                                     /\ \A i \in 1 .. k : f[i] = b * f[i - 1]
    BY <1>2
  <2> DEFINE g == [i \in 0 .. (k + 1) |-> IF i = k + 1 THEN b * f[k] ELSE f[i]]
  <2>2. f[k] \in Nat /\ b * f[k] \in Nat
    <3>1. k \in 0 .. k
      OBVIOUS
    <3>2. f[k] \in Nat
      BY <3>1
    <3>3. QED
      BY <3>2
  <2>3. g \in [0 .. (k + 1) -> Nat]
    BY <2>2
  <2>4. g[0] = 1
    BY <2>1
  <2>5. ASSUME NEW i \in 1 .. (k + 1) PROVE g[i] = b * g[i - 1]
    <3>1. CASE i = k + 1
      BY <3>1
    <3>2. CASE i # k + 1
      <4>1. i \in 1 .. k /\ i - 1 \in 0 .. k /\ i - 1 # k + 1 /\ i \in 0 .. (k + 1)
            /\ i - 1 \in 0 .. (k + 1)
        BY <3>2
      <4>2. f[i] = b * f[i - 1]
        BY <2>1, <4>1
      <4>3. g[i] = f[i] /\ g[i - 1] = f[i - 1]
        BY <3>2, <4>1
      <4>4. QED
        BY <4>2, <4>3
    <3>3. QED
      BY <3>1, <3>2
  <2> HIDE DEF g
  <2>6. k + 1 \in Nat
    OBVIOUS
  <2>7. QED
    BY <2>3, <2>4, <2>5, <2>6, Zenon
<1>3. Nat \subseteq A
  <2> HIDE DEF A
  <2>1. QED
    BY <1>1, <1>2, SetInduction
<1>4. PICK f \in [0 .. n -> Nat] : f[0] = 1 /\ \A i \in 1 .. n : f[i] = b * f[i - 1]
  BY <1>3
<1>5. \A i \in 0 .. n : f[i] = IF i = 0 THEN 1 ELSE b * f[i - 1]
  <2>1. \A i \in 0 .. n : i = 0 \/ i \in 1 .. n
    OBVIOUS
  <2>2. QED
    BY <1>4, <2>1
<1>6. f = [i \in 0 .. n |-> IF i = 0 THEN 1 ELSE b * f[i - 1]]
  BY <1>5
<1>7. QED
  BY <1>6
=============================================================================
