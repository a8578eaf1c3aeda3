-------------------------- MODULE YggdrasilProofs --------------------------
(***************************************************************************)
(* Theorems about the board of a player, for any permanents: that its      *)
(* tables keep what enters them, that the loops over its iterators come to *)
(* everything they should, and that it implements a battlefield.  The last *)
(* section is about the cards themselves, for any deck file (Oracle.tla):  *)
(* that the abilities the reader makes of it have their targets in order,  *)
(* and that the client has the cards of the server.                        *)
(***************************************************************************)
EXTENDS Yggdrasil, Oracle, FoldProofs, FiniteSetTheorems, TLAPS

Combat == {"attackers", "damage"}
Steps  == {"untap", "main", "sba", "cleanup"} \cup Combat

(* Each table has one collection, but for that of the creatures in combat. *)
(* A list has no permanent twice, and none of another table or list.       *)
TreeInv ==
  /\ ht \in [Tables -> Seq(Seq(Permanents))]
  /\ Len(ht["artos"]) = 1 /\ Len(ht["superfriends"]) = 1
  /\ step \in Steps
  /\ IF step \in Combat THEN multiplicity = 1 /\ Len(ht["creas"]) = 2
                        ELSE multiplicity = 0 /\ Len(ht["creas"]) = 1
  /\ \A t \in Tables : \A i \in DOMAIN ht[t] :
       /\ IsInjective(ht[t][i])
       /\ \A c \in Range(ht[t][i]) : Table[c] = t
  /\ \A i, j \in DOMAIN ht["creas"] :
       i # j => Range(ht["creas"][i]) \cap Range(ht["creas"][j]) = {}

(* The steps in which the loops run.                                       *)
LoopSteps == [none |-> Steps, untapping |-> {"untap"}, checking |-> {"main", "sba"},
              choose |-> {"attackers"}, splitting |-> {"damage"},
              resolving |-> {"damage"}, healing |-> {"cleanup"}]

StepInv ==
  /\ doing \in DOMAIN LoopSteps /\ step \in LoopSteps[doing]
  /\ doing = "none" => frames = <<>> /\ leaf = nullptr
  /\ doing = "none" /\ step = "attackers" => coll("creas", 1) = <<>>
  /\ doing # "choose" => selected = <<>> /\ turn = 0

(* A node of a collection at its k-th permanent.                           *)
collAt(t, i, k) == [node |-> "collection", of |-> t, child |-> i, at |-> k]

Through(S) == visited = [c \in Permanents |-> IF c \in S THEN 1 ELSE 0]

(* The loop is at a permanent of a collection, or about to leave it, ...   *)
Walks(above, t, i, before) ==
  \E k \in 1 .. Len(coll(t, i)) :
    /\ frames = Append(above, collAt(t, i, k))
    /\ leaf \in {coll(t, i)[k], climbing}
    /\ Through(before \cup {coll(t, i)[m] : m \in 1 .. k})

(* ... has left it for the nodes above, or has come to its end.            *)
Climbs(above, seen) == frames = above /\ leaf = climbing /\ Through(seen)
Over(seen) == frames = <<>> /\ leaf = nullptr /\ Through(seen)

All(t, i) == Range(coll(t, i))

Loop(above, t, i) ==
  \/ Walks(above, t, i, {})
  \/ Climbs(above, All(t, i))
  \/ Over(All(t, i))

(* What the loop over the board has gone through before its n-th table.    *)
Before(n) == UNION {All(order[m], 0) : m \in 1 .. n}

(* It comes to the n-th table if it is not empty, and passes over another  *)
(* one only where it starts.                                               *)
BoardLoop ==
  \/ \E n \in 0 .. 2 :
       /\ All(order[n + 1], 0) # {}
       /\ n = 2 => All("creas", 0) # {} \/ All("artos", 0) = {}
       /\ \/ Walks(<<boardFrame(n), tableFrame(order[n + 1])>>, order[n + 1], 0,
                   Before(n))
          \/ Climbs(<<boardFrame(n), tableFrame(order[n + 1])>>, Before(n + 1))
          \/ Climbs(<<boardFrame(n)>>, Before(n + 1))
  \/ Over(board \ unreached)

LoopInv ==
  /\ doing \in {"checking", "healing"} => Loop(<<tableFrame("creas")>>, "creas", 0)
  /\ doing \in {"splitting", "resolving"} => Loop(<<stateFrame(0, 0)>>, "creas", 1)
  /\ doing = "untapping" => BoardLoop

(* How many have not been selected, of those the loop has gone through.    *)
Kept == Cardinality({m \in 1 .. turn - 1 : ~selected[m]})

(* The iterator is at the first creature that the loop has not gone        *)
(* through; those that have been selected are not before it any more.      *)
ChooseInv ==
  doing = "choose" =>
    /\ selected \in Seq(BOOLEAN) /\ turn \in 1 .. Len(selected) + 1
    /\ Len(stay) = Len(selected) - (turn - 1) + Kept
    /\ \/ /\ frames = <<stateFrame(0, 0), collAt("creas", 0, Kept + 1)>>
          /\ leaf \in Permanents
       \/ /\ frames = <<stateFrame(0, 0), collAt("creas", 0, Kept)>>
          /\ leaf = climbing /\ Kept > 0
       \/ /\ frames = <<stateFrame(0, 0)>> /\ leaf = climbing
          /\ turn = Len(selected) + 1
       \/ /\ frames = <<>> /\ leaf = nullptr
          /\ turn = Len(selected) + 1

IInv == TreeInv /\ StepInv /\ LoopInv /\ ChooseInv

-----------------------------------------------------------------------------

(* The lists of a table, one after the other: of one list ...              *)
LEMMA FlattenOne == ASSUME NEW s PROVE FlattenSeq(<<s>>) = s
<1> DEFINE P(f) == f = [i \in 1 .. 1 |-> IF i = 1 THEN <<s>>[i]
                                        ELSE f[i - 1] \o <<s>>[i]]
<1>1. P([i \in 1 .. 1 |-> s])
  OBVIOUS
<1>2. P(CHOOSE f : P(f))
  BY <1>1
<1>3. (CHOOSE f : P(f))[1] = s
  BY <1>2
<1>4. Len(<<s>>) = 1
  OBVIOUS
<1>5. QED
  BY <1>3, <1>4 DEF FlattenSeq

(* ... and of two, as in combat.                                           *)
LEMMA FlattenTwo == ASSUME NEW s, NEW t PROVE FlattenSeq(<<s, t>>) = s \o t
<1> DEFINE P(f) == f = [i \in 1 .. 2 |-> IF i = 1 THEN <<s, t>>[i]
                                        ELSE f[i - 1] \o <<s, t>>[i]]
           g == [i \in 1 .. 2 |-> IF i = 1 THEN s ELSE s \o t]
<1>1. P(g)
  <2>1. g[1] = s /\ <<s, t>>[1] = s /\ <<s, t>>[2] = t
    OBVIOUS
  <2> DEFINE h == [i \in 1 .. 2 |-> IF i = 1 THEN <<s, t>>[i]
                                   ELSE g[i - 1] \o <<s, t>>[i]]
  <2>2. h[1] = s
    BY <2>1
  <2>3. h[2] = s \o t
    BY <2>1
  <2>4. g[2] = s \o t
    OBVIOUS
  <2>5. \A i \in 1 .. 2 : g[i] = h[i]
    BY <2>1, <2>2, <2>3, <2>4
  <2>6. g = h
    BY <2>5
  <2>7. QED
    BY <2>6
<1> DEFINE F == CHOOSE f : P(f)
<1>2. P(F)
  BY <1>1
<1> HIDE DEF F
<1>3. F = [i \in 1 .. 2 |-> IF i = 1 THEN <<s, t>>[i] ELSE F[i - 1] \o <<s, t>>[i]]
  BY <1>2
<1>4. F[1] = <<s, t>>[1] /\ F[2] = F[1] \o <<s, t>>[2]
  <2>1. \A i \in 1 .. 2 : F[i] = IF i = 1 THEN <<s, t>>[i] ELSE F[i - 1] \o <<s, t>>[i]
    BY <1>3
  <2>2. 2 - 1 = 1
    OBVIOUS
  <2>3. QED
    BY <2>1, <2>2
<1>5. Len(<<s, t>>) = 2
  OBVIOUS
<1>6. FlattenSeq(<<s, t>>) = F[2]
  BY <1>5 DEF FlattenSeq, F
<1>7. <<s, t>>[1] = s /\ <<s, t>>[2] = t
  OBVIOUS
<1>8. QED
  BY <1>4, <1>6, <1>7

(* A sequence is a tuple of its elements.                                  *)
LEMMA One ==
  ASSUME NEW S, NEW a \in S, NEW t \in Seq(S), Len(t) = 1, t[1] = a
  PROVE  t = <<a>>
OBVIOUS

(* The same of two.                                                        *)
LEMMA Two ==
  ASSUME NEW S, NEW a \in S, NEW b \in S, NEW t \in Seq(S),
         Len(t) = 2, t[1] = a, t[2] = b
  PROVE  t = <<a, b>>
OBVIOUS

(* The same of three.                                                      *)
LEMMA Three ==
  ASSUME NEW S, NEW a \in S, NEW b \in S, NEW c \in S, NEW t \in Seq(S),
         Len(t) = 3, t[1] = a, t[2] = b, t[3] = c
  PROVE  t = <<a, b, c>>
OBVIOUS

(* Names for operators on sequences, so that the provers take what they *)
(* return for a value and not for something to be computed.                *)
Longer(s, a) == Append(s, a)
Beginning(s, n) == SubSeq(s, 1, n)
Joined(s, t) == s \o t
Without(s, k) == RemoveAt(s, k)

(* What appending does, for each part of the sequence.                     *)
LEMMA Longers ==
  ASSUME NEW S, NEW s \in Seq(S), NEW a \in S
  PROVE  /\ Longer(s, a) \in Seq(S) /\ Len(Longer(s, a)) = Len(s) + 1
         /\ Longer(s, a)[Len(s) + 1] = a
         /\ \A i \in 1 .. Len(s) : Longer(s, a)[i] = s[i]
BY DEF Longer

(* An element that is not the last stays where it was.                     *)
LEMMA LongerKeeps ==
  ASSUME NEW S, NEW s \in Seq(S), NEW a \in S, NEW i \in 1 .. Len(s)
  PROVE  Longer(s, a)[i] = s[i]
BY Longers

(* What the first n of a sequence are.                                     *)
LEMMA Beginnings ==
  ASSUME NEW S, NEW s \in Seq(S), NEW n \in Nat, n <= Len(s)
  PROVE  /\ Beginning(s, n) \in Seq(S) /\ Len(Beginning(s, n)) = n
         /\ \A i \in 1 .. n : Beginning(s, n)[i] = s[i]
<1>1. Beginning(s, n) \in Seq(S)
  BY DEF Beginning
<1>2. Len(Beginning(s, n)) = n
  BY DEF Beginning
<1>3. \A i \in 1 .. n : Beginning(s, n)[i] = s[i]
  BY DEF Beginning
<1>4. QED
  BY <1>1, <1>2, <1>3

(* A path of one node gets a second ...                                    *)
LEMMA LongerOne ==
  ASSUME NEW S, NEW a \in S, NEW b \in S, NEW s \in Seq(S), Len(s) = 1, s[1] = a
  PROVE  Longer(s, b) = <<a, b>>
<1>1. Longer(s, b) \in Seq(S) /\ Len(Longer(s, b)) = Len(s) + 1
  BY Longers
<1>2. Longer(s, b)[Len(s) + 1] = b
  BY ZenonT(40), Longers
<1>3. ASSUME NEW i \in 1 .. Len(s) PROVE Longer(s, b)[i] = s[i]
  BY Zenon, LongerKeeps
<1>4. Len(s) + 1 = 2 /\ 1 \in 1 .. Len(s)
  OBVIOUS
<1>5. Len(Longer(s, b)) = 2
  BY <1>1, <1>4
<1>6. Longer(s, b)[2] = b
  BY <1>2, <1>4
<1>7. Longer(s, b)[1] = a
  BY <1>3, <1>4
<1>8. QED
  BY <1>1, <1>5, <1>6, <1>7, Two

(* ... and one of two a third.                                             *)
LEMMA LongerTwo ==
  ASSUME NEW S, NEW a \in S, NEW b \in S, NEW c \in S, NEW s \in Seq(S),
         Len(s) = 2, s[1] = a, s[2] = b
  PROVE  Longer(s, c) = <<a, b, c>>
<1>1. Longer(s, c) \in Seq(S) /\ Len(Longer(s, c)) = Len(s) + 1
  BY ZenonT(40), Longers
<1>2. Longer(s, c)[Len(s) + 1] = c
  BY ZenonT(40), Longers
<1>3. ASSUME NEW i \in 1 .. Len(s) PROVE Longer(s, c)[i] = s[i]
  BY <1>3, LongerKeeps
<1>4. Len(s) + 1 = 3 /\ 1 \in 1 .. Len(s) /\ 2 \in 1 .. Len(s)
  OBVIOUS
<1>5. Len(Longer(s, c)) = 3
  BY <1>1, <1>4
<1>6. Longer(s, c)[3] = c
  BY <1>2, <1>4
<1>7. Longer(s, c)[1] = a /\ Longer(s, c)[2] = b
  BY <1>3, <1>4
<1>8. QED
  BY <1>1, <1>5, <1>6, <1>7, Three

(* A path of two nodes loses the last ...                                  *)
LEMMA BeginningTwo ==
  ASSUME NEW S, NEW a \in S, NEW b \in S, NEW s \in Seq(S), Len(s) = 2, s[1] = a
  PROVE  Beginning(s, 1) = <<a>>
<1>1. 1 \in Nat /\ 1 <= Len(s) /\ 1 \in 1 .. 1
  OBVIOUS
<1>2. Beginning(s, 1) \in Seq(S) /\ Len(Beginning(s, 1)) = 1
  BY <1>1, Beginnings
<1>3. Beginning(s, 1)[1] = s[1]
  BY <1>1, Beginnings
<1>4. QED
  BY <1>2, <1>3

(* ... and one of three.                                                   *)
LEMMA BeginningThree ==
  ASSUME NEW S, NEW a \in S, NEW b \in S, NEW s \in Seq(S),
         Len(s) = 3, s[1] = a, s[2] = b
  PROVE  Beginning(s, 2) = <<a, b>>
<1>1. 2 \in Nat /\ 2 <= Len(s) /\ 1 \in 1 .. 2 /\ 2 \in 1 .. 2
  OBVIOUS
<1>2. Beginning(s, 2) \in Seq(S) /\ Len(Beginning(s, 2)) = 2
  BY <1>1, Beginnings
<1>3. \A i \in 1 .. 2 : Beginning(s, 2)[i] = s[i]
  BY <1>1, Beginnings
<1>4. Beginning(s, 2)[1] = a /\ Beginning(s, 2)[2] = b
  BY <1>1, <1>3
<1>5. QED
  BY <1>2, <1>4, Two

(* The same for tuples of a set, with the operators of Sequences.          *)
LEMMA Tuples ==
  ASSUME NEW S, NEW a \in S, NEW b \in S, NEW c \in S
  PROVE  /\ Append(<<a>>, b) = <<a, b>> /\ Append(<<a, b>>, c) = <<a, b, c>>
         /\ Append(<<>>, a) = <<a>>
         /\ SubSeq(<<a>>, 1, 0) = <<>> /\ SubSeq(<<a, b>>, 1, 1) = <<a>>
         /\ SubSeq(<<a, b, c>>, 1, 2) = <<a, b>>
<1>1. Append(<<a>>, b) = <<a, b>>
  <2>1. <<a>> \in Seq(S) /\ Len(<<a>>) = 1 /\ <<a>>[1] = a
    OBVIOUS
  <2>2. Longer(<<a>>, b) = <<a, b>>
    BY <2>1, LongerOne
  <2>3. QED
    BY <2>2 DEF Longer
<1>2. Append(<<a, b>>, c) = <<a, b, c>>
  <2>1. <<a, b>> \in Seq(S) /\ Len(<<a, b>>) = 2 /\ <<a, b>>[1] = a /\ <<a, b>>[2] = b
    OBVIOUS
  <2>2. Longer(<<a, b>>, c) = <<a, b, c>>
    BY <2>1, LongerTwo
  <2>3. QED
    BY <2>2 DEF Longer
<1>3. Append(<<>>, a) = <<a>>
  OBVIOUS
<1>4. SubSeq(<<a>>, 1, 0) = <<>>
  OBVIOUS
<1>5. SubSeq(<<a, b>>, 1, 1) = <<a>>
  <2>1. <<a, b>> \in Seq(S) /\ Len(<<a, b>>) = 2 /\ <<a, b>>[1] = a
    OBVIOUS
  <2>2. Beginning(<<a, b>>, 1) = <<a>>
    BY <2>1, BeginningTwo
  <2>3. QED
    BY <2>2 DEF Beginning
<1>6. SubSeq(<<a, b, c>>, 1, 2) = <<a, b>>
  <2>1. /\ <<a, b, c>> \in Seq(S) /\ Len(<<a, b, c>>) = 3
        /\ <<a, b, c>>[1] = a /\ <<a, b, c>>[2] = b
    OBVIOUS
  <2>2. Beginning(<<a, b, c>>, 2) = <<a, b>>
    BY <2>1, BeginningThree
  <2>3. QED
    BY <2>2 DEF Beginning
<1>7. QED
  BY <1>1, <1>2, <1>3, <1>4, <1>5, <1>6

(* The same for tuples of anything, with those of the iterator.            *)
LEMMA Pair ==
  ASSUME NEW a, NEW b
  PROVE  /\ Append(<<>>, a) = <<a>> /\ Append(<<a>>, b) = <<a, b>>
         /\ Front(<<a>>) = <<>> /\ Front(<<a, b>>) = <<a>>
         /\ Last(<<a>>) = a /\ Last(<<a, b>>) = b
         /\ Len(<<a>>) = 1 /\ Len(<<a, b>>) = 2
<1>1. /\ Append(<<a>>, b) = <<a, b>> /\ Append(<<>>, a) = <<a>>
      /\ SubSeq(<<a>>, 1, 0) = <<>> /\ SubSeq(<<a, b>>, 1, 1) = <<a>>
  <2>1. a \in {a, b} /\ b \in {a, b}
    OBVIOUS
  <2>2. QED
    BY <2>1, Tuples
<1>2. Len(<<a>>) = 1 /\ Len(<<a, b>>) = 2 /\ <<a>>[1] = a /\ <<a, b>>[2] = b
  OBVIOUS
<1>3. Last(<<a>>) = a /\ Last(<<a, b>>) = b
  BY <1>2 DEF Last
<1>4. Front(<<a>>) = SubSeq(<<a>>, 1, 0) /\ Front(<<a, b>>) = SubSeq(<<a, b>>, 1, 1)
  BY <1>2 DEF Front
<1>5. QED
  BY <1>1, <1>2, <1>3, <1>4

(* A path of three nodes: a list, its table, the board.                    *)
LEMMA Triple ==
  ASSUME NEW a, NEW b, NEW c
  PROVE  /\ Append(<<a, b>>, c) = <<a, b, c>> /\ Front(<<a, b, c>>) = <<a, b>>
         /\ Last(<<a, b, c>>) = c /\ Len(<<a, b, c>>) = 3
<1>1. Append(<<a, b>>, c) = <<a, b, c>> /\ SubSeq(<<a, b, c>>, 1, 2) = <<a, b>>
  <2>1. a \in {a, b, c} /\ b \in {a, b, c} /\ c \in {a, b, c}
    OBVIOUS
  <2>2. QED
    BY <2>1, Tuples
<1>2. Len(<<a, b, c>>) = 3 /\ <<a, b, c>>[3] = c
  OBVIOUS
<1>3. Last(<<a, b, c>>) = c
  BY <1>2 DEF Last
<1>4. Front(<<a, b, c>>) = SubSeq(<<a, b, c>>, 1, 2)
  BY <1>2 DEF Front
<1>5. QED
  BY <1>1, <1>2, <1>3, <1>4

(* What joining two sequences gives, for each part of it.                  *)
LEMMA JoinedParts ==
  ASSUME NEW S, NEW s \in Seq(S), NEW t \in Seq(S)
  PROVE  /\ Joined(s, t) \in Seq(S) /\ Len(Joined(s, t)) = Len(s) + Len(t)
         /\ \A i \in 1 .. Len(s) : Joined(s, t)[i] = s[i]
         /\ \A i \in 1 .. Len(t) : Joined(s, t)[Len(s) + i] = t[i]
BY DEF Joined

(* An element of the first.                                                *)
LEMMA JoinsFirst ==
  ASSUME NEW S, NEW s \in Seq(S), NEW t \in Seq(S), NEW i \in 1 .. Len(s)
  PROVE  Joined(s, t)[i] = s[i]
BY JoinedParts

(* An element of the second.                                               *)
LEMMA JoinsSecond ==
  ASSUME NEW S, NEW s \in Seq(S), NEW t \in Seq(S), NEW i \in 1 .. Len(t)
  PROVE  Joined(s, t)[Len(s) + i] = t[i]
BY JoinedParts

(* How long they are together.                                             *)
LEMMA JoinsType ==
  ASSUME NEW S, NEW s \in Seq(S), NEW t \in Seq(S)
  PROVE  Joined(s, t) \in Seq(S) /\ Len(Joined(s, t)) = Len(s) + Len(t)
BY JoinedParts

(* Two lists with nothing twice and nothing in common: nor has the list of *)
(* both.                                                                   *)
LEMMA JoinKeepsOnce ==
  ASSUME NEW S, NEW s \in Seq(S), NEW t \in Seq(S),
         IsInjective(s), IsInjective(t), Range(s) \cap Range(t) = {}
  PROVE  /\ s \o t \in Seq(S) /\ Len(s \o t) = Len(s) + Len(t)
         /\ IsInjective(s \o t) /\ Range(s \o t) = Range(s) \cup Range(t)
<1> DEFINE r == Joined(s, t)
<1>1. /\ r \in Seq(S) /\ Len(r) = Len(s) + Len(t)
      /\ \A i \in 1 .. Len(s) : r[i] = s[i]
      /\ \A i \in 1 .. Len(t) : r[Len(s) + i] = t[i]
  <2>1. Joined(s, t) \in Seq(S) /\ Len(Joined(s, t)) = Len(s) + Len(t)
    BY JoinsType
  <2>2. ASSUME NEW i \in 1 .. Len(s) PROVE Joined(s, t)[i] = s[i]
    BY <2>2, JoinsFirst
  <2>3. ASSUME NEW i \in 1 .. Len(t) PROVE Joined(s, t)[Len(s) + i] = t[i]
    BY <2>3, JoinsSecond
  <2>4. QED
    BY <2>1, <2>2, <2>3
<1> HIDE DEF r
<1>2. Len(s) \in Nat /\ Len(t) \in Nat /\ DOMAIN s = 1 .. Len(s) /\ DOMAIN t = 1 .. Len(t)
  OBVIOUS
<1>3. DOMAIN r = 1 .. Len(s) + Len(t)
  BY <1>1
<1>4. ASSUME NEW i \in DOMAIN r
      PROVE  \/ i \in DOMAIN s /\ r[i] = s[i]
             \/ \E j \in DOMAIN t : i = Len(s) + j /\ r[i] = t[j]
  <2>1. CASE i <= Len(s)
    BY <1>1, <1>2, <1>3, <2>1
  <2>2. CASE i > Len(s)
    <3>1. i - Len(s) \in 1 .. Len(t) /\ Len(s) + (i - Len(s)) = i
      BY <1>2, <1>3, <2>2
    <3>2. r[Len(s) + (i - Len(s))] = t[i - Len(s)]
      BY <1>1, <3>1
    <3>3. QED
      BY <1>2, <3>1, <3>2
  <2>3. QED
    BY <1>2, <1>3, <2>1, <2>2
<1>5. \A i \in DOMAIN s : s[i] \in Range(s)
  BY DEF Range
<1>6. \A i \in DOMAIN t : t[i] \in Range(t)
  BY DEF Range
<1>7. ASSUME NEW i \in DOMAIN r, NEW j \in DOMAIN r, r[i] = r[j] PROVE i = j
  <2>1. CASE i \in DOMAIN s /\ r[i] = s[i] /\ j \in DOMAIN s /\ r[j] = s[j]
    BY <1>7, <2>1 DEF IsInjective
  <2>2. ASSUME NEW k \in DOMAIN t, r[i] = t[k] /\ j \in DOMAIN s /\ r[j] = s[j] PROVE FALSE
    BY <1>5, <1>6, <1>7, <2>2
  <2>3. ASSUME NEW k \in DOMAIN t, r[j] = t[k] /\ i \in DOMAIN s /\ r[i] = s[i] PROVE FALSE
    BY <1>5, <1>6, <1>7, <2>3
  <2>4. ASSUME NEW k \in DOMAIN t, NEW m \in DOMAIN t, i = Len(s) + k, j = Len(s) + m,
               r[i] = t[k], r[j] = t[m]
        PROVE  i = j
    BY <1>7, <2>4 DEF IsInjective
  <2>5. QED
    BY <1>4, <2>1, <2>2, <2>3, <2>4
<1>8. Range(r) = Range(s) \cup Range(t)
  <2>1. Range(r) \subseteq Range(s) \cup Range(t)
    BY <1>4, <1>5, <1>6 DEF Range
  <2>2. Range(s) \subseteq Range(r)
    <3>1. \A i \in 1 .. Len(s) : i \in DOMAIN r /\ r[i] = s[i]
      BY <1>1, <1>2, <1>3
    <3>2. QED
      BY <1>2, <3>1 DEF Range
  <2>3. Range(t) \subseteq Range(r)
    <3>1. \A i \in 1 .. Len(t) : Len(s) + i \in DOMAIN r /\ r[Len(s) + i] = t[i]
      BY <1>1, <1>2, <1>3
    <3>2. QED
      BY <1>2, <3>1 DEF Range
  <2>4. QED
    BY <2>1, <2>2, <2>3
<1>9. QED
  BY <1>1, <1>7, <1>8 DEF r, Joined, IsInjective

(* A list of one permanent.                                                *)
LEMMA Single ==
  ASSUME NEW S, NEW c \in S
  PROVE  /\ <<c>> \in Seq(S) /\ IsInjective(<<c>>) /\ Range(<<c>>) = {c} /\ Len(<<c>>) = 1
BY DEF IsInjective, Range

(* A new permanent at the end of a list: still nothing twice.              *)
LEMMA AppendKeepsOnce ==
  ASSUME NEW S, NEW s \in Seq(S), NEW c \in S, IsInjective(s), c \notin Range(s)
  PROVE  /\ Append(s, c) \in Seq(S)
         /\ IsInjective(Append(s, c)) /\ Range(Append(s, c)) = Range(s) \cup {c}
<1>1. Append(s, c) = s \o <<c>>
  OBVIOUS
<1>2. QED
  <2>1. PICK t : t = <<c>>
    OBVIOUS
  <2>2. t \in Seq(S) /\ IsInjective(t) /\ Range(t) = {c}
    BY <2>1, Single
  <2>3. s \o t \in Seq(S) /\ IsInjective(s \o t) /\ Range(s \o t) = Range(s) \cup {c}
    BY <2>2, JoinKeepsOnce
  <2>4. QED
    BY <1>1, <2>1, <2>3

(* What a list is without its k-th element.                                *)
LEMMA Withouts ==
  ASSUME NEW S, NEW s \in Seq(S), NEW k \in 1 .. Len(s)
  PROVE  /\ Without(s, k) \in Seq(S) /\ Len(Without(s, k)) = Len(s) - 1
         /\ \A i \in 1 .. Len(s) - 1 : Without(s, k)[i] = IF i < k THEN s[i] ELSE s[i + 1]
<1> DEFINE a == SubSeq(s, 1, k - 1)
           b == SubSeq(s, k + 1, Len(s))
<1>1. /\ a \in Seq(S) /\ Len(a) = k - 1
      /\ \A i \in 1 .. k - 1 : a[i] = s[i]
  OBVIOUS
<1>2. /\ b \in Seq(S) /\ Len(b) = Len(s) - k
      /\ \A i \in 1 .. Len(s) - k : b[i] = s[k + i]
  OBVIOUS
<1>3. Without(s, k) = Joined(a, b)
  BY DEF Without, RemoveAt, Joined
<1> HIDE DEF a, b
<1>4. /\ Joined(a, b) \in Seq(S) /\ Len(Joined(a, b)) = Len(a) + Len(b)
      /\ \A i \in 1 .. Len(a) : Joined(a, b)[i] = a[i]
      /\ \A i \in 1 .. Len(b) : Joined(a, b)[Len(a) + i] = b[i]
  <2>0. a \in Seq(S) /\ b \in Seq(S)
    BY <1>1, <1>2
  <2>1. Joined(a, b) \in Seq(S) /\ Len(Joined(a, b)) = Len(a) + Len(b)
    BY <2>0, JoinsType
  <2>2. ASSUME NEW i \in 1 .. Len(a) PROVE Joined(a, b)[i] = a[i]
    BY <2>0, <2>2, JoinsFirst
  <2>3. ASSUME NEW i \in 1 .. Len(b) PROVE Joined(a, b)[Len(a) + i] = b[i]
    BY <2>0, <2>3, JoinsSecond
  <2>4. QED
    BY <2>1, <2>2, <2>3
<1>5. Len(s) \in Nat /\ k \in Nat /\ k <= Len(s) /\ k >= 1
  OBVIOUS
<1>6. Len(Joined(a, b)) = Len(s) - 1
  BY <1>1, <1>2, <1>4, <1>5
<1>7. ASSUME NEW i \in 1 .. Len(s) - 1
      PROVE  Joined(a, b)[i] = IF i < k THEN s[i] ELSE s[i + 1]
  <2>1. CASE i < k
    <3>1. i \in 1 .. Len(a) /\ i \in 1 .. k - 1
      BY <1>1, <1>5, <2>1
    <3>2. QED
      BY <1>1, <1>4, <2>1, <3>1
  <2>2. CASE ~(i < k)
    <3> DEFINE j == i - (k - 1)
    <3>1. j \in 1 .. Len(b) /\ j \in 1 .. Len(s) - k /\ Len(a) + j = i /\ k + j = i + 1
      BY <1>1, <1>2, <1>5, <2>2
    <3>2. Joined(a, b)[Len(a) + j] = b[j] /\ b[j] = s[k + j]
      BY <1>2, <1>4, <3>1
    <3>3. QED
      BY <2>2, <3>1, <3>2
  <2>3. QED
    BY <2>1, <2>2
<1>8. QED
  BY <1>3, <1>4, <1>6, <1>7

(* A permanent is taken from a list: the others stay, in their order.      *)
LEMMA RemoveKeepsOnce ==
  ASSUME NEW S, NEW s \in Seq(S), NEW k \in 1 .. Len(s), IsInjective(s)
  PROVE  /\ RemoveAt(s, k) \in Seq(S) /\ Len(RemoveAt(s, k)) = Len(s) - 1
         /\ \A i \in 1 .. Len(s) - 1 : RemoveAt(s, k)[i] = IF i < k THEN s[i] ELSE s[i + 1]
         /\ IsInjective(RemoveAt(s, k)) /\ Range(RemoveAt(s, k)) = Range(s) \ {s[k]}
<1> DEFINE r == Without(s, k)
<1>1. /\ r \in Seq(S) /\ Len(r) = Len(s) - 1
      /\ \A i \in 1 .. Len(s) - 1 : r[i] = IF i < k THEN s[i] ELSE s[i + 1]
  BY Withouts
<1> HIDE DEF r
<1>2. Len(s) \in Nat /\ DOMAIN s = 1 .. Len(s) /\ DOMAIN r = 1 .. Len(s) - 1
  BY <1>1
<1>3. ASSUME NEW i \in DOMAIN r
      PROVE  \E j \in DOMAIN s : j # k /\ r[i] = s[j] /\ j = IF i < k THEN i ELSE i + 1
  <2>1. CASE i < k
    <3>1. i \in DOMAIN s /\ i # k /\ r[i] = s[i]
      BY <1>1, <1>2, <2>1
    <3>2. QED
      BY <2>1, <3>1
  <2>2. CASE ~(i < k)
    <3>1. i + 1 \in DOMAIN s /\ i + 1 # k /\ r[i] = s[i + 1]
      BY <1>1, <1>2, <2>2
    <3>2. QED
      BY <2>2, <3>1
  <2>3. QED
    BY <2>1, <2>2
<1>4. ASSUME NEW i \in DOMAIN r, NEW j \in DOMAIN r, r[i] = r[j] PROVE i = j
  <2>1. PICK m \in DOMAIN s : r[i] = s[m] /\ m = IF i < k THEN i ELSE i + 1
    BY <1>3
  <2>2. PICK n \in DOMAIN s : r[j] = s[n] /\ n = IF j < k THEN j ELSE j + 1
    BY <1>3
  <2>3. m = n
    BY <1>4, <2>1, <2>2 DEF IsInjective
  <2>4. i \in Nat /\ j \in Nat
    BY <1>2
  <2>5. QED
    BY <2>1, <2>2, <2>3, <2>4
<1>5. Range(r) = Range(s) \ {s[k]}
  <2>1. ASSUME NEW i \in DOMAIN r PROVE r[i] \in Range(s) /\ r[i] # s[k]
    <3>1. PICK j \in DOMAIN s : j # k /\ r[i] = s[j]
      BY <1>3
    <3>2. k \in DOMAIN s
      BY <1>2
    <3>3. QED
      BY <3>1, <3>2 DEF IsInjective, Range
  <2>2. ASSUME NEW j \in DOMAIN s, s[j] # s[k] PROVE \E i \in DOMAIN r : r[i] = s[j]
    <3>1. CASE j < k
      <4>1. j \in DOMAIN r /\ r[j] = s[j]
        BY <1>1, <1>2, <3>1
      <4>2. QED
        BY <4>1
    <3>2. CASE j > k
      <4>1. j - 1 \in 1 .. Len(s) - 1 /\ ~(j - 1 < k) /\ (j - 1) + 1 = j
        BY <1>2, <3>2
      <4>2. j - 1 \in DOMAIN r /\ r[j - 1] = s[j]
        BY <1>1, <1>2, <4>1
      <4>3. QED
        BY <4>2
    <3>3. j # k
      BY <2>2
    <3>4. QED
      BY <1>2, <3>1, <3>2, <3>3
  <2>3. Range(r) \subseteq Range(s) \ {s[k]}
    BY <2>1 DEF Range
  <2>4. Range(s) \ {s[k]} \subseteq Range(r)
    BY <2>2 DEF Range
  <2>5. QED
    BY <2>3, <2>4
<1>6. QED
  BY <1>1, <1>4, <1>5 DEF r, Without, IsInjective

(* The two sizes a block has.                                              *)
LEMMA Powers == 2^0 = 1 /\ 2^1 = 2
OBVIOUS

(* Where the first list that is not empty is.                              *)
LEMMA MinOne == Min({0}) = 0 /\ Min({1}) = 1 /\ Min({2, 1}) = 1
<1>1. ASSUME NEW S \in SUBSET Nat, NEW x \in S, \A y \in S : x <= y PROVE Min(S) = x
  <2>1. Min(S) \in S /\ \A y \in S : Min(S) <= y
    BY <1>1 DEF Min
  <2>2. Min(S) <= x /\ x <= Min(S) /\ x \in Nat /\ Min(S) \in Nat
    BY <1>1, <2>1
  <2>3. QED
    BY <2>2
<1>2. QED
  BY <1>1

(* The lists of each table: three of them, and one more in combat.         *)
LEMMA Tree ==
  ASSUME TreeInv
  PROVE  /\ \A t \in Tables : \A i \in 0 .. HT_SIZE(t) - 1 :
              /\ coll(t, i) \in Seq(Permanents) /\ IsInjective(coll(t, i))
              /\ All(t, i) \subseteq Permanents
              /\ \A c \in All(t, i) : Table[c] = t
         /\ HT_SIZE("artos") = 1 /\ HT_SIZE("superfriends") = 1
         /\ ht["artos"] = <<coll("artos", 0)>>
         /\ ht["superfriends"] = <<coll("superfriends", 0)>>
         /\ step \notin Combat =>
              /\ HT_SIZE("creas") = 1 /\ multiplicity = 0
              /\ ht["creas"] = <<coll("creas", 0)>>
         /\ step \in Combat =>
              /\ HT_SIZE("creas") = 2 /\ multiplicity = 1
              /\ ht["creas"] = <<coll("creas", 0), coll("creas", 1)>>
              /\ All("creas", 0) \cap All("creas", 1) = {}
<1>1. \A t \in Tables : ht[t] \in Seq(Seq(Permanents)) /\ DOMAIN ht[t] = 1 .. Len(ht[t])
  BY DEF TreeInv
<1>2. ASSUME NEW t \in Tables, NEW i \in 0 .. HT_SIZE(t) - 1
      PROVE  /\ coll(t, i) \in Seq(Permanents) /\ IsInjective(coll(t, i))
             /\ All(t, i) \subseteq Permanents
             /\ \A c \in All(t, i) : Table[c] = t
  <2>1. i + 1 \in DOMAIN ht[t]
    BY <1>1 DEF HT_SIZE
  <2>2. coll(t, i) \in Seq(Permanents)
    BY <1>1, <2>1 DEF coll
  <2>3. IsInjective(coll(t, i)) /\ \A c \in All(t, i) : Table[c] = t
    BY <2>1 DEF TreeInv, coll, All
  <2>4. All(t, i) \subseteq Permanents
    BY <2>2 DEF All, Range
  <2>5. QED
    BY <2>2, <2>3, <2>4
<1>3. HT_SIZE("artos") = 1 /\ HT_SIZE("superfriends") = 1
  BY DEF TreeInv, HT_SIZE
<1>4. ASSUME NEW t \in Tables, HT_SIZE(t) = 1 PROVE ht[t] = <<coll(t, 0)>>
  BY <1>1, <1>4 DEF HT_SIZE, coll
<1>5. step \notin Combat => HT_SIZE("creas") = 1 /\ multiplicity = 0
  BY DEF TreeInv, HT_SIZE
<1>6. ASSUME step \in Combat
      PROVE  /\ HT_SIZE("creas") = 2 /\ multiplicity = 1
             /\ ht["creas"] = <<coll("creas", 0), coll("creas", 1)>>
             /\ All("creas", 0) \cap All("creas", 1) = {}
  <2>1. HT_SIZE("creas") = 2 /\ multiplicity = 1
    BY <1>6 DEF TreeInv, HT_SIZE
  <2>2. coll("creas", 0) = ht["creas"][1] /\ coll("creas", 1) = ht["creas"][2]
    BY DEF coll
  <2>3. ht["creas"] \in Seq(Seq(Permanents)) /\ Len(ht["creas"]) = 2
    BY <1>1, <2>1 DEF HT_SIZE, Tables
  <2>4. ht["creas"] = <<ht["creas"][1], ht["creas"][2]>>
    BY <2>3
  <2>5. 1 \in DOMAIN ht["creas"] /\ 2 \in DOMAIN ht["creas"] /\ 1 # 2
    BY <2>3
  <2>6. All("creas", 0) \cap All("creas", 1) = {}
    BY <2>2, <2>5 DEF TreeInv, All
  <2>7. QED
    BY <2>1, <2>2, <2>4, <2>6
<1>7. QED
  BY <1>2, <1>3, <1>4, <1>5, <1>6 DEF Tables

(* What the state's functions say of the lists: who attacks, who stays.    *)
LEMMA Shape ==
  ASSUME TreeInv
  PROVE  /\ members("artos") = coll("artos", 0)
         /\ members("superfriends") = coll("superfriends", 0)
         /\ step \notin Combat =>
              /\ members("creas") = coll("creas", 0)
              /\ attackers = <<>> /\ stay = <<>>
         /\ step \in Combat =>
              /\ members("creas") = coll("creas", 0) \o coll("creas", 1)
              /\ attackers = coll("creas", 1) /\ stay = coll("creas", 0)
              /\ BLOCKSIZE = 1 /\ nbBlocks = 1
              /\ child(0, 0, TRUE) = 0 /\ child(0, 0, FALSE) = 1
              /\ views(TRUE) = <<0>> /\ views(FALSE) = <<1>>
<1>1. /\ ht["artos"] = <<coll("artos", 0)>>
      /\ ht["superfriends"] = <<coll("superfriends", 0)>>
  BY Tree
<1>2. members("artos") = coll("artos", 0)
  BY <1>1, FlattenOne DEF members
<1>3. members("superfriends") = coll("superfriends", 0)
  BY <1>1, FlattenOne DEF members
<1>4. ASSUME step \notin Combat
      PROVE  members("creas") = coll("creas", 0) /\ attackers = <<>> /\ stay = <<>>
  <2>1. ht["creas"] = <<coll("creas", 0)>> /\ multiplicity = 0
    BY <1>4, Tree
  <2>2. QED
    BY <2>1, FlattenOne DEF members, attackers, stay, contains
<1>5. ASSUME step \in Combat
      PROVE  /\ members("creas") = coll("creas", 0) \o coll("creas", 1)
             /\ attackers = coll("creas", 1) /\ stay = coll("creas", 0)
             /\ BLOCKSIZE = 1 /\ nbBlocks = 1
             /\ child(0, 0, TRUE) = 0 /\ child(0, 0, FALSE) = 1
             /\ views(TRUE) = <<0>> /\ views(FALSE) = <<1>>
  <2>1. /\ ht["creas"] = <<coll("creas", 0), coll("creas", 1)>>
        /\ multiplicity = 1 /\ HT_SIZE("creas") = 2
    BY <1>5, Tree
  <2>2. members("creas") = coll("creas", 0) \o coll("creas", 1)
    BY <2>1, FlattenTwo DEF members
  <2>3. BLOCKSIZE = 1 /\ PATTERNSIZE = 2
    BY <2>1, Powers DEF BLOCKSIZE, PATTERNSIZE
  <2>4. nbBlocks = 1
    BY <2>1, <2>3 DEF nbBlocks
  <2>5. child(0, 0, TRUE) = 0 /\ child(0, 0, FALSE) = 1
    BY <2>3 DEF child
  <2>6. ASSUME NEW first \in BOOLEAN
        PROVE  views(first) = <<child(0, 0, first)>>
    <3>1. nbBlocks * BLOCKSIZE = 1 /\ (1 - 1) \div 1 = 0 /\ (1 - 1) % 1 = 0
      BY <2>3, <2>4
    <3>2. views(first) = [n \in 1 .. 1 |-> child((n - 1) \div 1, (n - 1) % 1, first)]
      BY <2>3, <3>1 DEF views
    <3>3. DOMAIN views(first) = 1 .. 1 /\ views(first)[1] = child(0, 0, first)
      BY <3>1, <3>2
    <3>4. QED
      BY <3>2, <3>3
  <2>7. views(TRUE) = <<0>> /\ views(FALSE) = <<1>>
    BY <2>5, <2>6
  <2>8. ASSUME NEW first \in BOOLEAN, NEW i \in {0, 1}, views(first) = <<i>>
        PROVE  contains(first) = coll("creas", i)
    <3>1. /\ DOMAIN views(first) = {1} /\ views(first)[1] = i
      BY <2>8
    <3>2. [n \in DOMAIN views(first) |-> coll("creas", views(first)[n])]
            = <<coll("creas", i)>>
      BY <3>1
    <3>3. QED
      BY <2>1, <3>2, FlattenOne DEF contains
  <2>9. attackers = coll("creas", 1) /\ stay = coll("creas", 0)
    BY <2>7, <2>8 DEF attackers, stay
  <2>10. QED
    BY <2>2, <2>3, <2>4, <2>5, <2>7, <2>9
<1>6. QED
  BY <1>2, <1>3, <1>4, <1>5

(* What createStart returns, if it finds a permanent in the i-th collection *)
(* of a table.                                                             *)
Started(above, t, i) ==
  IF coll(t, i) = <<>> THEN NoStart
  ELSE [frames |-> Append(above, collAt(t, i, 1)), leaf |-> coll(t, i)[1]]

(* The iterator of a list starts at its first permanent, if it has one.    *)
LEMMA CollStart ==
  ASSUME TreeInv, NEW t \in Tables, NEW i \in 0 .. HT_SIZE(t) - 1, NEW above
  PROVE  collStart(above, t, i) = Started(above, t, i)
<1>1. coll(t, i) \in Seq(Permanents)
  BY Tree
<1>2. coll(t, i) # <<>> => Head(coll(t, i)) = coll(t, i)[1]
  BY <1>1
<1>3. QED
  BY <1>2 DEF collStart, Started, collFrame, collAt

(* A table of one list starts where its list does.                         *)
LEMMA TableStart ==
  ASSUME TreeInv, NEW t \in Tables, HT_SIZE(t) = 1, NEW above
  PROVE  tableStart(above, t) = Started(Append(above, tableFrame(t)), t, 0)
<1> DEFINE full == {i \in 0 .. HT_SIZE(t) - 1 : coll(t, i) # <<>>}
<1>1. 0 \in 0 .. HT_SIZE(t) - 1
  OBVIOUS
<1>2. coll(t, 0) = <<>> => full = {}
  OBVIOUS
<1>3. coll(t, 0) # <<>> => full = {0}
  OBVIOUS
<1>4. CASE coll(t, 0) = <<>>
  BY <1>2, <1>4 DEF tableStart, Started
<1>5. CASE coll(t, 0) # <<>>
  <2>1. full # {} /\ Min(full) = 0
    BY <1>3, <1>5, MinOne
  <2>2. tableStart(above, t) = collStart(Append(above, tableFrame(t)), t, Min(full))
    BY <2>1 DEF tableStart
  <2>3. QED
    BY <1>1, <2>1, <2>2, CollStart
<1>6. QED
  BY <1>4, <1>5

(* The iterators of combat: of those that stay and of the attackers.       *)
LEMMA StateStart ==
  ASSUME TreeInv, step \in Combat
  PROVE  /\ stateStart(TRUE) = Started(<<stateFrame(0, 0)>>, "creas", 0)
         /\ stateStart(FALSE) = Started(<<stateFrame(0, 0)>>, "creas", 1)
<1>1. ASSUME NEW first \in BOOLEAN, NEW i \in {0, 1}, views(first) = <<i>>
      PROVE  stateStart(first) = Started(<<stateFrame(0, 0)>>, "creas", i)
  <2> DEFINE full == {n \in DOMAIN views(first) : coll("creas", views(first)[n]) # <<>>}
  <2>1. DOMAIN views(first) = {1} /\ views(first)[1] = i
    BY <1>1
  <2>2. i \in 0 .. HT_SIZE("creas") - 1 /\ multiplicity # 0
    BY <1>1, Tree
  <2>3. CASE coll("creas", i) = <<>>
    <3>1. full = {}
      BY <2>1, <2>3
    <3>2. QED
      BY <2>3, <3>1 DEF stateStart, Started
  <2>4. CASE coll("creas", i) # <<>>
    <3>1. full = {1}
      BY <2>1, <2>4
    <3>2. full # {} /\ Min(full) = 1
      BY <3>1, MinOne
    <3>3. stateStart(first) = collStart(<<stateFrame(0, 0)>>, "creas", views(first)[1])
      BY <2>2, <3>2 DEF stateStart
    <3>4. QED
      BY <2>1, <2>2, <3>3, CollStart DEF Tables
  <2>5. QED
    BY <2>3, <2>4
<1>2. views(TRUE) = <<0>> /\ views(FALSE) = <<1>>
  BY Shape
<1>3. QED
  BY <1>1, <1>2

(* The board's tables, in the order of its fields.                         *)
LEMMA Orders ==
  /\ order[1] = "artos" /\ order[2] = "creas" /\ order[3] = "superfriends"
  /\ \A n \in 1 .. 3 : order[n] \in Tables
BY DEF order, Tables

(* Out of combat, a board is its three lists.                              *)
LEMMA Whole ==
  ASSUME TreeInv, step \notin Combat
  PROVE  /\ \A n \in 1 .. 3 : /\ HT_SIZE(order[n]) = 1
                              /\ members(order[n]) = coll(order[n], 0)
                              /\ coll(order[n], 0) = <<>> <=> All(order[n], 0) = {}
         /\ board = All("artos", 0) \cup All("creas", 0) \cup All("superfriends", 0)
<1>1. \A t \in Tables : HT_SIZE(t) = 1 /\ members(t) = coll(t, 0)
  BY Tree, Shape DEF Tables
<1>2. ASSUME NEW t \in Tables PROVE coll(t, 0) = <<>> <=> All(t, 0) = {}
  <2>1. coll(t, 0) \in Seq(Permanents)
    BY <1>1, Tree
  <2>2. coll(t, 0) # <<>> => coll(t, 0)[1] \in Range(coll(t, 0))
    BY <2>1 DEF Range
  <2>3. Range(<<>>) = {}
    BY DEF Range
  <2>4. QED
    BY <2>2, <2>3 DEF All
<1>3. board = UNION {Range(coll(t, 0)) : t \in Tables}
  BY <1>1 DEF board
<1>4. QED
  BY <1>1, <1>2, <1>3, Orders DEF All, Tables

(* The iterator of the board starts in the first table that is not empty.  *)
LEMMA BoardStart ==
  ASSUME TreeInv, step \notin Combat
  PROVE  /\ board = {} => boardStart = NoStart
         /\ \A n \in 1 .. 3 :
              (/\ All(order[n], 0) # {}
               /\ \A m \in 1 .. n - 1 : All(order[m], 0) = {})
                => boardStart = Started(<<boardFrame(n - 1), tableFrame(order[n])>>,
                                        order[n], 0)
<1> DEFINE full == {n \in 1 .. 3 : members(order[n]) # <<>>}
<1>0. full = {n \in 1 .. 3 : All(order[n], 0) # {}}
  BY Whole
<1>1. ASSUME board = {} PROVE boardStart = NoStart
  <2>1. full = {}
    <3>1. \A n \in 1 .. 3 : All(order[n], 0) = {}
      BY <1>1, Whole, Orders
    <3>2. QED
      BY <1>0, <3>1
  <2>2. QED
    BY <2>1 DEF boardStart
<1>2. ASSUME NEW n \in 1 .. 3, All(order[n], 0) # {},
             \A m \in 1 .. n - 1 : All(order[m], 0) = {}
      PROVE  boardStart = Started(<<boardFrame(n - 1), tableFrame(order[n])>>, order[n], 0)
  <2>1. n \in full /\ \A m \in full : n <= m
    <3>1. n \in full
      BY <1>0, <1>2
    <3>2. ASSUME NEW m \in full PROVE n <= m
      <4>1. m \in 1 .. 3 /\ All(order[m], 0) # {}
        BY <1>0
      <4>2. m \notin 1 .. n - 1
        BY <1>2, <4>1
      <4>3. QED
        BY <4>1, <4>2
    <3>3. QED
      BY <3>1, <3>2
  <2>2. Min(full) = n
    <3>1. Min(full) \in full /\ \A m \in full : Min(full) <= m
      BY <2>1 DEF Min
    <3>2. Min(full) <= n /\ n <= Min(full) /\ Min(full) \in 1 .. 3
      BY <2>1, <3>1
    <3>3. QED
      BY <3>2
  <2>3. boardStart = tableStart(<<boardFrame(n - 1)>>, order[n])
    BY <2>1, <2>2 DEF boardStart
  <2>4. order[n] \in Tables /\ HT_SIZE(order[n]) = 1
    BY Orders, Whole
  <2>5. boardStart = Started(Append(<<boardFrame(n - 1)>>, tableFrame(order[n])), order[n], 0)
    BY <2>3, <2>4, TableStart
  <2>6. QED
    BY <2>5, Pair
<1>3. QED
  BY <1>1, <1>2

(* The nodes above that of a collection.                                   *)
Above(above) ==
  \A x : /\ Front(Append(above, x)) = above /\ Last(Append(above, x)) = x
         /\ Len(Append(above, x)) # 1

(* The paths above a list, of one node or of two.                          *)
LEMMA Aboves == ASSUME NEW a, NEW b PROVE Above(<<a>>) /\ Above(<<a, b>>)
<1>1. ASSUME NEW x
      PROVE  /\ Front(Append(<<a>>, x)) = <<a>> /\ Last(Append(<<a>>, x)) = x
             /\ Len(Append(<<a>>, x)) # 1
  <2>1. Append(<<a>>, x) = <<a, x>>
    BY Pair, Zenon
  <2>2. Front(<<a, x>>) = <<a>> /\ Last(<<a, x>>) = x
    BY Pair, Zenon
  <2>3. Len(<<a, x>>) # 1
    OBVIOUS
  <2>4. QED
    BY <2>1, <2>2, <2>3, Zenon
<1>2. ASSUME NEW x
      PROVE  /\ Front(Append(<<a, b>>, x)) = <<a, b>> /\ Last(Append(<<a, b>>, x)) = x
             /\ Len(Append(<<a, b>>, x)) # 1
  <2>1. Append(<<a, b>>, x) = <<a, b, x>>
    BY Triple, Zenon
  <2>2. Front(<<a, b, x>>) = <<a, b>> /\ Last(<<a, b, x>>) = x
    BY Triple, Zenon
  <2>3. Len(<<a, b, x>>) # 1
    OBVIOUS
  <2>4. QED
    BY <2>1, <2>2, <2>3, Zenon
<1>3. QED
  BY <1>1, <1>2 DEF Above

(* One to the right in a list, and past its last one.                      *)
LEMMA CollAdvances ==
  ASSUME NEW t, NEW i, NEW k \in Nat
  PROVE  /\ advance(collAt(t, i, k)) = collAt(t, i, k + 1)
         /\ isEnd(collAt(t, i, k)) <=> k > Len(coll(t, i))
BY DEF advance, collAt, isEnd

(* A table of one list is at its end after it.                             *)
LEMMA TableAdvances ==
  ASSUME NEW t, HT_SIZE(t) = 1 PROVE isEnd(advance(tableFrame(t)))
<1>1. advance(tableFrame(t)) = [node |-> "hashtable", of |-> t, at |-> 1]
  BY DEF advance, tableFrame
<1>2. QED
  BY <1>1 DEF isEnd

(* One to the right in the board, and past its last table.                 *)
LEMMA BoardAdvances ==
  ASSUME NEW n \in 0 .. 2
  PROVE  /\ advance(boardFrame(n)) = boardFrame(n + 1)
         /\ isEnd(boardFrame(n + 1)) <=> n = 2
BY DEF advance, boardFrame, isEnd

(* In combat, each state has one list.                                     *)
LEMMA StateAdvances ==
  ASSUME BLOCKSIZE = 1, nbBlocks = 1 PROVE isEnd(advance(stateFrame(0, 0)))
<1>1. advance(stateFrame(0, 0)) = [node |-> "state", at |-> <<1, 0>>]
  BY DEF advance, stateFrame
<1> DEFINE f == [node |-> "state", at |-> <<1, 0>>]
<1>2. f.node = "state" /\ f.at[1] = 1
  OBVIOUS
<1>3. isEnd(f)
  BY <1>2 DEF isEnd
<1>4. QED
  BY <1>1, <1>3

-----------------------------------------------------------------------------

(* Nothing of the tree changes, so nothing that is said of it.             *)
LEMMA SameTree ==
  ASSUME UNCHANGED treeVars
  PROVE  /\ \A t, i : coll(t, i)' = coll(t, i) /\ All(t, i)' = All(t, i)
         /\ \A t : members(t)' = members(t)
         /\ board' = board /\ attackers' = attackers /\ stay' = stay
BY DEF treeVars, coll, All, board, members, attackers, stay, contains, views, child,
       nbBlocks, BLOCKSIZE, PATTERNSIZE, HT_SIZE

(* What shows that the loop is at the k-th permanent of a list.            *)
LEMMA ToWalk ==
  ASSUME NEW above, NEW t, NEW i, NEW before, coll(t, i)' = coll(t, i),
         NEW k \in 1 .. Len(coll(t, i)),
         frames' = Append(above, collAt(t, i, k)), leaf' = coll(t, i)[k],
         visited' = [c \in Permanents |->
                       IF c \in before \cup {coll(t, i)[m] : m \in 1 .. k} THEN 1 ELSE 0]
  PROVE  Walks(above, t, i, before)'
<1>1. {coll(t, i)[m] : m \in 1 .. k}' = {coll(t, i)[m] : m \in 1 .. k}
  OBVIOUS
<1>2. Through(before \cup {coll(t, i)[m] : m \in 1 .. k})'
  BY <1>1 DEF Through
<1>3. (frames = Append(above, collAt(t, i, k)))'
  BY DEF collAt
<1>4. (k \in 1 .. Len(coll(t, i)) /\ leaf \in {coll(t, i)[k], climbing})'
  OBVIOUS
<1>5. QED
  BY <1>2, <1>3, <1>4 DEF Walks

(* Down from a list to the permanent its iterator is at.                   *)
LEMMA CollDown ==
  ASSUME NEW fs, NEW t, NEW i, NEW k, Last(fs) = collAt(t, i, k)
  PROVE  down(fs, FALSE) = [frames |-> fs, leaf |-> coll(t, i)[k]]
<1> DEFINE f == collAt(t, i, k)
<1>1. f.node = "collection" /\ f.of = t /\ f.child = i /\ f.at = k
  BY DEF collAt
<1>2. QED
  BY <1>1 DEF down

(* A loop starts at the first permanent of a list, or is over at once.     *)
LEMMA Begins ==
  ASSUME TreeInv, UNCHANGED treeVars, NEW what, NEW from, begin(what, from),
         NEW above, NEW t \in Tables, NEW i \in 0 .. HT_SIZE(t) - 1,
         from = Started(above, t, i)
  PROVE  IF All(t, i) = {} THEN Over({})' ELSE Walks(above, t, i, {})'
<1>1. coll(t, i) \in Seq(Permanents) /\ coll(t, i)' = coll(t, i)
  BY Tree, SameTree
<1>2. CASE coll(t, i) = <<>>
  <2>1. All(t, i) = {}
    BY <1>2 DEF All, Range
  <2>2. frames' = <<>> /\ leaf' = nullptr /\ visited' = Never
    BY <1>2 DEF begin, Started, NoStart
  <2>3. Over({})'
    BY <2>2 DEF Over, Through, Never
  <2>4. QED
    BY <2>1, <2>3
<1>3. CASE coll(t, i) # <<>>
  <2>1. 1 \in 1 .. Len(coll(t, i)) /\ coll(t, i)[1] \in Permanents
    BY <1>1, <1>3
  <2>2. coll(t, i)[1] \in All(t, i) /\ coll(t, i)[1] # nullptr
    BY <1>1, <2>1, YggdrasilAssumption DEF All, Range
  <2>3. /\ frames' = Append(above, collAt(t, i, 1)) /\ leaf' = coll(t, i)[1]
        /\ visited' = [Never EXCEPT ![coll(t, i)[1]] = 1]
    BY <1>3, <2>2 DEF begin, Started
  <2>4. visited' = [c \in Permanents |->
                      IF c \in {} \cup {coll(t, i)[m] : m \in 1 .. 1} THEN 1 ELSE 0]
    BY <2>1, <2>3 DEF Never
  <2>5. Walks(above, t, i, {})'
    BY <1>1, <2>1, <2>3, <2>4, ToWalk
  <2>6. QED
    BY <2>2, <2>5
<1>4. QED
  BY <1>2, <1>3

(* iterator::operator++ and next() inside a list: the next permanent that  *)
(* the loop comes to is one it has not come to, and after the last one it  *)
(* leaves the list.                                                        *)
LEMMA WalkIncrement ==
  ASSUME increment, NEW above, NEW t, NEW i, NEW before, Walks(above, t, i, before)
  PROVE  Walks(above, t, i, before)'
<1>1. coll(t, i)' = coll(t, i)
  BY SameTree DEF increment
<1>2. PICK k \in 1 .. Len(coll(t, i)) :
        /\ frames = Append(above, collAt(t, i, k))
        /\ leaf \in {coll(t, i)[k], climbing}
        /\ Through(before \cup {coll(t, i)[m] : m \in 1 .. k})
  BY DEF Walks
<1>3. frames' = frames /\ leaf' = climbing /\ visited' = visited
  BY DEF increment
<1>4. QED
  BY <1>1, <1>2, <1>3 DEF Walks, Through, collAt

(* From the last permanent of a list the iterator leaves it, from another  *)
(* one it goes on to the next.                                             *)
LEMMA WalkClimb ==
  ASSUME TreeInv, climb, NEW above, Above(above), NEW before,
         NEW t \in Tables, NEW i \in 0 .. HT_SIZE(t) - 1,
         before \cap All(t, i) = {}, Walks(above, t, i, before)
  PROVE  \/ Walks(above, t, i, before)'
         \/ Climbs(above, before \cup All(t, i))'
<1>1. /\ coll(t, i)' = coll(t, i) /\ coll(t, i) \in Seq(Permanents)
      /\ IsInjective(coll(t, i)) /\ Len(coll(t, i)) \in Nat
  BY Tree, SameTree DEF climb
<1>2. PICK k \in 1 .. Len(coll(t, i)) :
        /\ frames = Append(above, collAt(t, i, k))
        /\ Through(before \cup {coll(t, i)[m] : m \in 1 .. k})
  BY DEF Walks
<1> DEFINE on == Append(Front(frames), advance(Last(frames)))
           next == collAt(t, i, k + 1)
<1>3. k \in Nat /\ k + 1 \in Nat /\ k + 1 \in 1 .. Len(coll(t, i)) + 1
  BY <1>1
<1>4. /\ Front(frames) = above /\ Last(frames) = collAt(t, i, k) /\ Len(frames) # 1
  BY <1>2 DEF Above
<1>5. on = Append(above, next) /\ Last(on) = next
  BY <1>3, <1>4, CollAdvances DEF Above
<1>6. CASE k + 1 > Len(coll(t, i))
  <2>1. isEnd(Last(on))
    BY <1>3, <1>5, <1>6, CollAdvances
  <2>2. frames' = above /\ leaf' = climbing /\ visited' = visited
    BY <1>4, <2>1 DEF climb, handedUp
  <2>3. All(t, i) = {coll(t, i)[m] : m \in 1 .. k}
    <3>1. k = Len(coll(t, i))
      BY <1>1, <1>3, <1>6
    <3>2. QED
      BY <1>1, <3>1 DEF All, Range
  <2>4. Through(before \cup All(t, i))'
    BY <1>1, <1>2, <2>2, <2>3 DEF Through, All
  <2>5. QED
    BY <2>2, <2>4 DEF Climbs
<1>7. CASE k + 1 \in 1 .. Len(coll(t, i))
  <2> DEFINE c == coll(t, i)[k + 1]
             seen == before \cup {coll(t, i)[m] : m \in 1 .. k}
  <2>1. ~isEnd(Last(on))
    BY <1>1, <1>3, <1>5, <1>7, CollAdvances
  <2>2. down(on, FALSE) = [frames |-> on, leaf |-> c]
    BY <1>5, CollDown
  <2>3. c \in Permanents /\ c # nullptr
    BY <1>1, <1>7, YggdrasilAssumption
  <2>4. frames' = on /\ leaf' = c /\ visited' = came(c)
    <3>1. PICK found : found = [frames |-> on, leaf |-> c]
      OBVIOUS
    <3>2. found = down(on, FALSE)
      BY <2>2, <3>1
    <3>3. found.frames = on /\ found.leaf = c
      BY <3>1
    <3>4. /\ frames' = found.frames /\ leaf' = found.leaf
          /\ visited' = IF found.leaf = nullptr THEN visited ELSE came(found.leaf)
      BY <2>1, <3>2 DEF climb
    <3>5. QED
      BY <2>3, <3>3, <3>4
  <2>5. c \notin seen
    <3>1. c \in All(t, i)
      BY <1>1, <1>7 DEF All, Range
    <3>2. ASSUME NEW m \in 1 .. k PROVE coll(t, i)[m] # c
      <4>1. m \in DOMAIN coll(t, i) /\ k + 1 \in DOMAIN coll(t, i) /\ m # k + 1
        BY <1>1, <1>3, <1>7
      <4>2. QED
        BY <1>1, <4>1 DEF IsInjective
    <3>3. QED
      BY <3>1, <3>2
  <2>6. visited' = [visited EXCEPT ![c] = 1]
    <3>1. visited[c] = 0 /\ 0 + 1 = 1
      BY <1>2, <2>3, <2>5 DEF Through
    <3>2. QED
      BY <2>4, <3>1, MinOne DEF came
  <2>7. visited' = [d \in Permanents |-> IF d \in seen \cup {c} THEN 1 ELSE 0]
    BY <1>2, <2>3, <2>6 DEF Through
  <2>8. seen \cup {c} = before \cup {coll(t, i)[m] : m \in 1 .. k + 1}
    <3>1. \A m : m \in 1 .. k + 1 <=> m \in 1 .. k \/ m = k + 1
      BY <1>3
    <3>2. QED
      BY <3>1
  <2>9. visited' = [d \in Permanents |->
                      IF d \in before \cup {coll(t, i)[m] : m \in 1 .. k + 1} THEN 1 ELSE 0]
    BY <2>7, <2>8
  <2>10. Walks(above, t, i, before)'
    BY <1>1, <1>5, <1>7, <2>4, <2>9, ToWalk
  <2>11. QED
    BY <2>10
<1>8. QED
  BY <1>1, <1>3, <1>6, <1>7

(* The outermost node at its end: the iterator is.                         *)
LEMMA Ascends ==
  ASSUME climb, NEW a, frames = <<a>>, isEnd(advance(a))
  PROVE  frames' = <<>> /\ leaf' = nullptr /\ visited' = visited
<1> DEFINE on == Append(Front(frames), advance(Last(frames)))
<1>1. Front(frames) = <<>> /\ Last(frames) = a /\ Len(frames) = 1
  BY Pair
<1>2. Last(on) = advance(a)
  BY <1>1, Pair
<1>3. QED
  BY <1>1, <1>2 DEF climb, handedUp

(* A loop over one list takes a step up.                                   *)
LEMMA LoopClimb ==
  ASSUME TreeInv, climb, NEW a, isEnd(advance(a)),
         NEW t \in Tables, NEW i \in 0 .. HT_SIZE(t) - 1, Loop(<<a>>, t, i)
  PROVE  Loop(<<a>>, t, i)'
<1>0. All(t, i)' = All(t, i) /\ leaf = climbing /\ climbing # nullptr
  BY SameTree DEF climb, climbing, nullptr
<1>1. CASE Walks(<<a>>, t, i, {})
  <2>1. Above(<<a>>)
    BY Aboves
  <2>2. CASE Walks(<<a>>, t, i, {})'
    BY <2>2 DEF Loop
  <2>3. CASE Climbs(<<a>>, {} \cup All(t, i))'
    <3>1. Climbs(<<a>>, All(t, i))'
      BY <2>3 DEF Climbs, Through
    <3>2. QED
      BY <3>1 DEF Loop
  <2>4. QED
    BY <1>1, <2>1, <2>2, <2>3, WalkClimb
<1>2. CASE Climbs(<<a>>, All(t, i))
  <2>1. frames' = <<>> /\ leaf' = nullptr /\ visited' = visited
    BY <1>2, Ascends DEF Climbs
  <2>2. Over(All(t, i))'
    BY <1>0, <1>2, <2>1 DEF Climbs, Over, Through
  <2>3. QED
    BY <2>2 DEF Loop
<1>3. QED
  BY <1>0, <1>1, <1>2 DEF Loop, Over

(* The loop of a list is about to leave a permanent.                       *)
LEMMA LoopIncrement ==
  ASSUME increment, NEW a, NEW t, NEW i, Loop(<<a>>, t, i)
  PROVE  Loop(<<a>>, t, i)'
<1>1. leaf # climbing /\ leaf # nullptr
  BY YggdrasilAssumption DEF increment
<1>2. Walks(<<a>>, t, i, {})
  BY <1>1 DEF Loop, Climbs, Over
<1>3. Walks(<<a>>, t, i, {})'
  BY <1>2, WalkIncrement
<1>4. QED
  BY <1>3 DEF Loop

(* The loop of a list begins.                                              *)
LEMMA LoopBegin ==
  ASSUME TreeInv, UNCHANGED treeVars, NEW what, NEW from, begin(what, from),
         NEW a, NEW t \in Tables, NEW i \in 0 .. HT_SIZE(t) - 1,
         from = Started(<<a>>, t, i)
  PROVE  Loop(<<a>>, t, i)'
<1>1. All(t, i)' = All(t, i)
  BY SameTree
<1>2. CASE All(t, i) = {}
  <2>1. Over({})'
    BY <1>2, Begins
  <2>2. Over(All(t, i))'
    BY <1>1, <1>2, <2>1 DEF Over, Through
  <2>3. QED
    BY <2>2 DEF Loop
<1>3. CASE All(t, i) # {}
  BY <1>3, Begins DEF Loop
<1>4. QED
  BY <1>2, <1>3

(* The loop over the board.                                                *)
LEMMA Befores ==
  ASSUME TreeInv, step \notin Combat
  PROVE  /\ Before(0) = {} /\ Before(1) = All("artos", 0)
         /\ Before(2) = All("artos", 0) \cup All("creas", 0)
         /\ Before(3) = board
         /\ \A n \in 0 .. 2 : /\ Before(n) \cap All(order[n + 1], 0) = {}
                             /\ Before(n) \cup All(order[n + 1], 0) = Before(n + 1)
<1>1. 1 .. 0 = {} /\ 1 .. 1 = {1} /\ 1 .. 2 = {1, 2} /\ 1 .. 3 = {1, 2, 3}
  OBVIOUS
<1>2. /\ Before(0) = {} /\ Before(1) = All("artos", 0)
      /\ Before(2) = All("artos", 0) \cup All("creas", 0)
      /\ Before(3) = All("artos", 0) \cup All("creas", 0) \cup All("superfriends", 0)
  BY <1>1, Orders DEF Before
<1>3. \A s, t \in Tables : s # t => All(s, 0) \cap All(t, 0) = {}
  <2>1. \A t \in Tables : \A c \in All(t, 0) : Table[c] = t
    <3>1. \A t \in Tables : 0 \in 0 .. HT_SIZE(t) - 1
      BY Tree DEF Tables
    <3>2. QED
      BY <3>1, Tree
  <2>2. QED
    BY <2>1
<1>4. ASSUME NEW n \in 0 .. 2
      PROVE  /\ Before(n) \cap All(order[n + 1], 0) = {}
             /\ Before(n) \cup All(order[n + 1], 0) = Before(n + 1)
  <2>1. CASE n = 0
    BY <1>2, <2>1, Orders
  <2>2. CASE n = 1
    BY <1>2, <1>3, <2>2, Orders DEF Tables
  <2>3. CASE n = 2
    BY <1>2, <1>3, <2>3, Orders DEF Tables
  <2>4. QED
    BY <2>1, <2>2, <2>3
<1>5. QED
  BY <1>2, <1>4, Whole

(* Nothing of the tree changes, so the parts of the board do not.          *)
LEMMA SameBefore ==
  ASSUME UNCHANGED treeVars, UNCHANGED doing
  PROVE  /\ \A n \in 0 .. 3 : Before(n)' = Before(n)
         /\ unreached' = unreached /\ board' = board
<1>1. \A n \in 0 .. 3 : Before(n)' = Before(n)
  BY SameTree DEF Before
<1>2. unreached' = unreached
  BY SameTree DEF unreached
<1>3. QED
  BY <1>1, <1>2, SameTree

(* Where the loop comes to the n-th table.                                 *)
Comes(n) ==
  /\ All(order[n + 1], 0) # {}
  /\ n = 2 => All("creas", 0) # {} \/ All("artos", 0) = {}

(* What shows that the loop of the board is in its n-th table.             *)
LEMMA BoardWalks ==
  ASSUME UNCHANGED treeVars, UNCHANGED doing, NEW n \in 0 .. 2, Comes(n),
         NEW before, before = Before(n),
         Walks(<<boardFrame(n), tableFrame(order[n + 1])>>, order[n + 1], 0, before)'
  PROVE  BoardLoop'
<1>1. Before(n)' = before /\ Comes(n)'
  BY SameBefore, SameTree DEF Comes
<1>2. Walks(<<boardFrame(n), tableFrame(order[n + 1])>>, order[n + 1], 0, Before(n))'
  BY <1>1 DEF Walks, Through
<1>3. QED
  BY <1>1, <1>2 DEF BoardLoop, Comes

(* What shows that it has left that table's list.                          *)
LEMMA BoardClimbs ==
  ASSUME UNCHANGED treeVars, UNCHANGED doing, NEW n \in 0 .. 2, Comes(n),
         NEW above,
         above \in {<<boardFrame(n), tableFrame(order[n + 1])>>, <<boardFrame(n)>>},
         NEW seen, seen = Before(n + 1), Climbs(above, seen)'
  PROVE  BoardLoop'
<1>1. Before(n + 1)' = seen /\ Comes(n)'
  BY SameBefore, SameTree DEF Comes
<1>2. Climbs(above, Before(n + 1))'
  BY <1>1 DEF Climbs, Through
<1>3. QED
  BY <1>1, <1>2 DEF BoardLoop, Comes

(* What shows that it is over.                                             *)
LEMMA BoardOver ==
  ASSUME UNCHANGED treeVars, UNCHANGED doing,
         NEW seen, seen = board \ unreached, Over(seen)'
  PROVE  BoardLoop'
<1>1. (board \ unreached)' = seen
  BY SameBefore
<1>2. Over(board \ unreached)'
  BY <1>1 DEF Over, Through
<1>3. QED
  BY <1>2 DEF BoardLoop

(* Where the loop leaves the n-th table, it has come to all it is to come  *)
(* to if the next one is empty.                                            *)
LEMMA BoardLast ==
  ASSUME TreeInv, step \notin Combat, doing = "untapping", NEW n \in 0 .. 2,
         Comes(n), n < 2 => All(order[n + 2], 0) = {}
  PROVE  Before(n + 1) = board \ unreached
<1>1. /\ members("creas") = <<>> <=> All("creas", 0) = {}
      /\ members("artos") = <<>> <=> All("artos", 0) = {}
  BY Whole, Orders
<1>2. unreached = {c \in board : /\ Table[c] = "superfriends"
                                /\ All("creas", 0) = {} /\ All("artos", 0) # {}}
  BY <1>1 DEF unreached
<1>3. \A t \in Tables : \A c \in All(t, 0) : Table[c] = t
  <2>1. \A t \in Tables : 0 \in 0 .. HT_SIZE(t) - 1
    BY Tree DEF Tables
  <2>2. QED
    BY <2>1, Tree
<1>4. board = All("artos", 0) \cup All("creas", 0) \cup All("superfriends", 0)
  BY Whole
<1>5. CASE n = 0
  <2>1. All("creas", 0) = {} /\ All("artos", 0) # {}
    BY <1>5, Orders DEF Comes
  <2>2. unreached = All("superfriends", 0)
    BY <1>2, <1>3, <1>4, <2>1 DEF Tables
  <2>3. All("artos", 0) \cap All("superfriends", 0) = {}
    BY <1>3 DEF Tables
  <2>4. QED
    BY <1>4, <1>5, <2>1, <2>2, <2>3, Befores
<1>6. CASE n = 1
  <2>1. All("creas", 0) # {} /\ All("superfriends", 0) = {}
    BY <1>6, Orders DEF Comes
  <2>2. unreached = {}
    BY <1>2, <2>1
  <2>3. QED
    BY <1>4, <1>6, <2>1, <2>2, Befores
<1>7. CASE n = 2
  <2>1. unreached = {}
    BY <1>2, <1>7 DEF Comes
  <2>2. QED
    BY <1>7, <2>1, Befores
<1>8. QED
  BY <1>5, <1>6, <1>7

(* The untap step begins: the loop starts at the first permanent there is, *)
(* or is over on an empty board.                                           *)
LEMMA BoardBegin ==
  ASSUME TreeInv, step \notin Combat, UNCHANGED treeVars, begin("untapping", boardStart)
  PROVE  BoardLoop'
<1>1. doing' = "untapping"
  BY DEF begin
<1>2. CASE board = {}
  <2>1. frames' = <<>> /\ leaf' = nullptr /\ visited' = Never
    BY <1>2, BoardStart DEF begin, NoStart
  <2>2. board' \ unreached' = {}
    BY <1>2, SameTree
  <2>3. Over(board \ unreached)'
    BY <2>1, <2>2 DEF Over, Through, Never
  <2>4. QED
    BY <2>3 DEF BoardLoop
<1>3. CASE board # {}
  <2>1. PICK n \in 1 .. 3 : /\ All(order[n], 0) # {}
                            /\ \A m \in 1 .. n - 1 : All(order[m], 0) = {}
    <3>1. \/ All("artos", 0) # {}
          \/ All("artos", 0) = {} /\ All("creas", 0) # {}
          \/ All("artos", 0) = {} /\ All("creas", 0) = {} /\ All("superfriends", 0) # {}
      BY <1>3, Whole
    <3>2. 1 .. 0 = {} /\ 1 .. 1 = {1} /\ 1 .. 2 = {1, 2}
      OBVIOUS
    <3>3. CASE All("artos", 0) # {}
      BY <3>2, <3>3, Orders
    <3>4. CASE All("artos", 0) = {} /\ All("creas", 0) # {}
      BY <3>2, <3>4, Orders
    <3>5. CASE All("artos", 0) = {} /\ All("creas", 0) = {} /\ All("superfriends", 0) # {}
      BY <3>2, <3>5, Orders
    <3>6. QED
      BY <3>1, <3>3, <3>4, <3>5
  <2> DEFINE above == <<boardFrame(n - 1), tableFrame(order[n])>>
  <2>2. boardStart = Started(above, order[n], 0)
    BY <2>1, BoardStart
  <2>3. order[n] \in Tables /\ 0 \in 0 .. HT_SIZE(order[n]) - 1
    BY Orders, Whole
  <2>4. Walks(above, order[n], 0, {})'
    BY <2>1, <2>2, <2>3, Begins
  <2>5. n - 1 \in 0 .. 2 /\ (n - 1) + 1 = n
    OBVIOUS
  <2>6. Before(n - 1)' = {}
    <3>1. \A m \in 1 .. n - 1 : All(order[m], 0)' = {}
      BY <2>1, SameTree
    <3>2. QED
      BY <3>1 DEF Before
  <2>7. Walks(above, order[n], 0, Before(n - 1))'
    BY <2>4, <2>6 DEF Walks, Through
  <2>8. Comes(n - 1)'
    <3>1. n = 3 => All("artos", 0) = {}
      BY <2>1, Orders
    <3>2. All(order[n], 0)' # {} /\ (n = 3 => All("artos", 0)' = {})
      BY <2>1, <3>1, SameTree
    <3>3. QED
      BY <2>5, <3>2 DEF Comes
  <2>9. QED
    BY <2>5, <2>7, <2>8 DEF BoardLoop, Comes
<1>4. QED
  BY <1>2, <1>3

(* The loop of the board is about to leave a permanent.                    *)
LEMMA BoardIncrement ==
  ASSUME increment, BoardLoop
  PROVE  BoardLoop'
<1>1. leaf # climbing /\ leaf # nullptr /\ UNCHANGED treeVars /\ UNCHANGED doing
  BY YggdrasilAssumption DEF increment
<1>2. PICK n \in 0 .. 2 :
        /\ Comes(n)
        /\ Walks(<<boardFrame(n), tableFrame(order[n + 1])>>, order[n + 1], 0, Before(n))
  BY <1>1 DEF BoardLoop, Comes, Climbs, Over
<1>3. PICK before : before = Before(n)
  OBVIOUS
<1>4. Walks(<<boardFrame(n), tableFrame(order[n + 1])>>, order[n + 1], 0, before)
  BY <1>2, <1>3
<1>5. Walks(<<boardFrame(n), tableFrame(order[n + 1])>>, order[n + 1], 0, before)'
  BY <1>4, WalkIncrement
<1>6. QED
  BY <1>1, <1>2, <1>3, <1>5, BoardWalks

(* The node of the board goes on to the next table, or is at its end.      *)
LEMMA BoardNext ==
  ASSUME TreeInv, step \notin Combat, doing = "untapping", climb, NEW n \in 0 .. 2,
         Comes(n), Climbs(<<boardFrame(n)>>, Before(n + 1))
  PROVE  BoardLoop'
<1>0. UNCHANGED treeVars /\ UNCHANGED doing
  BY DEF climb
<1>1. PICK seen : seen = Before(n + 1)
  OBVIOUS
<1>2. frames = <<boardFrame(n)>> /\ Through(seen)
  BY <1>1 DEF Climbs
<1>3. CASE n = 2
  <2>1. isEnd(advance(boardFrame(n)))
    BY <1>3, BoardAdvances
  <2>2. frames' = <<>> /\ leaf' = nullptr /\ visited' = visited
    BY <1>2, <2>1, Ascends
  <2>3. Over(seen)'
    BY <1>2, <2>2 DEF Over, Through
  <2>4. seen = board \ unreached
    BY <1>1, <1>3, BoardLast
  <2>5. QED
    BY <1>0, <2>3, <2>4, BoardOver
<1>4. CASE n < 2
  <2> DEFINE on == Append(Front(frames), advance(Last(frames)))
             t == order[n + 2]
  <2>0. n + 1 \in 0 .. 2 /\ (n + 1) + 1 = n + 2 /\ n + 2 \in 1 .. 3
    BY <1>4
  <2>1. t \in Tables /\ HT_SIZE(t) = 1
    BY <2>0, Orders, Whole
  <2>2. Front(frames) = <<>> /\ Last(frames) = boardFrame(n)
    BY <1>2, Pair
  <2>3. advance(boardFrame(n)) = boardFrame(n + 1) /\ ~isEnd(boardFrame(n + 1))
    BY <1>4, BoardAdvances
  <2>4. on = <<boardFrame(n + 1)>> /\ Last(on) = boardFrame(n + 1)
    BY <2>2, <2>3, Pair
  <2>5. down(on, FALSE) = tableStart(on, t)
    <3>1. PICK f : f = boardFrame(n + 1)
      OBVIOUS
    <3>2. f.node = "board" /\ f.at + 1 = n + 2
      BY <3>1 DEF boardFrame
    <3>3. QED
      BY <2>4, <3>1, <3>2 DEF down
  <2>6. down(on, FALSE) = Started(<<boardFrame(n + 1), tableFrame(t)>>, t, 0)
    <3>1. tableStart(on, t) = Started(Append(on, tableFrame(t)), t, 0)
      BY <2>1, TableStart
    <3>2. Append(<<boardFrame(n + 1)>>, tableFrame(t)) = <<boardFrame(n + 1), tableFrame(t)>>
      BY Pair
    <3>3. QED
      BY <2>4, <2>5, <3>1, <3>2
  <2>7. PICK found : found = Started(<<boardFrame(n + 1), tableFrame(t)>>, t, 0)
    OBVIOUS
  <2>8. /\ frames' = found.frames /\ leaf' = found.leaf
        /\ visited' = IF found.leaf = nullptr THEN visited ELSE came(found.leaf)
    <3>1. down(on, FALSE) = found /\ ~isEnd(Last(on))
      BY <2>3, <2>4, <2>6, <2>7
    <3>2. QED
      BY <3>1 DEF climb
  <2>9. CASE coll(t, 0) = <<>>
    <3>1. frames' = <<>> /\ leaf' = nullptr /\ visited' = visited
      BY <2>7, <2>8, <2>9 DEF Started, NoStart
    <3>2. Over(seen)'
      BY <1>2, <3>1 DEF Over, Through
    <3>3. All(t, 0) = {}
      BY <2>0, <2>9, Whole
    <3>4. seen = board \ unreached
      BY <1>1, <3>3, BoardLast
    <3>5. QED
      BY <1>0, <3>2, <3>4, BoardOver
  <2>10. CASE coll(t, 0) # <<>>
    <3> DEFINE c == coll(t, 0)[1]
               above == <<boardFrame(n + 1), tableFrame(t)>>
    <3>1. All(t, 0) # {} /\ coll(t, 0) \in Seq(Permanents)
      BY <2>0, <2>1, <2>10, Whole, Tree
    <3>2. 1 \in 1 .. Len(coll(t, 0)) /\ c \in Permanents /\ c \in All(t, 0)
      BY <2>10, <3>1 DEF All, Range
    <3>3. c # nullptr
      BY <3>2, YggdrasilAssumption
    <3>4. found = [frames |-> Append(above, collAt(t, 0, 1)), leaf |-> c]
      BY <2>7, <2>10 DEF Started
    <3>5. frames' = Append(above, collAt(t, 0, 1)) /\ leaf' = c /\ visited' = came(c)
      BY <2>8, <3>3, <3>4
    <3>6. c \notin seen
      BY <1>1, <2>0, <3>2, Befores
    <3>7. visited' = [visited EXCEPT ![c] = 1]
      <4>1. visited[c] = 0 /\ 0 + 1 = 1
        BY <1>2, <3>2, <3>6 DEF Through
      <4>2. QED
        BY <3>5, <4>1, MinOne DEF came
    <3>8. visited' = [d \in Permanents |->
                        IF d \in seen \cup {coll(t, 0)[m] : m \in 1 .. 1} THEN 1 ELSE 0]
      BY <1>2, <3>2, <3>7 DEF Through
    <3>9. Walks(above, t, 0, seen)'
      BY <1>0, <3>2, <3>5, <3>8, SameTree, ToWalk
    <3>10. Comes(n + 1)
      <4>1. n = 1 => All("creas", 0) # {}
        BY Orders DEF Comes
      <4>2. All(order[(n + 1) + 1], 0) # {}
        BY <2>0, <3>1
      <4>3. QED
        BY <1>4, <4>1, <4>2 DEF Comes
    <3>11. Walks(<<boardFrame(n + 1), tableFrame(order[(n + 1) + 1])>>,
                 order[(n + 1) + 1], 0, seen)'
      BY <2>0, <3>9
    <3>12. QED
      BY <1>0, <1>1, <2>0, <3>10, <3>11, BoardWalks
  <2>11. QED
    BY <2>9, <2>10
<1>5. QED
  BY <1>3, <1>4

(* It takes a step up, from a list, its table, or the board.               *)
LEMMA BoardClimb ==
  ASSUME TreeInv, step \notin Combat, doing = "untapping", climb, BoardLoop
  PROVE  BoardLoop'
<1>0. UNCHANGED treeVars /\ UNCHANGED doing /\ leaf # nullptr
  BY DEF climb, climbing, nullptr
<1>1. PICK n \in 0 .. 2 :
        /\ Comes(n)
        /\ \/ Walks(<<boardFrame(n), tableFrame(order[n + 1])>>, order[n + 1], 0, Before(n))
           \/ Climbs(<<boardFrame(n), tableFrame(order[n + 1])>>, Before(n + 1))
           \/ Climbs(<<boardFrame(n)>>, Before(n + 1))
  BY <1>0 DEF BoardLoop, Comes, Over
<1> DEFINE t == order[n + 1]
           above == <<boardFrame(n), tableFrame(t)>>
<1>2. n + 1 \in 1 .. 3 /\ t \in Tables /\ HT_SIZE(t) = 1
  BY Orders, Whole
<1>3. PICK before : before = Before(n)
  OBVIOUS
<1>4. PICK seen : seen = Before(n + 1)
  OBVIOUS
<1>5. CASE Walks(above, t, 0, before)
  <2>1. before \cap All(t, 0) = {} /\ before \cup All(t, 0) = seen
    BY <1>3, <1>4, Befores
  <2>2. Above(above) /\ 0 \in 0 .. HT_SIZE(t) - 1
    <3>1. PICK a, b : a = boardFrame(n) /\ b = tableFrame(t)
      OBVIOUS
    <3>2. Above(<<a, b>>)
      BY Aboves
    <3>3. 0 \in 0 .. HT_SIZE(t) - 1
      BY <1>2
    <3>4. QED
      BY <3>1, <3>2, <3>3
  <2>3. CASE Walks(above, t, 0, before)'
    BY <1>0, <1>1, <1>3, <2>3, BoardWalks
  <2>4. CASE Climbs(above, before \cup All(t, 0))'
    <3>1. All(t, 0)' = All(t, 0)
      BY <1>0, SameTree
    <3>2. Climbs(above, seen)'
      BY <2>1, <2>4, <3>1 DEF Climbs, Through
    <3>3. QED
      BY <1>0, <1>1, <1>4, <3>2, BoardClimbs
  <2>5. QED
    BY <1>2, <1>5, <2>1, <2>2, <2>3, <2>4, WalkClimb
<1>6. CASE Climbs(above, Before(n + 1))
  <2> DEFINE on == Append(Front(frames), advance(Last(frames)))
  <2>1. frames = above /\ Through(seen)
    BY <1>4, <1>6 DEF Climbs
  <2>2. Front(frames) = <<boardFrame(n)>> /\ Last(frames) = tableFrame(t) /\ Len(frames) = 2
    BY <2>1, Pair
  <2>3. Last(on) = advance(tableFrame(t))
    <3>1. PICK x : x = advance(tableFrame(t))
      OBVIOUS
    <3>2. on = Append(<<boardFrame(n)>>, x)
      BY <2>2, <3>1
    <3>3. on = <<boardFrame(n), x>>
      BY <3>2, Pair
    <3>4. Last(<<boardFrame(n), x>>) = x
      BY Pair
    <3>5. QED
      BY <3>1, <3>3, <3>4
  <2>4. isEnd(Last(on))
    BY <1>2, <2>3, TableAdvances
  <2>5. frames' = <<boardFrame(n)>> /\ leaf' = climbing /\ visited' = visited
    BY <2>2, <2>4 DEF climb, handedUp
  <2>6. Climbs(<<boardFrame(n)>>, seen)'
    BY <2>1, <2>5 DEF Climbs, Through
  <2>7. QED
    BY <1>0, <1>1, <1>4, <2>6, BoardClimbs
<1>7. CASE Climbs(<<boardFrame(n)>>, Before(n + 1))
  BY <1>1, <1>7, BoardNext
<1>8. QED
  BY <1>1, <1>3, <1>5, <1>6, <1>7

-----------------------------------------------------------------------------

(* The lists of the other tables stay what they are.                       *)
Others(t) == \A u \in Tables \ {t} : coll(u, 0)' = coll(u, 0)

(* The tables after a step: as before but for one, of one or two lists.    *)
LEMMA TreeOne ==
  ASSUME TreeInv, NEW t \in Tables, NEW s \in Seq(Permanents),
         IsInjective(s), \A c \in Range(s) : Table[c] = t,
         ht' = [ht EXCEPT ![t] = <<s>>], multiplicity' = 0,
         step \notin Combat \/ t = "creas", step' \in Steps \ Combat
  PROVE  TreeInv' /\ coll(t, 0)' = s /\ Others(t)
<1>1. <<s>> \in Seq(Seq(Permanents)) /\ Len(<<s>>) = 1 /\ <<s>>[1] = s /\ DOMAIN <<s>> = {1}
  OBVIOUS
<1>2. ht' \in [Tables -> Seq(Seq(Permanents))]
  BY <1>1 DEF TreeInv
<1>3. ht'[t] = <<s>> /\ \A u \in Tables \ {t} : ht'[u] = ht[u]
  BY DEF TreeInv
<1>4. Len(ht'["artos"]) = 1 /\ Len(ht'["superfriends"]) = 1 /\ Len(ht'["creas"]) = 1
  BY <1>1, <1>3 DEF TreeInv, Tables
<1>5. ASSUME NEW u \in Tables, NEW i \in DOMAIN ht'[u]
      PROVE  IsInjective(ht'[u][i]) /\ \A c \in Range(ht'[u][i]) : Table[c] = u
  <2>1. CASE u = t
    <3>1. ht'[u][i] = s
      BY <1>1, <1>3, <1>5, <2>1
    <3>2. QED
      BY <2>1, <3>1
  <2>2. CASE u # t
    BY <1>3, <1>5, <2>2 DEF TreeInv
  <2>3. QED
    BY <2>1, <2>2
<1>6. \A i, j \in DOMAIN ht'["creas"] : i = j
  BY <1>2, <1>4 DEF Tables
<1>7. TreeInv'
  BY <1>2, <1>4, <1>5, <1>6 DEF TreeInv
<1>8. coll(t, 0)' = s /\ Others(t)
  BY <1>1, <1>3 DEF coll, Others
<1>9. QED
  BY <1>7, <1>8

(* The creatures in two lists, as in combat.                               *)
LEMMA TreeTwo ==
  ASSUME TreeInv, NEW s \in Seq(Permanents), NEW r \in Seq(Permanents),
         IsInjective(s), \A c \in Range(s) : Table[c] = "creas",
         IsInjective(r), \A c \in Range(r) : Table[c] = "creas",
         Range(s) \cap Range(r) = {},
         ht' = [ht EXCEPT !["creas"] = <<s, r>>], multiplicity' = 1, step' \in Combat
  PROVE  TreeInv' /\ coll("creas", 0)' = s /\ coll("creas", 1)' = r /\ Others("creas")
<1>1. /\ <<s, r>> \in Seq(Seq(Permanents)) /\ Len(<<s, r>>) = 2
      /\ <<s, r>>[1] = s /\ <<s, r>>[2] = r /\ DOMAIN <<s, r>> = {1, 2}
  OBVIOUS
<1>2. ht' \in [Tables -> Seq(Seq(Permanents))]
  BY <1>1 DEF TreeInv
<1>3. ht'["creas"] = <<s, r>> /\ \A u \in Tables \ {"creas"} : ht'[u] = ht[u]
  BY DEF TreeInv, Tables
<1>4. Len(ht'["artos"]) = 1 /\ Len(ht'["superfriends"]) = 1 /\ Len(ht'["creas"]) = 2
  BY <1>1, <1>3 DEF TreeInv, Tables
<1>5. ASSUME NEW u \in Tables, NEW i \in DOMAIN ht'[u]
      PROVE  IsInjective(ht'[u][i]) /\ \A c \in Range(ht'[u][i]) : Table[c] = u
  <2>1. CASE u = "creas"
    <3>1. ht'[u][i] = s \/ ht'[u][i] = r
      BY <1>1, <1>3, <1>5, <2>1
    <3>2. QED
      BY <2>1, <3>1
  <2>2. CASE u # "creas"
    BY <1>3, <1>5, <2>2 DEF TreeInv
  <2>3. QED
    BY <2>1, <2>2
<1>6. ASSUME NEW i \in DOMAIN ht'["creas"], NEW j \in DOMAIN ht'["creas"], i # j
      PROVE  Range(ht'["creas"][i]) \cap Range(ht'["creas"][j]) = {}
  <2>1. DOMAIN ht'["creas"] = {1, 2} /\ ht'["creas"][1] = s /\ ht'["creas"][2] = r
    BY <1>1, <1>3
  <2>2. i \in {1, 2} /\ j \in {1, 2}
    BY <2>1
  <2>3. CASE i = 1
    <3>1. j = 2
      BY <1>6, <2>2, <2>3
    <3>2. QED
      BY <2>1, <2>3, <3>1
  <2>4. CASE i = 2
    <3>1. j = 1
      BY <1>6, <2>2, <2>4
    <3>2. QED
      BY <2>1, <2>4, <3>1
  <2>5. QED
    BY <2>2, <2>3, <2>4
<1>7. TreeInv'
  BY <1>2, <1>4, <1>5, <1>6 DEF TreeInv, Steps, Combat
<1>8. coll("creas", 0)' = s /\ coll("creas", 1)' = r /\ Others("creas")
  BY <1>1, <1>3 DEF coll, Others
<1>9. QED
  BY <1>7, <1>8

(* A step that moves no permanent.                                         *)
LEMMA TreeSame ==
  ASSUME TreeInv, UNCHANGED treeVars, step' \in Steps, step' \in Combat <=> step \in Combat
  PROVE  TreeInv'
BY DEF TreeInv, treeVars

(* A permanent enters the list of its table.                               *)
LEMMA TreeInsert ==
  ASSUME TreeInv, NEW c \in Permanents, insert(c)
  PROVE  /\ TreeInv' /\ Others(Table[c])
         /\ coll(Table[c], 0)' = Append(coll(Table[c], 0), c)
<1> DEFINE t == Table[c]
           s == coll(t, 0)
<1>1. /\ step = "main" /\ c \notin board /\ ht' = [ht EXCEPT ![t][1] = Append(@, c)]
      /\ multiplicity' = multiplicity /\ step' = step
  BY DEF insert, at
<1>2. step \notin Combat /\ step \in Steps \ Combat /\ t \in Tables
  BY <1>1, YggdrasilAssumption DEF Combat, Steps
<1>3. /\ s \in Seq(Permanents) /\ IsInjective(s) /\ \A d \in Range(s) : Table[d] = t
      /\ ht[t] = <<s>> /\ multiplicity = 0
  <2>1. HT_SIZE(t) = 1
    BY <1>2, Tree DEF Tables
  <2>2. QED
    BY <1>2, <2>1, Tree DEF Tables, All
<1>4. c \notin Range(s)
  BY <1>1, <1>2, Whole DEF All, Tables
<1>5. PICK u : u = Append(s, c)
  OBVIOUS
<1>6. u \in Seq(Permanents) /\ IsInjective(u) /\ Range(u) = Range(s) \cup {c}
  BY <1>3, <1>4, <1>5, AppendKeepsOnce
<1>7. ht' = [ht EXCEPT ![t] = <<u>>]
  <2>1. ht[t][1] = s
    BY DEF coll
  <2>2. ht' = [ht EXCEPT ![t] = [ht[t] EXCEPT ![1] = u]]
    BY <1>1, <1>2, <1>5, <2>1 DEF TreeInv
  <2>3. [<<s>> EXCEPT ![1] = u] = <<u>>
    OBVIOUS
  <2>4. QED
    BY <1>3, <2>2, <2>3
<1>8. \A d \in Range(u) : Table[d] = t
  BY <1>3, <1>6
<1>9. QED
  BY <1>1, <1>2, <1>3, <1>5, <1>6, <1>7, <1>8, TreeOne

(* The creatures unfold: all of them stay, and none attacks yet.           *)
LEMMA TreeDeclare ==
  ASSUME TreeInv, declareattackersstep
  PROVE  /\ TreeInv' /\ Others("creas")
         /\ coll("creas", 0)' = coll("creas", 0) /\ coll("creas", 1)' = <<>>
<1>1. /\ ht' = [ht EXCEPT !["creas"] = unfolded("creas")]
      /\ multiplicity' = ht_size_log + 1 /\ step = "main" /\ step' = "attackers"
  BY DEF declareattackersstep, at
<1>2. PICK s : s = coll("creas", 0)
  OBVIOUS
<1>3. ht["creas"] = <<s>> /\ HT_SIZE("creas") = 1
  BY <1>1, <1>2, Tree DEF Combat
<1>4. /\ s \in Seq(Permanents) /\ IsInjective(s) /\ \A d \in Range(s) : Table[d] = "creas"
  BY <1>2, <1>3, Tree DEF Tables, All
<1>5. unfolded("creas") = <<s, <<>> >>
  <2>1. [i \in 1 .. 1 |-> <<>>] = << <<>> >>
    OBVIOUS
  <2>2. PICK a, b, e : a = <<s>> /\ b = << <<>> >> /\ e = <<>>
    OBVIOUS
  <2>3. Joined(a, b) = <<s, e>>
    <3>1. /\ a \in Seq(Seq(Permanents)) /\ Len(a) = 1 /\ a[1] = s
          /\ b \in Seq(Seq(Permanents)) /\ Len(b) = 1 /\ b[1] = e /\ e \in Seq(Permanents)
      BY <1>4, <2>2
    <3>2. Joined(a, b) \in Seq(Seq(Permanents)) /\ Len(Joined(a, b)) = Len(a) + Len(b)
      BY <3>1, JoinsType
    <3>3. Joined(a, b)[1] = a[1]
      BY <3>1, JoinsFirst
    <3>4. Joined(a, b)[Len(a) + 1] = b[1]
      <4>1. a \in Seq(Seq(Permanents)) /\ b \in Seq(Seq(Permanents)) /\ 1 \in 1 .. Len(b)
        BY <3>1
      <4>2. QED
        BY <4>1, JoinsSecond
    <3>5. Len(Joined(a, b)) = 2 /\ Joined(a, b)[1] = s /\ Joined(a, b)[2] = e
      BY <3>1, <3>2, <3>3, <3>4
    <3>6. QED
      BY <1>4, <3>1, <3>2, <3>5, Two
  <2>4. unfolded("creas") = a \o b
    BY <1>3, <2>1, <2>2 DEF unfolded
  <2>5. QED
    BY <2>2, <2>3, <2>4 DEF Joined
<1>6. ht_size_log = 0
  <2>1. \A n \in 0 .. 1 : 2^n = 1 <=> n = 0
    <3>1. ASSUME NEW n \in 0 .. 1 PROVE 2^n = 1 <=> n = 0
      <4>1. CASE n = 0
        BY <4>1, Powers
      <4>2. CASE n = 1
        BY <4>2, Powers
      <4>3. QED
        BY <4>1, <4>2
    <3>2. QED
      BY <3>1
  <2>2. ht_size_log = CHOOSE n \in 0 .. 1 : 2^n = 1
    BY <1>3 DEF ht_size_log
  <2>3. QED
    BY <2>1, <2>2
<1>7. <<>> \in Seq(Permanents) /\ IsInjective(<<>>) /\ Range(<<>>) = {}
  BY DEF IsInjective, Range
<1>8. step' \in Combat /\ multiplicity' = 1
  BY <1>1, <1>6 DEF Combat
<1>9. QED
  BY <1>1, <1>2, <1>4, <1>5, <1>7, <1>8, TreeTwo

(* The two halves after a combat: those that stayed, then the attackers.   *)
LEMMA TreeRestate ==
  ASSUME TreeInv, step \in Combat, restate, step' \in Steps \ Combat
  PROVE  /\ TreeInv' /\ Others("creas")
         /\ coll("creas", 0)' = coll("creas", 0) \o coll("creas", 1)
<1>1. ht' = [ht EXCEPT !["creas"] = refolded] /\ multiplicity' = 0
  BY DEF restate
<1>2. PICK s, r : s = coll("creas", 0) /\ r = coll("creas", 1)
  OBVIOUS
<1>3. /\ s \in Seq(Permanents) /\ IsInjective(s) /\ \A d \in Range(s) : Table[d] = "creas"
      /\ r \in Seq(Permanents) /\ IsInjective(r) /\ \A d \in Range(r) : Table[d] = "creas"
      /\ Range(s) \cap Range(r) = {} /\ HT_SIZE("creas") = 2
  BY <1>2, Tree DEF Tables, All
<1>4. refolded = <<s \o r>>
  <2>1. child(0, 0, TRUE) = 0 /\ BLOCKSIZE = 1
    BY Shape
  <2>2. (1 - 1) \div 1 = 0 /\ (1 - 1) % 1 = 0 /\ 2 \div 2 = 1 /\ 0 + 1 = 1
    OBVIOUS
  <2>3. refolded = [i \in 1 .. 1 |->
                      coll("creas", child((i - 1) \div 1, (i - 1) % 1, TRUE)) \o
                      coll("creas", child((i - 1) \div 1, (i - 1) % 1, TRUE) + 1)]
    BY <1>3, <2>1, <2>2 DEF refolded
  <2>4. ASSUME NEW i \in 1 .. 1
        PROVE  coll("creas", child((i - 1) \div 1, (i - 1) % 1, TRUE)) \o
               coll("creas", child((i - 1) \div 1, (i - 1) % 1, TRUE) + 1) = s \o r
    <3>1. (i - 1) \div 1 = 0 /\ (i - 1) % 1 = 0
      OBVIOUS
    <3>2. child((i - 1) \div 1, (i - 1) % 1, TRUE) = 0
      BY <2>1, <3>1
    <3>3. QED
      BY <1>2, <2>2, <3>2
  <2>5. refolded = [i \in 1 .. 1 |-> s \o r]
    BY <2>3, <2>4
  <2>6. QED
    BY <2>5
<1>5. PICK u : u = s \o r
  OBVIOUS
<1>6. /\ u \in Seq(Permanents) /\ IsInjective(u) /\ \A d \in Range(u) : Table[d] = "creas"
  BY <1>3, <1>5, JoinKeepsOnce
<1>7. QED
  BY <1>1, <1>2, <1>4, <1>5, <1>6, TreeOne DEF Tables

(* The creature that the loop of chooseAttackers is at moves to the front  *)
(* of those that attack.                                                   *)
LEMMA TreeMoved ==
  ASSUME TreeInv, step \in Combat, multiplicity' = multiplicity, step' = step,
         NEW k \in 1 .. Len(coll("creas", 0)),
         frames = <<stateFrame(0, 0), collAt("creas", 0, k)>>, ht' = moved
  PROVE  /\ TreeInv' /\ Others("creas")
         /\ coll("creas", 0)' = RemoveAt(coll("creas", 0), k)
         /\ coll("creas", 1)' = <<coll("creas", 0)[k]>> \o coll("creas", 1)
<1>1. PICK s, r : s = coll("creas", 0) /\ r = coll("creas", 1)
  OBVIOUS
<1>2. /\ s \in Seq(Permanents) /\ IsInjective(s) /\ \A d \in Range(s) : Table[d] = "creas"
      /\ r \in Seq(Permanents) /\ IsInjective(r) /\ \A d \in Range(r) : Table[d] = "creas"
      /\ Range(s) \cap Range(r) = {} /\ ht["creas"] = <<s, r>> /\ multiplicity = 1
  BY <1>1, Tree DEF Tables, All
<1>3. findFor("state") = stateFrame(0, 0) /\ findFor("collection") = collAt("creas", 0, k)
  <2>1. frames[1] = stateFrame(0, 0) /\ frames[2] = collAt("creas", 0, k) /\ DOMAIN frames = {1, 2}
    OBVIOUS
  <2>2. frames[1].node = "state" /\ frames[2].node = "collection"
    BY <2>1 DEF stateFrame, collAt
  <2>3. \A n \in DOMAIN frames : /\ frames[n].node = "state" <=> n = 1
                                 /\ frames[n].node = "collection" <=> n = 2
    BY <2>1, <2>2
  <2>4. QED
    BY <2>1, <2>3 DEF findFor
<1>4. PICK u, v, x : u = RemoveAt(s, k) /\ v = <<x>> \o r /\ x = s[k]
  OBVIOUS
<1>5. k \in 1 .. Len(s)
  BY <1>1
<1>6. ht' = [ht EXCEPT !["creas"] = <<u, v>>]
  <2>1. stateFrame(0, 0).at[1] = 0 /\ stateFrame(0, 0).at[2] = 0
    BY DEF stateFrame
  <2>2. collAt("creas", 0, k).child = 0 /\ collAt("creas", 0, k).at = k
    BY DEF collAt
  <2>3. child(0, 0, FALSE) = 1
    BY Shape
  <2>4. moved = [ht EXCEPT !["creas"][1] = RemoveAt(@, k), !["creas"][2] = <<s[k]>> \o @]
    <3>1. PICK f, to : f = collAt("creas", 0, k) /\ to = child(0, 0, FALSE)
      OBVIOUS
    <3>2. f.child = 0 /\ f.at = k /\ to = 1 /\ coll("creas", 0) = s
      BY <1>1, <2>2, <2>3, <3>1
    <3>3. moved = [ht EXCEPT !["creas"][f.child + 1] = RemoveAt(@, f.at),
                             !["creas"][to + 1] = <<coll("creas", f.child)[f.at]>> \o @]
      BY <1>3, <2>1, <3>1 DEF moved
    <3>4. f.child + 1 = 1 /\ to + 1 = 2
      BY <3>2
    <3>5. QED
      BY <3>2, <3>3, <3>4
  <2>5. moved = [ht EXCEPT !["creas"] = [<<s, r>> EXCEPT ![1] = u, ![2] = v]]
    BY <1>2, <1>4, <2>4 DEF TreeInv, Tables
  <2>6. [<<s, r>> EXCEPT ![1] = u, ![2] = v] = <<u, v>>
    OBVIOUS
  <2>7. QED
    BY <2>5, <2>6
<1>7. u \in Seq(Permanents) /\ IsInjective(u) /\ Range(u) = Range(s) \ {x}
  <2>1. PICK S : S = Permanents
    OBVIOUS
  <2>2. s \in Seq(S) /\ IsInjective(s)
    BY <1>2, <2>1
  <2>3. RemoveAt(s, k) \in Seq(S) /\ IsInjective(RemoveAt(s, k))
        /\ Range(RemoveAt(s, k)) = Range(s) \ {s[k]}
    BY ONLY <1>5, <2>2, RemoveKeepsOnce
  <2>4. QED
    BY <1>4, <2>1, <2>3
<1>8. x \in Permanents /\ x \in Range(s)
  BY <1>2, <1>4, <1>5 DEF Range
<1>9. v \in Seq(Permanents) /\ IsInjective(v) /\ Range(v) = {x} \cup Range(r)
  <2>1. PICK w : w = <<x>>
    OBVIOUS
  <2>2. w \in Seq(Permanents) /\ IsInjective(w) /\ Range(w) = {x}
    BY <1>8, <2>1, Single
  <2>3. v = w \o r /\ Range(w) \cap Range(r) = {}
    BY <1>2, <1>4, <1>8, <2>1, <2>2
  <2>4. QED
    BY <1>2, <2>2, <2>3, JoinKeepsOnce
<1>10. multiplicity' = 1 /\ step' \in Combat
  BY <1>2
<1>11. /\ \A d \in Range(u) : Table[d] = "creas"
       /\ \A d \in Range(v) : Table[d] = "creas"
       /\ Range(u) \cap Range(v) = {}
  BY <1>2, <1>7, <1>8, <1>9
<1>12. TreeInv' /\ coll("creas", 0)' = u /\ coll("creas", 1)' = v /\ Others("creas")
  BY <1>6, <1>7, <1>9, <1>10, <1>11, TreeTwo
<1>13. QED
  BY <1>1, <1>4, <1>12

(* Which loops may run in which step.                                      *)
LEMMA Doing ==
  ASSUME StepInv
  PROVE  /\ doing \in {"none", "untapping", "checking", "choose", "splitting",
                      "resolving", "healing"}
         /\ doing = "none" => step \in Steps
         /\ doing = "untapping" => step = "untap"
         /\ doing = "checking" => step \in {"main", "sba"}
         /\ doing = "choose" => step = "attackers"
         /\ doing \in {"splitting", "resolving"} => step = "damage"
         /\ doing = "healing" => step = "cleanup"
BY DEF StepInv, LoopSteps

(* A selected creature that the loop of splices comes to is on its list.   *)
LEMMA SpliceAt ==
  ASSUME TreeInv, StepInv, ChooseInv, doing = "choose", leaf # climbing,
         turn \in DOMAIN selected
  PROVE  /\ Kept + 1 \in 1 .. Len(coll("creas", 0)) /\ Kept \in Nat
         /\ frames = <<stateFrame(0, 0), collAt("creas", 0, Kept + 1)>>
         /\ leaf \in Permanents /\ turn \in 1 .. Len(selected) /\ Len(selected) \in Nat
<1>1. selected \in Seq(BOOLEAN) /\ turn \in 1 .. Len(selected) + 1
  BY DEF ChooseInv
<1>2. DOMAIN selected = 1 .. Len(selected) /\ Len(selected) \in Nat
  BY <1>1
<1>3. turn # Len(selected) + 1 /\ turn \in 1 .. Len(selected)
  BY <1>1, <1>2
<1>4. frames = <<stateFrame(0, 0), collAt("creas", 0, Kept + 1)>> /\ leaf \in Permanents
  BY <1>3 DEF ChooseInv
<1>5. stay = coll("creas", 0)
  BY Doing, Shape DEF Combat
<1>6. Kept \in Nat
  <2>1. IsFiniteSet(1 .. turn - 1)
    BY <1>3, FS_Interval
  <2>2. IsFiniteSet({m \in 1 .. turn - 1 : ~selected[m]})
    BY <2>1, FS_Subset
  <2>3. QED
    BY <2>2, FS_CardinalityType DEF Kept
<1>7. Len(coll("creas", 0)) = Len(selected) - (turn - 1) + Kept
  BY <1>5 DEF ChooseInv
<1>8. Kept + 1 \in 1 .. Len(coll("creas", 0))
  BY <1>2, <1>3, <1>6, <1>7
<1>9. QED
  BY <1>2, <1>3, <1>4, <1>6, <1>8

(* Every step keeps the tables.                                            *)
LEMMA TreeStep ==
  ASSUME TreeInv, StepInv, ChooseInv, [Next]_vars
  PROVE  TreeInv'
<1>0. step \in Steps
  BY DEF TreeInv
<1>1. CASE UNCHANGED vars
  BY <1>0, <1>1, TreeSame DEF vars, treeVars
<1>2. CASE untapstep
  <2>1. UNCHANGED treeVars /\ step = "untap" /\ step' \in {"untap", "main"}
    BY <1>2, Doing DEF untapstep, at, over, ends
  <2>2. QED
    BY <2>1, TreeSame DEF Steps, Combat
<1>3. CASE increment
  BY <1>0, <1>3, TreeSame DEF increment
<1>4. CASE climb
  BY <1>0, <1>4, TreeSame DEF climb
<1>5. CASE chooseAttackers
  <2>1. UNCHANGED treeVars /\ step = "attackers" /\ step' \in {"attackers", "damage"}
    BY <1>5 DEF chooseAttackers, at
  <2>2. QED
    BY <2>1, TreeSame DEF Steps, Combat
<1>6. CASE splice
  <2>1. /\ doing = "choose" /\ leaf # climbing /\ turn \in DOMAIN selected
        /\ multiplicity' = multiplicity /\ step' = step
    BY <1>6 DEF splice
  <2>2. CASE selected[turn]
    <3>1. ht' = moved
      BY <1>6, <2>2 DEF splice
    <3>2. PICK k : k = Kept + 1
      OBVIOUS
    <3>3. k \in 1 .. Len(coll("creas", 0)) /\ frames = <<stateFrame(0, 0), collAt("creas", 0, k)>>
      BY <2>1, <3>2, SpliceAt
    <3>4. step \in Combat
      BY <2>1, Doing DEF Combat
    <3>5. QED
      BY <2>1, <3>1, <3>3, <3>4, TreeMoved
  <2>3. CASE ~selected[turn]
    <3>1. UNCHANGED treeVars
      BY <1>6, <2>3 DEF splice, treeVars
    <3>2. QED
      BY <1>0, <2>1, <3>1, TreeSame
  <2>4. QED
    BY <2>2, <2>3
<1>7. CASE attackersChosen
  <2>1. UNCHANGED treeVars /\ step = "attackers" /\ step' = "damage"
    BY <1>7, Doing DEF attackersChosen
  <2>2. QED
    BY <2>1, TreeSame DEF Steps, Combat
<1>8. CASE damagestep
  <2>1. step = "damage"
    BY <1>8, Doing DEF damagestep, at, over
  <2>2. \/ UNCHANGED treeVars /\ step' = step
        \/ restate /\ step' \in {"cleanup", "sba"}
    BY <1>8 DEF damagestep, ends
  <2>3. CASE UNCHANGED treeVars /\ step' = step
    BY <1>0, <2>3, TreeSame
  <2>4. CASE restate /\ step' \in {"cleanup", "sba"}
    BY <2>1, <2>4, TreeRestate DEF Steps, Combat
  <2>5. QED
    BY <2>2, <2>3, <2>4
<1>9. CASE cleanupstep
  <2>1. UNCHANGED treeVars /\ step = "cleanup" /\ step' \in {"cleanup", "untap"}
    BY <1>9, Doing DEF cleanupstep, at, over, ends
  <2>2. QED
    BY <2>1, TreeSame DEF Steps, Combat
<1>10. CASE stateBasedActions
  <2>1. /\ UNCHANGED treeVars /\ step \in {"main", "sba"}
        /\ step' \in {"main", "sba", "cleanup"}
    BY <1>10, Doing DEF stateBasedActions, at, over, ends
  <2>2. QED
    BY <2>1, TreeSame DEF Steps, Combat
<1>11. CASE declareattackersstep
  BY <1>11, TreeDeclare
<1>12. ASSUME NEW c \in Permanents, insert(c) PROVE TreeInv'
  BY <1>12, TreeInsert
<1>13. QED
  BY <1>1, <1>2, <1>3, <1>4, <1>5, <1>6, <1>7, <1>8, <1>9, <1>10, <1>11, <1>12
  DEF Next, loop

(* A loop in a list is not at its end.                                     *)
LEMMA WalksOn ==
  ASSUME TreeInv, NEW above, NEW t \in Tables, NEW i \in 0 .. HT_SIZE(t) - 1, NEW before,
         Walks(above, t, i, before)
  PROVE  leaf # nullptr
<1>1. coll(t, i) \in Seq(Permanents)
  BY Tree
<1>2. PICK k \in 1 .. Len(coll(t, i)) : leaf \in {coll(t, i)[k], climbing}
  BY DEF Walks
<1>3. coll(t, i)[k] \in Permanents
  BY <1>1
<1>4. QED
  BY <1>2, <1>3, YggdrasilAssumption DEF climbing, nullptr

(* A loop whose iterator is at the end has come to all it has to.          *)
LEMMA LoopsOver ==
  ASSUME TreeInv, StepInv, LoopInv, leaf = nullptr, doing \notin {"none", "choose"}
  PROVE  Over(due \ unreached) /\ frames = <<>>
<1>0. leaf # climbing
  BY DEF climbing, nullptr
<1>1. ASSUME NEW a, NEW t \in Tables, NEW i \in 0 .. HT_SIZE(t) - 1, Loop(<<a>>, t, i)
      PROVE  Over(All(t, i))
  <2>1. ~Walks(<<a>>, t, i, {})
    BY WalksOn
  <2>2. QED
    BY <1>0, <1>1, <2>1 DEF Loop, Climbs
<1>2. CASE doing \in {"checking", "healing"}
  <2>1. step \notin Combat
    BY <1>2, Doing DEF Combat
  <2>2. "creas" \in Tables /\ 0 \in 0 .. HT_SIZE("creas") - 1
    BY <2>1, Tree DEF Tables
  <2>3. Over(All("creas", 0))
    BY <1>1, <1>2, <2>2 DEF LoopInv
  <2>4. due = All("creas", 0)
    BY <1>2, <2>1, Shape DEF due, All
  <2>5. unreached = {}
    BY <1>2 DEF unreached
  <2>6. QED
    BY <2>3, <2>4, <2>5 DEF Over
<1>3. CASE doing \in {"splitting", "resolving"}
  <2>1. step \in Combat
    BY <1>3, Doing DEF Combat
  <2>2. "creas" \in Tables /\ 1 \in 0 .. HT_SIZE("creas") - 1
    BY <2>1, Tree DEF Tables
  <2>3. Over(All("creas", 1))
    BY <1>1, <1>3, <2>2 DEF LoopInv
  <2>4. due = All("creas", 1)
    BY <1>3, <2>1, Shape DEF due, All
  <2>5. unreached = {}
    BY <1>3 DEF unreached
  <2>6. QED
    BY <2>3, <2>4, <2>5 DEF Over
<1>4. CASE doing = "untapping"
  <2>1. step \notin Combat /\ BoardLoop /\ due = board
    BY <1>4, Doing DEF Combat, LoopInv, due
  <2>2. ASSUME NEW n \in 0 .. 2
        PROVE  ~Walks(<<boardFrame(n), tableFrame(order[n + 1])>>, order[n + 1], 0, Before(n))
    <3>1. order[n + 1] \in Tables /\ 0 \in 0 .. HT_SIZE(order[n + 1]) - 1
      BY <2>1, Orders, Whole
    <3>2. PICK before : before = Before(n)
      OBVIOUS
    <3>3. QED
      BY <3>1, <3>2, WalksOn
  <2>3. Over(board \ unreached)
    BY <1>0, <2>1, <2>2 DEF BoardLoop, Climbs
  <2>4. QED
    BY <2>1, <2>3 DEF Over
<1>5. QED
  BY <1>2, <1>3, <1>4, Doing

(* Every step keeps the loops to the steps they belong to.                 *)
LEMMA StepStep ==
  ASSUME TreeInv, StepInv, LoopInv, [Next]_vars
  PROVE  StepInv'
<1>0. /\ DOMAIN LoopSteps = {"none", "untapping", "checking", "choose", "splitting",
                             "resolving", "healing"}
      /\ LoopSteps["none"] = Steps /\ LoopSteps["untapping"] = {"untap"}
      /\ LoopSteps["checking"] = {"main", "sba"} /\ LoopSteps["choose"] = {"attackers"}
      /\ LoopSteps["splitting"] = {"damage"} /\ LoopSteps["resolving"] = {"damage"}
      /\ LoopSteps["healing"] = {"cleanup"}
  BY DEF LoopSteps
<1> DEFINE Fits(d, st) == d \in DOMAIN LoopSteps /\ st \in LoopSteps[d]
<1>1. Fits(doing, step)
  BY DEF StepInv
<1>2. \A what, from : begin(what, from) => doing' = what
  BY DEF begin
<1>3. ASSUME doing' \notin {"none", "choose"}, Fits(doing', step'), UNCHANGED chooseVars,
             doing # "choose"
      PROVE  StepInv'
  BY <1>3 DEF StepInv, chooseVars
<1>4. ASSUME doing' = "none", step' \in Steps \ {"attackers"},
             frames' = <<>>, leaf' = nullptr, selected' = <<>>, turn' = 0
      PROVE  StepInv'
  BY <1>0, <1>4 DEF StepInv
<1>5. ASSUME NEW what, what \notin {"none", "choose"}, NEW next, next \in Steps \ {"attackers"},
             over(what), ends(next), UNCHANGED chooseVars
      PROVE  StepInv'
  <2>1. doing = what /\ leaf = nullptr /\ doing' = "none" /\ step' = next /\ UNCHANGED iterVars
    BY <1>5 DEF over, ends
  <2>2. frames = <<>>
    BY <1>5, <2>1, LoopsOver
  <2>3. frames' = <<>> /\ leaf' = nullptr
    BY <2>1, <2>2 DEF iterVars
  <2>4. selected' = <<>> /\ turn' = 0
    BY <1>5, <2>1 DEF chooseVars, StepInv
  <2>5. QED
    BY <1>4, <1>5, <2>1, <2>3, <2>4
<1>6. CASE UNCHANGED vars
  <2>1. coll("creas", 1)' = coll("creas", 1)
    BY <1>6, SameTree DEF vars
  <2>2. QED
    BY <1>6, <2>1 DEF StepInv, vars, iterVars, chooseVars
<1>7. CASE untapstep
  <2>1. CASE at("untap") /\ begin("untapping", boardStart) /\ UNCHANGED <<step, chooseVars>>
    <3>1. doing = "none" /\ step' = "untap" /\ doing' = "untapping" /\ UNCHANGED chooseVars
      BY <1>2, <2>1 DEF at
    <3>2. QED
      BY <1>0, <1>3, <3>1
  <2>2. CASE over("untapping") /\ ends("main") /\ UNCHANGED chooseVars
    BY <1>5, <2>2 DEF Steps, Combat
  <2>3. QED
    BY <1>7, <2>1, <2>2 DEF untapstep
<1>8. CASE increment
  <2>1. /\ doing \notin {"none", "choose"} /\ UNCHANGED <<doing, step, chooseVars>>
    BY <1>8 DEF increment
  <2>2. QED
    BY <1>1, <1>3, <2>1
<1>9. CASE climb
  <2>1. UNCHANGED <<doing, step, chooseVars>> /\ leaf = climbing
    BY <1>9 DEF climb
  <2>2. doing # "none"
    BY <2>1 DEF StepInv, climbing, nullptr
  <2>3. CASE doing = "choose"
    BY <1>1, <2>1, <2>3 DEF StepInv
  <2>4. CASE doing # "choose"
    BY <1>1, <1>3, <2>1, <2>2, <2>4
  <2>5. QED
    BY <2>3, <2>4
<1>10. CASE chooseAttackers
  <2>1. CASE members("creas") = <<>>
    <3>1. /\ doing = "none" /\ step' = "damage"
          /\ UNCHANGED <<doing, frames, leaf, selected, turn>>
      BY <1>10, <2>1 DEF chooseAttackers, at, iterVars, chooseVars
    <3>2. QED
      BY <1>4, <3>1 DEF StepInv, Steps, Combat
  <2>2. CASE members("creas") # <<>>
    <3>1. step' = "attackers" /\ doing' = "choose"
      BY <1>2, <1>10, <2>2 DEF chooseAttackers, at
    <3>2. QED
      BY <1>0, <3>1 DEF StepInv
  <2>3. QED
    BY <2>1, <2>2
<1>11. CASE splice
  <2>1. doing' = "choose" /\ step' = step /\ doing = "choose"
    BY <1>11 DEF splice
  <2>2. QED
    BY <1>1, <2>1 DEF StepInv
<1>12. CASE attackersChosen
  BY <1>4, <1>12 DEF attackersChosen, Steps, Combat
<1>13. CASE damagestep
  <2>1. CASE at("damage") /\ step' = "cleanup" /\ UNCHANGED <<doing, iterVars, chooseVars>>
    <3>1. doing = "none" /\ UNCHANGED <<doing, frames, leaf, selected, turn>>
      BY <2>1 DEF at, iterVars, chooseVars
    <3>2. QED
      BY <1>4, <2>1, <3>1 DEF StepInv, Steps, Combat
  <2>2. CASE /\ at("damage") \/ over("splitting")
             /\ begin("splitting", stateStart(FALSE)) \/ begin("resolving", stateStart(FALSE))
             /\ UNCHANGED <<step, chooseVars>>
    <3>1. /\ doing # "choose" /\ step' = "damage" /\ doing' \in {"splitting", "resolving"}
          /\ UNCHANGED chooseVars
      BY <1>2, <2>2, Doing DEF at, over
    <3>2. QED
      BY <1>0, <1>3, <3>1
  <2>3. CASE over("resolving") /\ ends("sba") /\ UNCHANGED chooseVars
    BY <1>5, <2>3 DEF Steps, Combat
  <2>4. QED
    BY <1>13, <2>1, <2>2, <2>3 DEF damagestep
<1>14. CASE cleanupstep
  <2>1. CASE at("cleanup") /\ begin("healing", tableStart(<<>>, "creas"))
             /\ UNCHANGED <<step, chooseVars>>
    <3>1. doing = "none" /\ step' = "cleanup" /\ doing' = "healing" /\ UNCHANGED chooseVars
      BY <1>2, <2>1 DEF at
    <3>2. QED
      BY <1>0, <1>3, <3>1
  <2>2. CASE over("healing") /\ ends("untap") /\ UNCHANGED chooseVars
    BY <1>5, <2>2 DEF Steps, Combat
  <2>3. QED
    BY <1>14, <2>1, <2>2 DEF cleanupstep
<1>15. CASE stateBasedActions
  <2>1. CASE /\ at("main") \/ at("sba")
             /\ begin("checking", tableStart(<<>>, "creas"))
             /\ UNCHANGED <<step, chooseVars>>
    <3>1. /\ doing = "none" /\ step' \in {"main", "sba"} /\ doing' = "checking"
          /\ UNCHANGED chooseVars
      BY <1>2, <2>1 DEF at
    <3>2. QED
      BY <1>0, <1>3, <3>1
  <2>2. CASE /\ over("checking") /\ ends(IF step = "sba" THEN "cleanup" ELSE step)
             /\ UNCHANGED chooseVars
    <3>1. PICK next : next = IF step = "sba" THEN "cleanup" ELSE step
      OBVIOUS
    <3>2. next \in {"cleanup", "main"}
      BY <2>2, <3>1, Doing DEF over
    <3>3. QED
      BY <1>5, <2>2, <3>1, <3>2 DEF Steps, Combat
  <2>3. QED
    BY <1>15, <2>1, <2>2 DEF stateBasedActions
<1>16. CASE declareattackersstep
  <2>1. doing = "none" /\ step' = "attackers" /\ UNCHANGED <<doing, frames, leaf, selected, turn>>
    BY <1>16 DEF declareattackersstep, at, iterVars, chooseVars
  <2>2. coll("creas", 1)' = <<>>
    BY <1>16, TreeDeclare
  <2>3. QED
    BY <1>0, <2>1, <2>2 DEF StepInv, Steps, Combat
<1>17. ASSUME NEW c \in Permanents, insert(c) PROVE StepInv'
  <2>1. /\ doing = "none" /\ step = "main"
        /\ UNCHANGED <<doing, step, frames, leaf, selected, turn>>
    BY <1>17 DEF insert, at, iterVars, chooseVars
  <2>2. QED
    BY <1>1, <2>1 DEF StepInv
<1>18. QED
  BY <1>6, <1>7, <1>8, <1>9, <1>10, <1>11, <1>12, <1>13, <1>14, <1>15, <1>16, <1>17
  DEF Next, loop

(* What is said of the loops, when nothing it is about changes.            *)
LEMMA SameLoops ==
  ASSUME LoopInv, UNCHANGED <<treeVars, doing, iterVars>>
  PROVE  LoopInv'
<1>0. UNCHANGED treeVars /\ UNCHANGED <<doing, frames, leaf, visited>>
  BY DEF iterVars
<1>1. ASSUME NEW above, NEW t, NEW i, NEW before, Walks(above, t, i, before)
      PROVE  Walks(above, t, i, before)'
  <2>1. coll(t, i)' = coll(t, i)
    BY <1>0, SameTree
  <2>2. QED
    BY <1>0, <1>1, <2>1 DEF Walks, Through, collAt
<1>2. ASSUME NEW above, NEW t, NEW i, Loop(above, t, i) PROVE Loop(above, t, i)'
  <2>1. All(t, i)' = All(t, i)
    BY <1>0, SameTree
  <2>2. QED
    BY <1>0, <1>1, <1>2, <2>1 DEF Loop, Climbs, Over, Through
<1>3. ASSUME BoardLoop PROVE BoardLoop'
  <2>1. CASE Over(board \ unreached)
    <3>1. Over(board \ unreached)'
      BY <1>0, <2>1, SameBefore DEF Over, Through
    <3>2. QED
      BY <3>1 DEF BoardLoop
  <2>2. ASSUME NEW n \in 0 .. 2, Comes(n)
        PROVE  /\ Walks(<<boardFrame(n), tableFrame(order[n + 1])>>, order[n + 1], 0, Before(n))
                     => BoardLoop'
               /\ \A above \in {<<boardFrame(n), tableFrame(order[n + 1])>>, <<boardFrame(n)>>} :
                    Climbs(above, Before(n + 1)) => BoardLoop'
    <3>1. PICK before, seen : before = Before(n) /\ seen = Before(n + 1)
      OBVIOUS
    <3>2. ASSUME Walks(<<boardFrame(n), tableFrame(order[n + 1])>>, order[n + 1], 0, before)
          PROVE  BoardLoop'
      <4>1. Walks(<<boardFrame(n), tableFrame(order[n + 1])>>, order[n + 1], 0, before)'
        BY <1>1, <3>2
      <4>2. QED
        BY <1>0, <2>2, <3>1, <4>1, BoardWalks
    <3>3. ASSUME NEW above \in {<<boardFrame(n), tableFrame(order[n + 1])>>, <<boardFrame(n)>>},
                 Climbs(above, seen)
          PROVE  BoardLoop'
      <4>1. Climbs(above, seen)'
        BY <1>0, <3>3 DEF Climbs, Through
      <4>2. QED
        BY <1>0, <2>2, <3>1, <4>1, BoardClimbs
    <3>4. QED
      BY <3>1, <3>2, <3>3
  <2>3. QED
    BY <1>3, <2>1, <2>2 DEF BoardLoop, Comes
<1>4. QED
  BY <1>0, <1>2, <1>3 DEF LoopInv

(* Every step keeps what the loops have come to.                           *)
LEMMA LoopStep ==
  ASSUME TreeInv, StepInv, LoopInv, [Next]_vars
  PROVE  LoopInv'
<1>0. \A what, from : begin(what, from) => doing' = what
  BY DEF begin
<1>1. ASSUME doing' \in {"none", "choose"} PROVE LoopInv'
  BY <1>1 DEF LoopInv
<1>2. ASSUME doing' \in {"checking", "healing"}, Loop(<<tableFrame("creas")>>, "creas", 0)'
      PROVE  LoopInv'
  BY <1>2 DEF LoopInv
<1>3. ASSUME doing' \in {"splitting", "resolving"}, Loop(<<stateFrame(0, 0)>>, "creas", 1)'
      PROVE  LoopInv'
  BY <1>3 DEF LoopInv
<1>4. ASSUME doing' = "untapping", BoardLoop' PROVE LoopInv'
  BY <1>4 DEF LoopInv
<1>5. step \notin Combat => "creas" \in Tables /\ HT_SIZE("creas") = 1
  BY Tree DEF Tables
<1>6. step \in Combat => /\ "creas" \in Tables /\ 1 \in 0 .. HT_SIZE("creas") - 1
                         /\ BLOCKSIZE = 1 /\ nbBlocks = 1
  BY Tree, Shape DEF Tables
<1>7. ASSUME NEW what, what \in {"checking", "healing"}, step \notin Combat,
             UNCHANGED treeVars, begin(what, tableStart(<<>>, "creas"))
      PROVE  LoopInv'
  <2>1. PICK a, from : a = tableFrame("creas") /\ from = tableStart(<<>>, "creas")
    OBVIOUS
  <2>2. from = Started(Append(<<>>, a), "creas", 0)
    BY <1>5, <1>7, <2>1, TableStart
  <2>3. Append(<<>>, a) = <<a>>
    BY Pair
  <2>4. from = Started(<<a>>, "creas", 0) /\ begin(what, from)
    BY <1>7, <2>1, <2>2, <2>3
  <2>5. 0 \in 0 .. HT_SIZE("creas") - 1 /\ "creas" \in Tables
    BY <1>5, <1>7
  <2>6. Loop(<<a>>, "creas", 0)'
    BY <1>7, <2>4, <2>5, LoopBegin
  <2>7. QED
    BY <1>0, <1>2, <1>7, <2>1, <2>6
<1>8. ASSUME NEW what, what \in {"splitting", "resolving"}, step \in Combat,
             UNCHANGED treeVars, begin(what, stateStart(FALSE))
      PROVE  LoopInv'
  <2>1. PICK a, from : a = stateFrame(0, 0) /\ from = stateStart(FALSE)
    OBVIOUS
  <2>2. from = Started(<<a>>, "creas", 1) /\ begin(what, from)
    BY <1>8, <2>1, StateStart
  <2>3. Loop(<<a>>, "creas", 1)'
    BY <1>6, <1>8, <2>2, LoopBegin
  <2>4. QED
    BY <1>0, <1>3, <1>8, <2>1, <2>3
<1>9. CASE UNCHANGED vars
  BY <1>9, SameLoops DEF vars
<1>10. CASE untapstep
  <2>1. CASE /\ at("untap") /\ begin("untapping", boardStart) /\ UNCHANGED treeVars
    <3>1. step \notin Combat /\ doing' = "untapping"
      BY <1>0, <2>1 DEF at, Combat
    <3>2. QED
      BY <1>4, <2>1, <3>1, BoardBegin
  <2>2. CASE ends("main")
    BY <1>1, <2>2 DEF ends
  <2>3. QED
    BY <1>10, <2>1, <2>2 DEF untapstep
<1>11. CASE increment
  <2>1. doing' = doing /\ doing \notin {"none", "choose"}
    BY <1>11 DEF increment
  <2>2. PICK a, b : a = tableFrame("creas") /\ b = stateFrame(0, 0)
    OBVIOUS
  <2>3. CASE doing \in {"checking", "healing"}
    BY <1>2, <1>11, <2>1, <2>2, <2>3, LoopIncrement DEF LoopInv
  <2>4. CASE doing \in {"splitting", "resolving"}
    BY <1>3, <1>11, <2>1, <2>2, <2>4, LoopIncrement DEF LoopInv
  <2>5. CASE doing = "untapping"
    BY <1>4, <1>11, <2>1, <2>5, BoardIncrement DEF LoopInv
  <2>6. QED
    BY <2>1, <2>3, <2>4, <2>5, Doing
<1>12. CASE climb
  <2>1. doing' = doing
    BY <1>12 DEF climb
  <2>2. PICK a, b : a = tableFrame("creas") /\ b = stateFrame(0, 0)
    OBVIOUS
  <2>3. CASE doing \in {"checking", "healing"}
    <3>1. step \notin Combat
      BY <2>3, Doing DEF Combat
    <3>2. /\ "creas" \in Tables /\ 0 \in 0 .. HT_SIZE("creas") - 1
          /\ isEnd(advance(a)) /\ Loop(<<a>>, "creas", 0)
      BY <1>5, <2>2, <2>3, <3>1, TableAdvances DEF LoopInv
    <3>3. Loop(<<a>>, "creas", 0)'
      BY <1>12, <3>2, LoopClimb
    <3>4. QED
      BY <1>2, <2>1, <2>2, <2>3, <3>3
  <2>4. CASE doing \in {"splitting", "resolving"}
    <3>1. step \in Combat
      BY <2>4, Doing DEF Combat
    <3>2. isEnd(advance(b)) /\ Loop(<<b>>, "creas", 1)
      BY <1>6, <2>2, <2>4, <3>1, StateAdvances DEF LoopInv
    <3>3. Loop(<<b>>, "creas", 1)'
      BY <1>6, <1>12, <3>1, <3>2, LoopClimb
    <3>4. QED
      BY <1>3, <2>1, <2>2, <2>4, <3>3
  <2>5. CASE doing = "untapping"
    <3>1. step \notin Combat
      BY <2>5, Doing DEF Combat
    <3>2. QED
      BY <1>4, <1>12, <2>1, <2>5, <3>1, BoardClimb DEF LoopInv
  <2>6. QED
    BY <1>1, <2>1, <2>3, <2>4, <2>5, Doing
<1>13. CASE chooseAttackers
  <2>1. doing' \in {"none", "choose"}
    BY <1>0, <1>13 DEF chooseAttackers, at
  <2>2. QED
    BY <1>1, <2>1
<1>14. CASE splice
  BY <1>1, <1>14 DEF splice
<1>15. CASE attackersChosen
  BY <1>1, <1>15 DEF attackersChosen
<1>16. CASE damagestep
  <2>1. step \in Combat
    BY <1>16, Doing DEF damagestep, at, over, Combat
  <2>2. \/ doing' = "none"
        \/ UNCHANGED treeVars /\ begin("splitting", stateStart(FALSE))
        \/ UNCHANGED treeVars /\ begin("resolving", stateStart(FALSE))
    BY <1>16 DEF damagestep, at, ends
  <2>3. QED
    BY <1>1, <1>8, <2>1, <2>2
<1>17. CASE cleanupstep
  <2>1. CASE /\ at("cleanup") /\ begin("healing", tableStart(<<>>, "creas"))
             /\ UNCHANGED treeVars
    <3>1. step \notin Combat
      BY <2>1 DEF at, Combat
    <3>2. QED
      BY <1>7, <2>1, <3>1
  <2>2. CASE ends("untap")
    BY <1>1, <2>2 DEF ends
  <2>3. QED
    BY <1>17, <2>1, <2>2 DEF cleanupstep
<1>18. CASE stateBasedActions
  <2>1. CASE /\ at("main") \/ at("sba")
             /\ begin("checking", tableStart(<<>>, "creas"))
             /\ UNCHANGED treeVars
    <3>1. step \notin Combat
      BY <2>1 DEF at, Combat
    <3>2. QED
      BY <1>7, <2>1, <3>1
  <2>2. CASE ends(IF step = "sba" THEN "cleanup" ELSE step)
    BY <1>1, <2>2 DEF ends
  <2>3. QED
    BY <1>18, <2>1, <2>2 DEF stateBasedActions
<1>19. CASE declareattackersstep
  BY <1>1, <1>19 DEF declareattackersstep, at
<1>20. ASSUME NEW c \in Permanents, insert(c) PROVE LoopInv'
  BY <1>1, <1>20 DEF insert, at
<1>21. QED
  BY <1>9, <1>10, <1>11, <1>12, <1>13, <1>14, <1>15, <1>16, <1>17, <1>18, <1>19, <1>20
  DEF Next, loop

(* The same of the state after a step.                                     *)
LEMMA Staying ==
  TreeInv /\ step \in Combat => stay = coll("creas", 0) /\ attackers = coll("creas", 1)
BY Shape

(* The two lists of the state after a step.                                *)
LEMMA StayingNext ==
  ASSUME TreeInv', step' \in Combat
  PROVE  stay' = coll("creas", 0)' /\ attackers' = coll("creas", 1)'
<1>1. (TreeInv /\ step \in Combat => stay = coll("creas", 0) /\ attackers = coll("creas", 1))'
  BY Staying, PTL
<1>2. QED
  BY <1>1

(* Nobody has been asked about yet, so nobody stays.                       *)
LEMMA KeptNone == turn = 1 => Kept = 0
<1>1. ASSUME turn = 1 PROVE Kept = 0
  <2>1. {m \in 1 .. turn - 1 : ~selected[m]} = {}
    BY <1>1
  <2>2. QED
    BY <2>1, FS_EmptySet DEF Kept
<1>2. QED
  BY <1>1

(* The next creature stays unless it is selected.                          *)
LEMMA KeptNext ==
  ASSUME turn \in Nat \ {0}, turn' = turn + 1, selected' = selected
  PROVE  /\ Kept \in Nat
         /\ selected[turn] => Kept' = Kept
         /\ ~selected[turn] => Kept' = Kept + 1
<1> DEFINE K == {m \in 1 .. turn - 1 : ~selected[m]}
           L == {m \in 1 .. turn : ~selected[m]}
<1>1. IsFiniteSet(K)
  <2>1. IsFiniteSet(1 .. turn - 1)
    BY FS_Interval
  <2>2. QED
    BY <2>1, FS_Subset
<1>2. Kept = Cardinality(K) /\ Cardinality(K) \in Nat
  BY <1>1, FS_CardinalityType DEF Kept
<1>3. (turn + 1) - 1 = turn
  OBVIOUS
<1>4. Kept' = Cardinality(L)
  BY <1>3 DEF Kept
<1>5. \A m : m \in 1 .. turn <=> m \in 1 .. turn - 1 \/ m = turn
  OBVIOUS
<1>6. turn \notin 1 .. turn - 1
  OBVIOUS
<1>7. ASSUME selected[turn] PROVE Kept' = Kept
  <2>1. L = K
    BY <1>5, <1>7
  <2>2. QED
    BY <1>2, <1>4, <2>1
<1>8. ASSUME ~selected[turn] PROVE Kept' = Kept + 1
  <2>1. L = K \cup {turn} /\ turn \notin K
    BY <1>5, <1>6, <1>8
  <2>2. Cardinality(L) = Cardinality(K) + 1
    BY <1>1, <2>1, FS_AddElement
  <2>3. QED
    BY <1>2, <1>4, <2>2
<1>9. QED
  BY <1>2, <1>7, <1>8

(* The iterator of chooseAttackers goes on: to the next creature that      *)
(* stays, or off the list if it was at the last one.                       *)
LEMMA ChooseClimb ==
  ASSUME TreeInv, StepInv, ChooseInv, doing = "choose", climb
  PROVE  ChooseInv'
<1>1. /\ UNCHANGED treeVars /\ UNCHANGED <<doing, step, selected, turn>> /\ leaf = climbing
      /\ climbing \notin Permanents /\ climbing # nullptr
  BY YggdrasilAssumption DEF climb, chooseVars, climbing, nullptr
<1>2. /\ step \in Combat /\ stay = coll("creas", 0) /\ stay' = stay
      /\ stay \in Seq(Permanents)
  <2>1. step \in Combat
    BY Doing DEF Combat
  <2>2. 0 \in 0 .. HT_SIZE("creas") - 1 /\ "creas" \in Tables
    BY <2>1, Tree DEF Tables
  <2>3. QED
    BY <1>1, <2>1, <2>2, Shape, SameTree, Tree
<1>3. PICK k : k = Kept
  OBVIOUS
<1>4. Kept' = k
  BY <1>1, <1>3 DEF Kept
<1>5. /\ selected \in Seq(BOOLEAN) /\ turn \in 1 .. Len(selected) + 1
      /\ Len(stay) = Len(selected) - (turn - 1) + k
  BY <1>3 DEF ChooseInv
<1>6. (/\ selected \in Seq(BOOLEAN) /\ turn \in 1 .. Len(selected) + 1
       /\ Len(stay) = Len(selected) - (turn - 1) + Kept)'
  BY <1>1, <1>2, <1>4, <1>5
<1>7. \/ frames = <<stateFrame(0, 0), collAt("creas", 0, k)>> /\ k > 0
      \/ frames = <<stateFrame(0, 0)>> /\ turn = Len(selected) + 1
  BY <1>1, <1>3 DEF ChooseInv
<1> DEFINE on == Append(Front(frames), advance(Last(frames)))
<1>8. CASE frames = <<stateFrame(0, 0)>> /\ turn = Len(selected) + 1
  <2>1. PICK a : a = stateFrame(0, 0)
    OBVIOUS
  <2>2. isEnd(advance(a))
    BY <1>2, <2>1, Shape, StateAdvances
  <2>3. frames' = <<>> /\ leaf' = nullptr
    BY <1>8, <2>1, <2>2, Ascends
  <2>4. QED
    BY <1>1, <1>6, <1>8, <2>3 DEF ChooseInv
<1>9. CASE frames = <<stateFrame(0, 0), collAt("creas", 0, k)>> /\ k > 0
  <2>1. PICK a, f, g : /\ a = stateFrame(0, 0) /\ f = collAt("creas", 0, k)
                      /\ g = collAt("creas", 0, k + 1)
    OBVIOUS
  <2>2. k \in Nat /\ k + 1 \in Nat
    <3>1. IsFiniteSet(1 .. turn - 1)
      BY <1>5, FS_Interval
    <3>2. IsFiniteSet({m \in 1 .. turn - 1 : ~selected[m]})
      BY <3>1, FS_Subset
    <3>3. k \in Nat
      BY <1>3, <3>2, FS_CardinalityType DEF Kept
    <3>4. QED
      BY <3>3
  <2>3. advance(f) = g /\ (isEnd(g) <=> k + 1 > Len(stay))
    BY <1>2, <2>1, <2>2, CollAdvances
  <2>4. frames = <<a, f>>
    BY <1>9, <2>1
  <2>5. Front(frames) = <<a>> /\ Last(frames) = f /\ Len(frames) = 2
    BY <2>4, Pair
  <2>6. on = <<a, g>> /\ Last(on) = g
    <3>1. on = Append(<<a>>, g)
      BY <2>3, <2>5
    <3>2. on = <<a, g>>
      BY <3>1, Pair
    <3>3. Last(<<a, g>>) = g
      BY Pair
    <3>4. QED
      BY <3>2, <3>3
  <2>7. CASE k + 1 > Len(stay)
    <3>1. isEnd(Last(on))
      BY <2>3, <2>6, <2>7
    <3>2. frames' = <<a>> /\ leaf' = climbing
      BY <2>5, <3>1 DEF climb, handedUp
    <3>3. turn = Len(selected) + 1
      <4>1. Len(selected) \in Nat /\ Len(stay) \in Nat
        BY <1>2, <1>5
      <4>2. QED
        BY <1>5, <2>2, <2>7, <4>1
    <3>4. (turn = Len(selected) + 1)'
      BY <1>1, <3>3
    <3>5. QED
      BY <1>6, <2>1, <3>2, <3>4 DEF ChooseInv
  <2>8. CASE k + 1 <= Len(stay)
    <3>1. PICK c : c = stay[k + 1]
      OBVIOUS
    <3>2. c \in Permanents
      BY <1>2, <2>2, <2>8, <3>1
    <3>3. ~isEnd(Last(on))
      <4>1. Len(stay) \in Nat
        BY <1>2
      <4>2. QED
        BY <2>2, <2>3, <2>6, <2>8, <4>1
    <3>4. PICK fs : fs = on
      OBVIOUS
    <3>5. down(fs, FALSE) = [frames |-> fs, leaf |-> c]
      <4>1. Last(fs) = collAt("creas", 0, k + 1)
        BY <2>1, <2>6, <3>4
      <4>2. coll("creas", 0)[k + 1] = c
        BY <1>2, <3>1
      <4>3. down(fs, FALSE) = [frames |-> fs, leaf |-> coll("creas", 0)[k + 1]]
        BY <4>1, CollDown, Zenon
      <4>4. QED
        BY <4>2, <4>3
    <3>6. PICK found : found = [frames |-> fs, leaf |-> c]
      OBVIOUS
    <3>7. found.frames = fs /\ found.leaf = c /\ found = down(on, FALSE)
      BY <3>4, <3>5, <3>6
    <3>8. frames' = fs /\ leaf' = c
      BY <3>3, <3>7 DEF climb
    <3>9. frames' = <<stateFrame(0, 0), collAt("creas", 0, Kept' + 1)>>
      BY <1>4, <2>1, <2>6, <3>4, <3>8
    <3>10. (frames = <<stateFrame(0, 0), collAt("creas", 0, Kept + 1)>>)'
      BY <3>9 DEF collAt, stateFrame
    <3>11. leaf' \in Permanents
      BY <3>2, <3>8
    <3>12. QED
      BY <1>6, <3>10, <3>11 DEF ChooseInv
  <2>9. Len(stay) \in Nat
    BY <1>2
  <2>10. QED
    BY <2>2, <2>7, <2>8, <2>9
<1>10. QED
  BY <1>7, <1>8, <1>9

(* How the loop of splices begins.                                         *)
LEMMA Chosen ==
  ASSUME TreeInv, StepInv, chooseAttackers, members("creas") # <<>>
  PROVE  /\ UNCHANGED treeVars /\ step \in Combat /\ step' = step /\ doing = "none"
         /\ doing' = "choose" /\ turn' = 1 /\ selected' \in [1 .. Len(stay) -> BOOLEAN]
         /\ stay = coll("creas", 0) /\ stay' = stay /\ stay \in Seq(Permanents) /\ stay # <<>>
         /\ attackers = <<>> /\ attackers' = <<>>
         /\ begin("choose", stateStart(TRUE))
<1>1. /\ UNCHANGED treeVars /\ step = "attackers" /\ step' = step /\ doing = "none"
      /\ begin("choose", stateStart(TRUE)) /\ turn' = 1
      /\ selected' \in [1 .. Len(stay) -> BOOLEAN]
  BY DEF chooseAttackers, at
<1>2. doing' = "choose" /\ step \in Combat
  BY <1>1 DEF begin, Combat
<1>3. coll("creas", 1) = <<>>
  BY <1>1 DEF StepInv
<1>4. /\ stay = coll("creas", 0) /\ attackers = coll("creas", 1)
      /\ members("creas") = coll("creas", 0) \o coll("creas", 1)
  BY <1>2, Shape
<1>5. coll("creas", 0) \in Seq(Permanents)
  <2>1. 0 \in 0 .. HT_SIZE("creas") - 1 /\ "creas" \in Tables
    BY <1>2, Tree DEF Tables
  <2>2. QED
    BY <2>1, Tree
<1>6. stay # <<>>
  <2>1. stay \o <<>> # <<>>
    BY <1>3, <1>4
  <2>2. QED
    BY <2>1
<1>7. stay' = stay /\ attackers' = attackers
  BY <1>1, SameTree
<1>8. QED
  BY <1>1, <1>2, <1>3, <1>4, <1>5, <1>6, <1>7

(* It begins at the first creature.                                        *)
LEMMA ChooseBegin ==
  ASSUME TreeInv, StepInv, chooseAttackers, members("creas") # <<>>
  PROVE  ChooseInv'
<1>1. /\ doing' = "choose" /\ turn' = 1 /\ selected' \in [1 .. Len(stay) -> BOOLEAN]
      /\ stay = coll("creas", 0) /\ stay' = stay /\ stay \in Seq(Permanents) /\ stay # <<>>
      /\ begin("choose", stateStart(TRUE)) /\ step \in Combat
  BY Chosen
<1>2. Kept' = 0
  <2>1. (turn = 1 => Kept = 0)'
    BY KeptNone, PTL
  <2>2. QED
    BY <1>1, <2>1
<1>3. Len(stay) \in Nat /\ 1 \in 1 .. Len(stay) /\ stay[1] \in Permanents
  BY <1>1
<1>4. selected' \in Seq(BOOLEAN) /\ Len(selected') = Len(stay)
  BY <1>1, <1>3
<1>5. (/\ selected \in Seq(BOOLEAN) /\ turn \in 1 .. Len(selected) + 1
       /\ Len(stay) = Len(selected) - (turn - 1) + Kept)'
  BY <1>1, <1>2, <1>3, <1>4
<1>6. stateStart(TRUE) = [frames |-> Append(<<stateFrame(0, 0)>>, collAt("creas", 0, 1)),
                          leaf |-> stay[1]]
  BY <1>1, StateStart DEF Started
<1>7. Append(<<stateFrame(0, 0)>>, collAt("creas", 0, 1))
        = <<stateFrame(0, 0), collAt("creas", 0, 1)>>
  BY Pair
<1>8. PICK fs : fs = <<stateFrame(0, 0), collAt("creas", 0, 1)>>
  OBVIOUS
<1>9. PICK from : from = [frames |-> fs, leaf |-> stay[1]]
  OBVIOUS
<1>10. from = stateStart(TRUE) /\ from.frames = fs /\ from.leaf = stay[1]
  BY <1>6, <1>7, <1>8, <1>9
<1>11. frames' = fs /\ leaf' = stay[1]
  BY <1>1, <1>10 DEF begin
<1>12. frames' = <<stateFrame(0, 0), collAt("creas", 0, Kept' + 1)>>
  BY <1>2, <1>8, <1>11
<1>13. (frames = <<stateFrame(0, 0), collAt("creas", 0, Kept + 1)>>)'
  BY <1>12 DEF collAt, stateFrame
<1>14. leaf' \in Permanents
  BY <1>3, <1>11
<1>15. QED
  BY <1>5, <1>13, <1>14 DEF ChooseInv

(* A splice: a selected creature leaves the list, and the iterator is at   *)
(* the next one; or the iterator passes the creature by.                   *)
LEMMA ChooseSplice ==
  ASSUME TreeInv, StepInv, ChooseInv, splice, TreeInv'
  PROVE  ChooseInv'
<1>1. /\ doing = "choose" /\ leaf # climbing /\ turn \in DOMAIN selected
      /\ turn' = turn + 1 /\ UNCHANGED <<multiplicity, step, doing, selected>>
  BY DEF splice
<1>2. PICK k : k = Kept
  OBVIOUS
<1>3. /\ k + 1 \in 1 .. Len(coll("creas", 0)) /\ k \in Nat
      /\ frames = <<stateFrame(0, 0), collAt("creas", 0, k + 1)>>
      /\ leaf \in Permanents /\ turn \in 1 .. Len(selected) /\ Len(selected) \in Nat
  BY <1>1, <1>2, SpliceAt
<1>4. step \in Combat /\ step' \in Combat
  BY <1>1, Doing DEF Combat
<1>5. stay = coll("creas", 0) /\ stay' = coll("creas", 0)'
  BY <1>4, Shape, StayingNext
<1>6. coll("creas", 0) \in Seq(Permanents) /\ IsInjective(coll("creas", 0))
  <2>1. 0 \in 0 .. HT_SIZE("creas") - 1 /\ "creas" \in Tables
    BY <1>4, Tree DEF Tables
  <2>2. QED
    BY <2>1, Tree
<1>7. selected \in Seq(BOOLEAN) /\ Len(stay) = Len(selected) - (turn - 1) + k
  BY <1>1, <1>2 DEF ChooseInv
<1>8. (selected \in Seq(BOOLEAN) /\ turn \in 1 .. Len(selected) + 1)'
  BY SMTT(30), <1>1, <1>3, <1>7
<1>9. turn \in Nat \ {0}
  BY <1>3
<1>10. CASE selected[turn]
  <2>1. ht' = moved /\ frames' = spliced(findFor("collection").at) /\ leaf' = leaf
    BY <1>10 DEF splice
  <2>2. Kept' = k
    BY <1>1, <1>2, <1>9, <1>10, KeptNext
  <2>3. PICK j : j = k + 1
    OBVIOUS
  <2>4. coll("creas", 0)' = RemoveAt(coll("creas", 0), j)
    BY <1>1, <1>3, <1>4, <2>1, <2>3, TreeMoved
  <2>5. Len(stay') = Len(stay) - 1
    BY <1>3, <1>5, <1>6, <2>3, <2>4, RemoveKeepsOnce
  <2>6. (Len(stay) = Len(selected) - (turn - 1) + Kept)'
    <3>1. Len(stay) \in Nat /\ turn \in Nat
      BY <1>3, <1>5, <1>6
    <3>2. Len(stay) - 1 = Len(selected) - ((turn + 1) - 1) + k
      BY <1>3, <1>7, <3>1
    <3>3. QED
      BY <1>1, <2>2, <2>5, <3>2
  <2>7. frames' = frames
    <3>1. PICK a, f : a = stateFrame(0, 0) /\ f = collAt("creas", 0, j)
      OBVIOUS
    <3>2. a.node = "state" /\ f.node = "collection" /\ f.at = j /\ [f EXCEPT !.at = j] = f
      BY <3>1 DEF stateFrame, collAt
    <3>3. frames = <<a, f>>
      BY <1>3, <2>3, <3>1
    <3>4. frames[1] = a /\ frames[2] = f /\ DOMAIN frames = {1, 2} /\ Len(frames) = 2
      BY <3>3
    <3>5. \A n \in DOMAIN frames : frames[n].node = "collection" <=> n = 2
      BY <3>2, <3>4
    <3>6. findFor("collection") = f
      BY <3>4, <3>5 DEF findFor
    <3>7. frames' = [frames EXCEPT ![2].at = j]
      BY <2>1, <3>2, <3>4, <3>6 DEF spliced
    <3>8. [<<a, f>> EXCEPT ![2] = f] = <<a, f>>
      OBVIOUS
    <3>9. QED
      BY <3>2, <3>3, <3>4, <3>7, <3>8
  <2>8. frames' = <<stateFrame(0, 0), collAt("creas", 0, Kept' + 1)>>
    BY <1>3, <2>2, <2>7
  <2>9. (frames = <<stateFrame(0, 0), collAt("creas", 0, Kept + 1)>>)'
    BY <2>8 DEF collAt, stateFrame
  <2>10. leaf' \in Permanents
    BY <1>3, <2>1
  <2>11. QED
    BY <1>8, <2>6, <2>9, <2>10 DEF ChooseInv
<1>11. CASE ~selected[turn]
  <2>1. UNCHANGED treeVars /\ frames' = frames /\ leaf' = climbing
    BY <1>11 DEF splice, treeVars
  <2>2. Kept' = k + 1
    BY <1>1, <1>2, <1>9, <1>11, KeptNext
  <2>3. stay' = stay
    BY <2>1, SameTree
  <2>4. (Len(stay) = Len(selected) - (turn - 1) + Kept)'
    BY SMTT(30), <1>1, <1>3, <1>7, <2>2, <2>3
  <2>5. frames' = <<stateFrame(0, 0), collAt("creas", 0, Kept')>>
    BY <1>3, <2>1, <2>2
  <2>6. (frames = <<stateFrame(0, 0), collAt("creas", 0, Kept)>>)'
    BY <2>5 DEF collAt, stateFrame
  <2>7. (leaf = climbing /\ Kept > 0)'
    BY <1>3, <2>1, <2>2 DEF climbing
  <2>8. QED
    BY <1>8, <2>4, <2>6, <2>7 DEF ChooseInv
<1>12. QED
  BY <1>10, <1>11

(* Every step keeps the iterator of the splices where it should be.        *)
LEMMA ChooseStep ==
  ASSUME TreeInv, StepInv, ChooseInv, TreeInv', [Next]_vars
  PROVE  ChooseInv'
<1>0. \A what, from : begin(what, from) => doing' = what
  BY DEF begin
<1>1. ASSUME doing' # "choose" PROVE ChooseInv'
  BY <1>1 DEF ChooseInv
<1>2. CASE UNCHANGED vars
  <2>1. stay' = stay
    BY <1>2, SameTree DEF vars
  <2>2. /\ UNCHANGED <<doing, frames, leaf, selected, turn>>
    BY <1>2 DEF vars, iterVars, chooseVars
  <2>3. Kept' = Kept
    BY <2>2 DEF Kept
  <2>4. collAt("creas", 0, Kept)' = collAt("creas", 0, Kept)
    BY <2>3 DEF collAt
  <2>5. collAt("creas", 0, Kept + 1)' = collAt("creas", 0, Kept + 1)
    BY <2>3 DEF collAt
  <2>6. QED
    BY <2>1, <2>2, <2>3, <2>4, <2>5 DEF ChooseInv, climbing, nullptr, stateFrame
<1>3. CASE untapstep
  BY <1>0, <1>1, <1>3 DEF untapstep, ends
<1>4. CASE increment
  BY <1>1, <1>4 DEF increment
<1>5. CASE climb
  <2>1. doing' = doing
    BY <1>5 DEF climb
  <2>2. QED
    BY <1>1, <1>5, <2>1, ChooseClimb
<1>6. CASE chooseAttackers
  <2>1. CASE members("creas") = <<>>
    BY <1>1, <1>6, <2>1 DEF chooseAttackers, at
  <2>2. CASE members("creas") # <<>>
    BY <1>6, <2>2, ChooseBegin
  <2>3. QED
    BY <2>1, <2>2
<1>7. CASE splice
  BY <1>7, ChooseSplice
<1>8. CASE attackersChosen
  BY <1>1, <1>8 DEF attackersChosen
<1>9. CASE damagestep
  BY <1>0, <1>1, <1>9 DEF damagestep, ends, at
<1>10. CASE cleanupstep
  BY <1>0, <1>1, <1>10 DEF cleanupstep, ends
<1>11. CASE stateBasedActions
  BY <1>0, <1>1, <1>11 DEF stateBasedActions, ends
<1>12. CASE declareattackersstep
  BY <1>1, <1>12 DEF declareattackersstep, at
<1>13. ASSUME NEW c \in Permanents, insert(c) PROVE ChooseInv'
  BY <1>1, <1>13 DEF insert, at
<1>14. QED
  BY <1>2, <1>3, <1>4, <1>5, <1>6, <1>7, <1>8, <1>9, <1>10, <1>11, <1>12, <1>13
  DEF Next, loop

-----------------------------------------------------------------------------

(* An empty board.                                                         *)
LEMMA InitIInv == Init => IInv
<1> SUFFICES ASSUME Init PROVE IInv
  OBVIOUS
<1>1. /\ \A t \in Tables : ht[t] = << <<>> >>
      /\ ht \in [Tables -> Seq(Seq(Permanents))]
  <2>1. << <<>> >> \in Seq(Seq(Permanents))
    OBVIOUS
  <2>2. QED
    BY <2>1 DEF Init
<1>2. /\ Len(<< <<>> >>) = 1 /\ DOMAIN << <<>> >> = {1} /\ << <<>> >>[1] = <<>>
      /\ IsInjective(<<>>) /\ Range(<<>>) = {}
  BY DEF IsInjective, Range
<1>3. TreeInv
  BY <1>1, <1>2 DEF TreeInv, Init, Tables, Steps, Combat
<1>4. StepInv
  BY DEF StepInv, LoopSteps, Init, Steps, Combat
<1>5. LoopInv /\ ChooseInv
  BY DEF LoopInv, ChooseInv, Init
<1>6. QED
  BY <1>3, <1>4, <1>5 DEF IInv

(* The four parts of the invariant rest on each other: where the iterator  *)
(* is says which lists a splice changes, and the lists say where the       *)
(* iterator is.                                                            *)
LEMMA NextIInv == IInv /\ [Next]_vars => IInv'
<1> SUFFICES ASSUME IInv, [Next]_vars PROVE IInv'
  OBVIOUS
<1>1. TreeInv /\ StepInv /\ LoopInv /\ ChooseInv
  BY DEF IInv
<1>2. TreeInv'
  BY <1>1, TreeStep
<1>3. StepInv'
  BY <1>1, StepStep
<1>4. LoopInv'
  BY <1>1, LoopStep
<1>5. ChooseInv'
  BY <1>1, <1>2, ChooseStep
<1>6. QED
  BY <1>2, <1>3, <1>4, <1>5 DEF IInv

(* For any permanents: a table keeps what is put in it, each permanent     *)
(* once and in the table of its kind, two lists of creatures are there     *)
(* exactly in combat, and the iterator of every loop is at the permanent   *)
(* it should be at (iterators.h, hashtable_tn.h, state_n.h).               *)
THEOREM TreeInvariant == Spec => []IInv
<1>1. QED
  BY InitIInv, NextIInv, PTL DEF Spec

(* An iterator stays inside of its list.                                   *)
Inside == \A n \in DOMAIN frames :
            frames[n].node = "collection" =>
              frames[n].at \in 1 .. Len(coll(frames[n].of, frames[n].child)) + 1

(* Nodes that are not of a collection.                                     *)
Upper(a) == a.node # "collection"

(* The nodes of a table, a state and a board are not those of a list.      *)
LEMMA Uppers ==
  /\ Upper(stateFrame(0, 0)) /\ \A t : Upper(tableFrame(t)) /\ \A n : Upper(boardFrame(n))
BY DEF Upper, stateFrame, tableFrame, boardFrame

(* No node of a list in the path.                                          *)
LEMMA InsideNone ==
  ASSUME NEW a, NEW b, Upper(a), Upper(b),
         frames = <<>> \/ frames = <<a>> \/ frames = <<a, b>>
  PROVE  Inside
BY DEF Inside, Upper

(* A list below one node.                                                  *)
LEMMA InsideTwo ==
  ASSUME NEW a, Upper(a), NEW t, NEW i, NEW k \in 1 .. Len(coll(t, i)) + 1,
         frames = <<a, collAt(t, i, k)>>
  PROVE  Inside
<1>1. PICK f : f = collAt(t, i, k)
  OBVIOUS
<1>2. f.of = t /\ f.child = i /\ f.at = k
  BY <1>1 DEF collAt
<1>3. DOMAIN frames = {1, 2} /\ frames[1] = a /\ frames[2] = f
  BY <1>1
<1>4. QED
  BY <1>2, <1>3 DEF Inside, Upper

(* A list below two.                                                       *)
LEMMA InsideThree ==
  ASSUME NEW a, Upper(a), NEW b, Upper(b),
         NEW t, NEW i, NEW k \in 1 .. Len(coll(t, i)) + 1,
         frames = <<a, b, collAt(t, i, k)>>
  PROVE  Inside
<1>1. PICK f : f = collAt(t, i, k)
  OBVIOUS
<1>2. f.of = t /\ f.child = i /\ f.at = k
  BY <1>1 DEF collAt
<1>3. DOMAIN frames = {1, 2, 3} /\ frames[1] = a /\ frames[2] = b /\ frames[3] = f
  BY <1>1
<1>4. QED
  BY <1>2, <1>3 DEF Inside, Upper

(* A loop in a list is inside of it.                                       *)
LEMMA WalksInside ==
  ASSUME TreeInv, NEW a, Upper(a), NEW b, Upper(b), NEW above \in {<<a>>, <<a, b>>},
         NEW t \in Tables, NEW i \in 0 .. HT_SIZE(t) - 1, NEW before,
         Walks(above, t, i, before)
  PROVE  Inside /\ leaf \in Permanents \cup {climbing}
<1>1. coll(t, i) \in Seq(Permanents)
  BY Tree
<1>2. PICK k \in 1 .. Len(coll(t, i)) :
        frames = Append(above, collAt(t, i, k)) /\ leaf \in {coll(t, i)[k], climbing}
  BY DEF Walks
<1>3. k \in 1 .. Len(coll(t, i)) + 1 /\ coll(t, i)[k] \in Permanents
  BY <1>1
<1>4. CASE above = <<a>>
  <2>1. Append(<<a>>, collAt(t, i, k)) = <<a, collAt(t, i, k)>>
    BY Pair
  <2>2. QED
    BY <1>2, <1>3, <1>4, <2>1, InsideTwo
<1>5. CASE above = <<a, b>>
  <2>1. Append(<<a, b>>, collAt(t, i, k)) = <<a, b, collAt(t, i, k)>>
    BY Triple
  <2>2. QED
    BY <1>2, <1>3, <1>5, <2>1, InsideThree
<1>6. QED
  BY <1>4, <1>5

(* And so is a loop at any other place.                                    *)
LEMMA LoopInside ==
  ASSUME TreeInv, NEW a, Upper(a),
         NEW t \in Tables, NEW i \in 0 .. HT_SIZE(t) - 1, Loop(<<a>>, t, i)
  PROVE  Inside /\ leaf \in Permanents \cup {nullptr, climbing}
<1>1. CASE Walks(<<a>>, t, i, {})
  BY <1>1, WalksInside
<1>2. CASE Climbs(<<a>>, All(t, i)) \/ Over(All(t, i))
  <2>1. (frames = <<a>> \/ frames = <<>>) /\ leaf \in {climbing, nullptr}
    BY <1>2 DEF Climbs, Over
  <2>2. QED
    BY <2>1, InsideNone
<1>3. QED
  BY <1>1, <1>2 DEF Loop

(* No iterator is ever past the end of its list by more than one.          *)
LEMMA InvInside ==
  ASSUME TreeInv, StepInv, LoopInv, ChooseInv
  PROVE  Inside /\ leaf \in Permanents \cup {nullptr, climbing}
<1>1. CASE doing = "none"
  BY <1>1, InsideNone, Uppers DEF StepInv
<1>2. CASE doing \in {"checking", "healing"}
  <2>1. "creas" \in Tables /\ 0 \in 0 .. HT_SIZE("creas") - 1
    BY <1>2, Doing, Tree DEF Tables, Combat
  <2>2. PICK a : a = tableFrame("creas")
    OBVIOUS
  <2>3. Upper(a) /\ Loop(<<a>>, "creas", 0)
    BY <1>2, <2>2, Uppers DEF LoopInv
  <2>4. QED
    BY <2>1, <2>3, LoopInside
<1>3. CASE doing \in {"splitting", "resolving"}
  <2>1. "creas" \in Tables /\ 1 \in 0 .. HT_SIZE("creas") - 1
    BY <1>3, Doing, Tree DEF Tables, Combat
  <2>2. PICK a : a = stateFrame(0, 0)
    OBVIOUS
  <2>3. Upper(a) /\ Loop(<<a>>, "creas", 1)
    BY <1>3, <2>2, Uppers DEF LoopInv
  <2>4. QED
    BY <2>1, <2>3, LoopInside
<1>4. CASE doing = "untapping"
  <2>1. step \notin Combat /\ BoardLoop
    BY <1>4, Doing DEF Combat, LoopInv
  <2>2. CASE Over(board \ unreached)
    BY <2>2, InsideNone, Uppers DEF Over
  <2>3. ASSUME NEW n \in 0 .. 2, NEW a, NEW b, a = boardFrame(n), b = tableFrame(order[n + 1]),
               \/ Walks(<<a, b>>, order[n + 1], 0, Before(n))
               \/ Climbs(<<a, b>>, Before(n + 1)) \/ Climbs(<<a>>, Before(n + 1))
        PROVE  Inside /\ leaf \in Permanents \cup {nullptr, climbing}
    <3>1. Upper(a) /\ Upper(b)
      BY <2>3, Uppers
    <3>2. PICK before : before = Before(n)
      OBVIOUS
    <3>3. order[n + 1] \in Tables /\ 0 \in 0 .. HT_SIZE(order[n + 1]) - 1
      BY <2>1, Orders, Whole
    <3>4. CASE Walks(<<a, b>>, order[n + 1], 0, before)
      BY <3>1, <3>3, <3>4, WalksInside
    <3>5. CASE Climbs(<<a, b>>, Before(n + 1)) \/ Climbs(<<a>>, Before(n + 1))
      BY <3>1, <3>5, InsideNone DEF Climbs
    <3>6. QED
      BY <2>3, <3>2, <3>4, <3>5
  <2>4. QED
    BY <2>1, <2>2, <2>3 DEF BoardLoop
<1>5. CASE doing = "choose"
  <2>1. PICK a, k : a = stateFrame(0, 0) /\ k = Kept
    OBVIOUS
  <2>2. Upper(a) /\ step \in Combat
    BY <1>5, <2>1, Doing, Uppers DEF Combat
  <2>3. leaf \in Permanents \cup {nullptr, climbing}
    BY <1>5 DEF ChooseInv
  <2>4. CASE frames = <<>> \/ frames = <<a>>
    <3>1. PICK b : b = a
      OBVIOUS
    <3>2. Inside
      BY <2>2, <2>4, <3>1, InsideNone
    <3>3. QED
      BY <2>3, <3>2
  <2>5. ASSUME NEW m \in {k, k + 1}, m > 0, frames = <<a, collAt("creas", 0, m)>> PROVE Inside
    <3>1. IsFiniteSet(1 .. turn - 1) /\ turn \in 1 .. Len(selected) + 1 /\ selected \in Seq(BOOLEAN)
      BY <1>5, FS_Interval DEF ChooseInv
    <3>2. IsFiniteSet({n \in 1 .. turn - 1 : ~selected[n]})
      BY <3>1, FS_Subset
    <3>3. k \in Nat
      BY <2>1, <3>2, FS_CardinalityType DEF Kept
    <3>4. Len(coll("creas", 0)) = Len(selected) - (turn - 1) + k /\ Len(selected) \in Nat
      BY <1>5, <2>1, <2>2, <3>1, Shape DEF ChooseInv
    <3>5. m \in 1 .. Len(coll("creas", 0)) + 1
      BY <2>5, <3>1, <3>3, <3>4
    <3>6. QED
      BY <2>2, <2>5, <3>5, InsideTwo
  <2>6. QED
    <3>1. IsFiniteSet(1 .. turn - 1) /\ turn \in 1 .. Len(selected) + 1 /\ selected \in Seq(BOOLEAN)
      BY <1>5, FS_Interval DEF ChooseInv
    <3>2. IsFiniteSet({n \in 1 .. turn - 1 : ~selected[n]})
      BY <3>1, FS_Subset
    <3>3. k + 1 > 0
      BY <2>1, <3>2, FS_CardinalityType DEF Kept
    <3>4. \/ frames = <<>> \/ frames = <<a>>
          \/ frames = <<a, collAt("creas", 0, k + 1)>>
          \/ frames = <<a, collAt("creas", 0, k)>> /\ k > 0
      BY <1>5, <2>1 DEF ChooseInv
    <3>5. QED
      BY <2>3, <2>4, <2>5, <3>3, <3>4
<1>6. QED
  BY <1>1, <1>2, <1>3, <1>4, <1>5, Doing

(* The invariant gives the types.                                          *)
LEMMA InvTypeOK == IInv => TypeOK
<1> SUFFICES ASSUME IInv PROVE TypeOK
  OBVIOUS
<1>0. TreeInv /\ StepInv /\ LoopInv /\ ChooseInv
  BY DEF IInv
<1>1. ASSUME NEW t \in Tables
      PROVE  IsInjective(members(t)) /\ \A c \in Range(members(t)) : Table[c] = t
  <2>1. 0 \in 0 .. HT_SIZE(t) - 1
    BY <1>0, Tree DEF Tables
  <2>2. /\ coll(t, 0) \in Seq(Permanents) /\ IsInjective(coll(t, 0))
        /\ \A c \in Range(coll(t, 0)) : Table[c] = t
    BY <1>0, <2>1, Tree DEF All
  <2>3. CASE t # "creas" \/ step \notin Combat
    <3>1. members(t) = coll(t, 0)
      BY <1>0, <2>3, Shape DEF Tables
    <3>2. QED
      BY <2>2, <3>1
  <2>4. CASE t = "creas" /\ step \in Combat
    <3>1. PICK s, r : s = coll("creas", 0) /\ r = coll("creas", 1)
      OBVIOUS
    <3>2. 1 \in 0 .. HT_SIZE("creas") - 1 /\ "creas" \in Tables
      BY <1>0, <2>4, Tree DEF Tables
    <3>3. /\ r \in Seq(Permanents) /\ IsInjective(r)
          /\ \A c \in Range(r) : Table[c] = t
      BY <1>0, <2>4, <3>1, <3>2, Tree DEF All
    <3>4. /\ s \in Seq(Permanents) /\ IsInjective(s) /\ \A c \in Range(s) : Table[c] = t
      BY <2>2, <2>4, <3>1
    <3>5. Range(s) \cap Range(r) = {} /\ members(t) = s \o r
      BY <1>0, <2>4, <3>1, Tree, Shape DEF All
    <3>6. IsInjective(s \o r) /\ Range(s \o r) = Range(s) \cup Range(r)
      BY <3>3, <3>4, <3>5, JoinKeepsOnce
    <3>7. QED
      BY <3>3, <3>4, <3>5, <3>6
  <2>5. QED
    BY <2>3, <2>4
<1>2. HT_SIZE("creas") = 2^multiplicity
  <2>1. CASE step \in Combat
    BY <1>0, <2>1, Tree, Powers
  <2>2. CASE step \notin Combat
    BY <1>0, <2>2, Tree, Powers
  <2>3. QED
    BY <2>1, <2>2
<1>3. multiplicity > 0 <=> step \in {"attackers", "damage"}
  BY <1>0, Tree DEF Combat
<1>4. Inside /\ leaf \in Permanents \cup {nullptr, climbing}
  BY <1>0, InvInside
<1>5. QED
  BY <1>1, <1>2, <1>3, <1>4 DEF TypeOK, Inside

(* The variables keep their types: in particular, no path of an iterator   *)
(* ever points outside of a list, not after a splice has shortened it      *)
(* either.                                                                 *)
THEOREM TypeCorrect == Spec => []TypeOK
<1>1. QED
  BY TreeInvariant, InvTypeOK, PTL

(* What a loop has come to at its end, from where the iterator is.         *)
LEMMA InvLoops == IInv => LoopsComeToEachOnce
<1> SUFFICES ASSUME IInv,
                    NEW what \in {"untapping", "checking", "splitting", "resolving", "healing"},
                    over(what), NEW c \in Permanents
             PROVE  visited[c] = IF c \in due \ unreached THEN 1 ELSE 0
  BY DEF LoopsComeToEachOnce
<1>1. doing \notin {"none", "choose"} /\ leaf = nullptr
  BY DEF over
<1>2. Over(due \ unreached)
  BY <1>1, LoopsOver DEF IInv
<1>3. QED
  BY <1>2 DEF Over, Through

(* The loops that deal damage, heal and destroy creatures come to each of  *)
(* theirs once and to nothing else, however many combats have reordered    *)
(* the lists; that of the untap step comes to the whole board but the      *)
(* planeswalkers behind an empty table of creatures (iterators.h:42-46).   *)
THEOREM LoopsReachAll == Spec => []LoopsComeToEachOnce
<1>1. QED
  BY TreeInvariant, InvLoops, PTL

-----------------------------------------------------------------------------
(* The board implements a battlefield.                                     *)

Attacking == IF doing = "choose" THEN {} ELSE Range(attackers)

(* Those selected that the loop of splices has not come to.                *)
Ahead == {stay[n - turn + 1 + Kept] : n \in {m \in DOMAIN selected : m >= turn /\ selected[m]}}

(* Selected are the attackers and those the splices have yet to move.      *)
LEMMA Wanted == wanted = Range(attackers) \cup Ahead
BY DEF wanted, Ahead, Kept

(* With nothing selected, nothing is yet to be moved.                      *)
LEMMA WantedAll == selected = <<>> => Ahead = {}
<1>1. ASSUME selected = <<>> PROVE Ahead = {}
  <2>1. DOMAIN selected = {}
    BY <1>1
  <2>2. QED
    BY <2>1 DEF Ahead
<1>2. QED
  BY <1>1

(* The board by its lists.                                                 *)
LEMMA Parts ==
  TreeInv => /\ board = All("artos", 0) \cup All("superfriends", 0) \cup All("creas", 0)
                          \cup (IF step \in Combat THEN All("creas", 1) ELSE {})
             /\ step \notin Combat => attackers = <<>> /\ stay = <<>>
             /\ step \in Combat => attackers = coll("creas", 1) /\ stay = coll("creas", 0)
<1> SUFFICES ASSUME TreeInv
             PROVE  /\ board = All("artos", 0) \cup All("superfriends", 0) \cup All("creas", 0)
                                 \cup (IF step \in Combat THEN All("creas", 1) ELSE {})
                    /\ step \notin Combat => attackers = <<>> /\ stay = <<>>
                    /\ step \in Combat => attackers = coll("creas", 1) /\ stay = coll("creas", 0)
  OBVIOUS
<1>1. board = Range(members("artos")) \cup Range(members("superfriends"))
                \cup Range(members("creas"))
  BY DEF board, Tables
<1>2. CASE step \notin Combat
  BY <1>1, <1>2, Shape DEF All
<1>3. CASE step \in Combat
  <2>1. PICK s, r : s = coll("creas", 0) /\ r = coll("creas", 1)
    OBVIOUS
  <2>2. /\ 0 \in 0 .. HT_SIZE("creas") - 1 /\ 1 \in 0 .. HT_SIZE("creas") - 1
        /\ "creas" \in Tables
    BY <1>3, Tree DEF Tables
  <2>3. /\ s \in Seq(Permanents) /\ IsInjective(s) /\ r \in Seq(Permanents) /\ IsInjective(r)
    BY <2>1, <2>2, Tree
  <2>4. Range(s) \cap Range(r) = {}
    BY <1>3, <2>1, Tree DEF All
  <2>5. Range(s \o r) = Range(s) \cup Range(r)
    BY <2>3, <2>4, JoinKeepsOnce
  <2>6. members("creas") = s \o r /\ members("artos") = coll("artos", 0)
        /\ members("superfriends") = coll("superfriends", 0)
        /\ attackers = coll("creas", 1) /\ stay = coll("creas", 0)
    BY <1>3, <2>1, Shape
  <2>7. QED
    BY <1>1, <1>3, <2>1, <2>5, <2>6 DEF All
<1>4. QED
  BY <1>2, <1>3

(* The same after a step.                                                  *)
LEMMA PartsNext ==
  ASSUME TreeInv'
  PROVE  /\ board' = All("artos", 0)' \cup All("superfriends", 0)' \cup All("creas", 0)'
                        \cup (IF step' \in Combat THEN All("creas", 1)' ELSE {})
         /\ step' \notin Combat => attackers' = <<>> /\ stay' = <<>>
         /\ step' \in Combat => attackers' = coll("creas", 1)' /\ stay' = coll("creas", 0)'
<1>1. (TreeInv => /\ board = All("artos", 0) \cup All("superfriends", 0) \cup All("creas", 0)
                               \cup (IF step \in Combat THEN All("creas", 1) ELSE {})
                  /\ step \notin Combat => attackers = <<>> /\ stay = <<>>
                  /\ step \in Combat => attackers = coll("creas", 1) /\ stay = coll("creas", 0))'
  BY Parts, PTL
<1>2. QED
  BY <1>1 DEF Combat

(* What a step has to do to be one of the battlefield.                     *)
LEMMA Stutters ==
  ASSUME board' = board, wanted' = wanted, Attacking' = Attacking
  PROVE  [B!Next]_(B!vars)
BY DEF B!vars, Attacking

(* A permanent enters.                                                     *)
LEMMA Enters ==
  ASSUME NEW c \in Permanents, c \notin board, Attacking = {}, wanted = {},
         board' = board \cup {c}, wanted' = wanted, Attacking' = Attacking
  PROVE  [B!Next]_(B!vars)
BY DEF B!Next, B!Enter, Attacking

(* The player selects attackers.                                           *)
LEMMA Selects ==
  ASSUME Attacking = {}, wanted = {}, wanted' \subseteq {c \in board : Table[c] = "creas"},
         board' = board, Attacking' = Attacking
  PROVE  [B!Next]_(B!vars)
BY DEF B!Next, B!Select, Attacking

(* They attack.                                                            *)
LEMMA Declares ==
  ASSUME Attacking = {}, Attacking' = wanted, board' = board, wanted' = wanted
  PROVE  [B!Next]_(B!vars)
BY DEF B!Next, B!Declare, Attacking

(* The combat is over.                                                     *)
LEMMA EndsCombat ==
  ASSUME Attacking = wanted, Attacking' = {}, wanted' = {}, board' = board
  PROVE  [B!Next]_(B!vars)
BY DEF B!Next, B!EndCombat, Attacking

Selected(sel, t) == {m \in DOMAIN sel : m >= t /\ sel[m]}
AheadOf(s, sel, t, k) == {s[n - t + 1 + k] : n \in Selected(sel, t)}

(* A splice moves one of those that have yet to be moved: the others keep  *)
(* their places relative to the iterator.                                  *)
LEMMA AheadMoves ==
  ASSUME NEW S, NEW s \in Seq(S), IsInjective(s), NEW sel \in Seq(BOOLEAN),
         NEW t \in 1 .. Len(sel), NEW k \in Nat, Len(s) = Len(sel) - (t - 1) + k, sel[t],
         NEW u, u = RemoveAt(s, k + 1)
  PROVE  /\ AheadOf(s, sel, t, k) = {s[k + 1]} \cup AheadOf(u, sel, t + 1, k)
         /\ k + 1 \in 1 .. Len(s)
<1>1. Len(sel) \in Nat /\ Len(s) \in Nat /\ DOMAIN sel = 1 .. Len(sel) /\ t \in Nat
  OBVIOUS
<1>2. k + 1 \in 1 .. Len(s)
  BY <1>1
<1>3. \A i \in 1 .. Len(s) - 1 : u[i] = IF i < k + 1 THEN s[i] ELSE s[i + 1]
  BY ZenonT(40), <1>2, RemoveKeepsOnce
<1>4. ASSUME NEW n \in Selected(sel, t + 1)
      PROVE  n \in Selected(sel, t) /\ u[n - (t + 1) + 1 + k] = s[n - t + 1 + k]
  <2>1. n \in 1 .. Len(sel) /\ n >= t + 1 /\ sel[n] /\ n \in Nat
    BY <1>1 DEF Selected
  <2> DEFINE i == n - (t + 1) + 1 + k
  <2>2. i \in 1 .. Len(s) - 1 /\ ~(i < k + 1) /\ i + 1 = n - t + 1 + k
    BY <1>1, <2>1
  <2>3. u[i] = s[n - t + 1 + k]
    BY <1>3, <2>2
  <2>4. n >= t
    BY <1>1, <2>1
  <2>5. QED
    BY <1>1, <2>1, <2>3, <2>4 DEF Selected
<1>5. ASSUME NEW n \in Selected(sel, t) PROVE n = t \/ n \in Selected(sel, t + 1)
  BY <1>1 DEF Selected
<1>6. t \in Selected(sel, t) /\ t - t + 1 + k = k + 1
  BY <1>1 DEF Selected
<1>7. {s[n - t + 1 + k] : n \in Selected(sel, t)}
        \subseteq {s[k + 1]} \cup {u[n - (t + 1) + 1 + k] : n \in Selected(sel, t + 1)}
  <2>1. ASSUME NEW n \in Selected(sel, t)
        PROVE  s[n - t + 1 + k] \in
                 {s[k + 1]} \cup {u[m - (t + 1) + 1 + k] : m \in Selected(sel, t + 1)}
    <3>1. CASE n = t
      BY <1>6, <3>1
    <3>2. CASE n \in Selected(sel, t + 1)
      BY <1>4, <3>2
    <3>3. QED
      BY <1>5, <3>1, <3>2
  <2>2. QED
    BY <2>1
<1>8. {u[n - (t + 1) + 1 + k] : n \in Selected(sel, t + 1)}
        \subseteq {s[n - t + 1 + k] : n \in Selected(sel, t)}
  BY <1>4
<1>9. s[k + 1] \in {s[n - t + 1 + k] : n \in Selected(sel, t)}
  BY <1>6
<1>10. QED
  BY <1>2, <1>7, <1>8, <1>9 DEF AheadOf

(* One that is not selected is passed by: nothing has to be moved.         *)
LEMMA AheadStays ==
  ASSUME NEW s, NEW sel \in Seq(BOOLEAN),
         NEW t \in 1 .. Len(sel), NEW k \in Nat, ~sel[t]
  PROVE  AheadOf(s, sel, t, k) = AheadOf(s, sel, t + 1, k + 1)
<1>1. Len(sel) \in Nat /\ DOMAIN sel = 1 .. Len(sel) /\ t \in Nat
  OBVIOUS
<1>2. Selected(sel, t) = Selected(sel, t + 1)
  BY <1>1 DEF Selected
<1>3. ASSUME NEW n \in Selected(sel, t)
      PROVE  n - t + 1 + k = n - (t + 1) + 1 + (k + 1)
  BY <1>1 DEF Selected
<1>4. QED
  BY <1>2, <1>3 DEF AheadOf

(* An empty board is an empty battlefield.                                 *)
LEMMA InitBattle == Init => B!Init
<1> SUFFICES ASSUME Init PROVE B!Init
  OBVIOUS
<1>1. TreeInv /\ step \notin Combat /\ selected = <<>> /\ doing = "none"
  BY InitIInv DEF IInv, Init, Combat
<1>2. attackers = <<>> /\ Ahead = {}
  BY <1>1, Shape, WantedAll
<1>3. Range(<<>>) = {}
  BY DEF Range
<1>4. wanted = {} /\ Attacking = {}
  BY <1>1, <1>2, <1>3, Wanted DEF Attacking
<1>5. board = {}
  <2>1. \A t \in Tables : coll(t, 0) = <<>>
    BY DEF Init, coll
  <2>2. All("artos", 0) = {} /\ All("creas", 0) = {} /\ All("superfriends", 0) = {}
    BY <1>3, <2>1 DEF All, Tables
  <2>3. QED
    BY <1>1, <2>2, Whole
<1>6. QED
  BY <1>4, <1>5 DEF B!Init, Attacking

(* A step that changes neither lists nor selection is none of the          *)
(* battlefield.                                                            *)
LEMMA BattleSame ==
  ASSUME UNCHANGED treeVars, UNCHANGED chooseVars, doing' = "choose" <=> doing = "choose"
  PROVE  [B!Next]_(B!vars)
<1>1. board' = board /\ attackers' = attackers /\ stay' = stay
  BY SameTree
<1>2. wanted' = wanted
  BY <1>1 DEF wanted, chooseVars
<1>3. Attacking' = Attacking
  BY <1>1 DEF Attacking
<1>4. QED
  BY <1>1, <1>2, <1>3, Stutters

(* To begin the splices is to select, and nobody attacks yet.              *)
LEMMA BattleSelect ==
  ASSUME TreeInv, StepInv, chooseAttackers, members("creas") # <<>>
  PROVE  [B!Next]_(B!vars)
<1>1. /\ UNCHANGED treeVars /\ step \in Combat /\ doing = "none" /\ doing' = "choose"
      /\ turn' = 1 /\ selected' \in [1 .. Len(stay) -> BOOLEAN]
      /\ stay = coll("creas", 0) /\ stay' = stay /\ stay \in Seq(Permanents)
      /\ attackers = <<>> /\ attackers' = <<>>
  BY Chosen
<1>2. Range(<<>>) = {} /\ selected = <<>>
  BY <1>1 DEF Range, StepInv
<1>3. wanted = {} /\ Attacking = {} /\ Attacking' = {}
  BY <1>1, <1>2, Wanted, WantedAll DEF Attacking
<1>4. board' = board
  BY <1>1, SameTree
<1>5. Kept' = 0
  <2>1. (turn = 1 => Kept = 0)'
    BY KeptNone, PTL
  <2>2. QED
    BY <1>1, <2>1
<1>6. wanted' = Range(attackers)' \cup Ahead'
  <2>1. (wanted = Range(attackers) \cup Ahead)'
    BY Wanted, PTL
  <2>2. QED
    BY <2>1
<1>7. Range(attackers)' = {}
  BY <1>1, <1>2
<1>8. Ahead' \subseteq All("creas", 0)
  <2>1. Ahead' = {stay[n - 1 + 1 + 0] : n \in {m \in DOMAIN selected' : m >= 1 /\ selected'[m]}}
    BY <1>1, <1>5 DEF Ahead
  <2>2. DOMAIN selected' = 1 .. Len(stay) /\ DOMAIN stay = 1 .. Len(stay)
    BY <1>1
  <2>3. \A n \in 1 .. Len(stay) : n - 1 + 1 + 0 = n /\ stay[n] \in Range(stay)
    BY <2>2 DEF Range
  <2>4. QED
    BY <1>1, <2>1, <2>2, <2>3 DEF All
<1>9. All("creas", 0) \subseteq {c \in board : Table[c] = "creas"}
  <2>1. 0 \in 0 .. HT_SIZE("creas") - 1 /\ "creas" \in Tables
    BY <1>1, Tree DEF Tables
  <2>2. \A c \in All("creas", 0) : Table[c] = "creas"
    BY <2>1, Tree
  <2>3. All("creas", 0) \subseteq board
    BY Parts
  <2>4. QED
    BY <2>2, <2>3
<1>10. QED
  BY <1>3, <1>4, <1>6, <1>7, <1>8, <1>9, Selects

(* Each splice is nothing on the battlefield: what is selected stays what  *)
(* it is while it is moved from one list to the other.                     *)
LEMMA BattleSplice ==
  ASSUME TreeInv, StepInv, ChooseInv, splice, TreeInv'
  PROVE  [B!Next]_(B!vars)
<1>1. /\ doing = "choose" /\ leaf # climbing /\ turn \in DOMAIN selected
      /\ turn' = turn + 1 /\ UNCHANGED <<multiplicity, step, doing, selected>>
  BY DEF splice
<1>2. PICK k, s, t, sel : k = Kept /\ s = stay /\ t = turn /\ sel = selected
  OBVIOUS
<1>3. /\ k + 1 \in 1 .. Len(coll("creas", 0)) /\ k \in Nat
      /\ frames = <<stateFrame(0, 0), collAt("creas", 0, k + 1)>>
      /\ t \in 1 .. Len(sel) /\ t \in Nat \ {0}
  BY <1>1, <1>2, SpliceAt
<1>4. step \in Combat /\ step' \in Combat
  BY <1>1, Doing DEF Combat
<1>5. s = coll("creas", 0) /\ attackers = coll("creas", 1)
  BY <1>2, <1>4, Shape
<1>6. s \in Seq(Permanents) /\ IsInjective(s) /\ coll("creas", 1) \in Seq(Permanents)
  <2>1. /\ 0 \in 0 .. HT_SIZE("creas") - 1 /\ 1 \in 0 .. HT_SIZE("creas") - 1
        /\ "creas" \in Tables
    BY <1>4, Tree DEF Tables
  <2>2. QED
    BY <1>5, <2>1, Tree
<1>7. sel \in Seq(BOOLEAN) /\ Len(s) = Len(sel) - (t - 1) + k
  BY <1>1, <1>2 DEF ChooseInv
<1>8. Attacking = {} /\ Attacking' = {}
  BY <1>1 DEF Attacking
<1>9. Ahead = AheadOf(s, sel, t, k)
  BY <1>2 DEF Ahead, AheadOf, Selected
<1>10. wanted' = Range(attackers)' \cup Ahead'
  <2>1. (wanted = Range(attackers) \cup Ahead)'
    BY Wanted, PTL
  <2>2. QED
    BY <2>1
<1>11. turn' = t + 1 /\ selected' = sel /\ turn \in Nat \ {0}
  BY <1>1, <1>2, <1>3
<1>12. CASE selected[turn]
  <2>1. ht' = moved
    BY <1>12 DEF splice
  <2>2. Kept' = k
    BY <1>1, <1>2, <1>11, <1>12, KeptNext
  <2>3. PICK j, u, x : j = k + 1 /\ u = RemoveAt(s, j) /\ x = s[j]
    OBVIOUS
  <2>4. /\ coll("creas", 0)' = u /\ coll("creas", 1)' = <<x>> \o coll("creas", 1)
        /\ Others("creas")
    BY <1>1, <1>3, <1>4, <1>5, <2>1, <2>3, TreeMoved
  <2>5. stay' = u /\ attackers' = <<x>> \o coll("creas", 1)
    BY <1>4, <2>4, PartsNext
  <2>6. /\ Ahead = {x} \cup AheadOf(u, sel, t + 1, k)
        /\ j \in 1 .. Len(s)
    <3>1. /\ sel[t] /\ sel \in Seq(BOOLEAN) /\ t \in 1 .. Len(sel) /\ k \in Nat
          /\ u = RemoveAt(s, k + 1)
      BY <1>2, <1>3, <1>7, <1>12, <2>3
    <3>2. /\ AheadOf(s, sel, t, k) = {s[k + 1]} \cup AheadOf(u, sel, t + 1, k)
          /\ k + 1 \in 1 .. Len(s)
      BY <1>6, <1>7, <3>1, AheadMoves
    <3>3. QED
      BY <1>9, <2>3, <3>2
  <2>7. Ahead' = AheadOf(u, sel, t + 1, k)
    BY <1>11, <2>2, <2>5 DEF Ahead, AheadOf, Selected
  <2>8. x \in Permanents /\ x \in Range(s)
    BY <1>6, <2>3, <2>6 DEF Range
  <2>9. Range(s) \cap Range(coll("creas", 1)) = {}
    BY <1>4, <1>5, Tree DEF All
  <2>10. Range(<<x>> \o coll("creas", 1)) = {x} \cup Range(coll("creas", 1))
    <3>1. PICK w, r : w = <<x>> /\ r = coll("creas", 1)
      OBVIOUS
    <3>2. w \in Seq(Permanents) /\ IsInjective(w) /\ Range(w) = {x}
      BY <2>8, <3>1, Single
    <3>3. r \in Seq(Permanents) /\ IsInjective(r) /\ Range(w) \cap Range(r) = {}
      <4>1. 1 \in 0 .. HT_SIZE("creas") - 1 /\ "creas" \in Tables
        BY <1>4, Tree DEF Tables
      <4>2. IsInjective(r)
        BY <3>1, <4>1, Tree
      <4>3. QED
        BY <1>6, <2>8, <2>9, <3>1, <3>2, <4>2
    <3>4. Range(w \o r) = Range(w) \cup Range(r)
      BY <3>2, <3>3, JoinKeepsOnce
    <3>5. QED
      BY <3>1, <3>2, <3>4
  <2>11. wanted' = wanted
    BY <1>5, <1>10, <2>5, <2>6, <2>7, <2>10, Wanted
  <2>12. board' = board
    <3>1. Range(u) = Range(s) \ {x}
      BY SMTT(30), <1>6, <2>3, <2>6, RemoveKeepsOnce
    <3>2. All("creas", 0)' = Range(s) \ {x} /\ All("creas", 1)' = {x} \cup All("creas", 1)
      BY <2>4, <2>10, <3>1 DEF All
    <3>3. All("creas", 0)' \cup All("creas", 1)' = All("creas", 0) \cup All("creas", 1)
      BY <1>5, <2>8, <3>2 DEF All
    <3>4. All("artos", 0)' = All("artos", 0) /\ All("superfriends", 0)' = All("superfriends", 0)
      BY <2>4 DEF Others, All, Tables
    <3>5. QED
      BY <1>4, <3>3, <3>4, Parts, PartsNext
  <2>13. QED
    BY <1>8, <2>11, <2>12, Stutters
<1>13. CASE ~selected[turn]
  <2>1. UNCHANGED treeVars
    BY <1>13 DEF splice, treeVars
  <2>2. Kept' = k + 1
    BY <1>1, <1>2, <1>11, <1>13, KeptNext
  <2>3. stay' = s /\ attackers' = attackers /\ board' = board
    BY <1>2, <2>1, SameTree
  <2>4. Ahead' = AheadOf(s, sel, t + 1, k + 1)
    BY <1>11, <2>2, <2>3 DEF Ahead, AheadOf, Selected
  <2>5. Ahead' = Ahead
    <3>1. ~sel[t] /\ sel \in Seq(BOOLEAN) /\ t \in 1 .. Len(sel) /\ k \in Nat
      BY <1>2, <1>3, <1>7, <1>13
    <3>2. AheadOf(s, sel, t, k) = AheadOf(s, sel, t + 1, k + 1)
      BY <3>1, AheadStays
    <3>3. QED
      BY <1>9, <2>4, <3>2
  <2>6. wanted' = wanted
    BY <1>10, <2>3, <2>5, Wanted
  <2>7. QED
    BY <1>8, <2>3, <2>6, Stutters
<1>14. QED
  BY <1>12, <1>13

(* The same after a step.                                                  *)
LEMMA WantedNext == wanted' = Range(attackers') \cup Ahead'
<1>1. (wanted = Range(attackers) \cup Ahead)'
  BY Wanted, PTL
<1>2. QED
  BY <1>1

(* The same after a step.                                                  *)
LEMMA WantedAllNext == selected' = <<>> => Ahead' = {}
<1>1. (selected = <<>> => Ahead = {})'
  BY WantedAll, PTL
<1>2. QED
  BY <1>1

(* The last splice has been made: those selected are the attackers.        *)
LEMMA BattleChosen ==
  ASSUME TreeInv, StepInv, ChooseInv, attackersChosen
  PROVE  [B!Next]_(B!vars)
<1>1. /\ doing = "choose" /\ turn \notin DOMAIN selected /\ doing' = "none"
      /\ selected' = <<>> /\ UNCHANGED treeVars
  BY DEF attackersChosen
<1>2. Ahead = {}
  <2>1. selected \in Seq(BOOLEAN) /\ turn \in 1 .. Len(selected) + 1
    BY <1>1 DEF ChooseInv
  <2>2. DOMAIN selected = 1 .. Len(selected) /\ Len(selected) \in Nat
    BY <2>1
  <2>3. \A m \in DOMAIN selected : ~(m >= turn)
    BY <1>1, <2>1, <2>2
  <2>4. QED
    BY <2>3 DEF Ahead
<1>3. board' = board /\ attackers' = attackers
  BY <1>1, SameTree
<1>4. Ahead' = {}
  BY <1>1, WantedAllNext
<1>5. wanted = Range(attackers) /\ wanted' = Range(attackers)
  BY <1>2, <1>3, <1>4, Wanted, WantedNext
<1>6. Attacking = {} /\ Attacking' = Range(attackers)
  BY <1>1, <1>3 DEF Attacking
<1>7. QED
  BY <1>3, <1>5, <1>6, Declares

(* To insert a permanent is to have it enter.                              *)
LEMMA BattleInsert ==
  ASSUME TreeInv, StepInv, NEW c \in Permanents, insert(c)
  PROVE  [B!Next]_(B!vars)
<1>1. /\ step = "main" /\ step' = step /\ doing = "none" /\ doing' = doing
      /\ c \notin board /\ UNCHANGED chooseVars
  BY DEF insert, at
<1>2. step \notin Combat /\ step' \notin Combat /\ selected = <<>> /\ selected' = <<>>
  BY <1>1 DEF Combat, StepInv, chooseVars
<1>3. /\ TreeInv' /\ Others(Table[c])
      /\ coll(Table[c], 0)' = Append(coll(Table[c], 0), c)
  BY TreeInsert
<1>4. attackers = <<>> /\ attackers' = <<>> /\ Range(<<>>) = {}
  BY <1>2, <1>3, Parts, PartsNext DEF Range
<1>5. wanted = {} /\ wanted' = {} /\ Attacking = {} /\ Attacking' = {}
  BY <1>1, <1>2, <1>4, Wanted, WantedNext, WantedAll, WantedAllNext DEF Attacking
<1>6. board' = board \cup {c}
  <2>1. PICK t, s : t = Table[c] /\ s = coll(t, 0)
    OBVIOUS
  <2>2. t \in Tables
    BY <2>1, YggdrasilAssumption
  <2>3. s \in Seq(Permanents) /\ IsInjective(s) /\ Range(s) \subseteq board
    <3>1. 0 \in 0 .. HT_SIZE(t) - 1
      BY <1>2, <2>2, Tree DEF Tables
    <3>2. s \in Seq(Permanents) /\ IsInjective(s)
      BY <2>1, <2>2, <3>1, Tree
    <3>3. Range(s) \subseteq board
      BY <1>2, <2>1, <2>2, Whole DEF All, Tables
    <3>4. QED
      BY <3>2, <3>3
  <2>4. c \notin Range(s)
    BY <1>1, <2>3
  <2>5. Range(Append(s, c)) = Range(s) \cup {c}
    BY <2>3, <2>4, AppendKeepsOnce
  <2>6. All(t, 0)' = All(t, 0) \cup {c}
    BY <1>3, <2>1, <2>5 DEF All
  <2>7. \A u \in Tables \ {t} : All(u, 0)' = All(u, 0)
    BY <1>3, <2>1 DEF Others, All
  <2>8. board = All("artos", 0) \cup All("superfriends", 0) \cup All("creas", 0)
    BY <1>2, Parts
  <2>9. board' = All("artos", 0)' \cup All("superfriends", 0)' \cup All("creas", 0)'
    BY <1>2, <1>3, PartsNext
  <2>10. QED
    BY <2>2, <2>6, <2>7, <2>8, <2>9 DEF Tables
<1>7. QED
  BY <1>1, <1>5, <1>6, Enters

(* To unfold the creatures is nothing on the battlefield.                  *)
LEMMA BattleDeclare ==
  ASSUME TreeInv, StepInv, declareattackersstep
  PROVE  [B!Next]_(B!vars)
<1>1. /\ step = "main" /\ step' = "attackers" /\ doing = "none" /\ doing' = doing
      /\ UNCHANGED chooseVars
  BY DEF declareattackersstep, at
<1>2. step \notin Combat /\ step' \in Combat /\ selected = <<>> /\ selected' = <<>>
  BY <1>1 DEF Combat, StepInv, chooseVars
<1>3. /\ TreeInv' /\ Others("creas")
      /\ coll("creas", 0)' = coll("creas", 0) /\ coll("creas", 1)' = <<>>
  BY TreeDeclare
<1>4. attackers = <<>> /\ attackers' = <<>> /\ Range(<<>>) = {}
  BY <1>2, <1>3, Parts, PartsNext DEF Range
<1>5. wanted = {} /\ wanted' = {} /\ Attacking = {} /\ Attacking' = {}
  BY <1>1, <1>2, <1>4, Wanted, WantedNext, WantedAll, WantedAllNext DEF Attacking
<1>6. board' = board
  <2>1. All("creas", 0)' = All("creas", 0) /\ All("creas", 1)' = {}
    BY <1>3, <1>4 DEF All
  <2>2. All("artos", 0)' = All("artos", 0) /\ All("superfriends", 0)' = All("superfriends", 0)
    BY <1>3 DEF Others, All, Tables
  <2>3. QED
    BY <1>2, <1>3, <2>1, <2>2, Parts, PartsNext
<1>7. QED
  BY <1>5, <1>6, Stutters

(* Either way a combat ends, the board is refolded.                        *)
LEMMA BattleRestate ==
  ASSUME TreeInv, StepInv, step \in Combat, doing # "choose", restate,
         step' \in Steps \ Combat, doing' # "choose", UNCHANGED chooseVars
  PROVE  [B!Next]_(B!vars)
<1>1. selected = <<>> /\ selected' = <<>> /\ step' \notin Combat
  BY DEF StepInv, chooseVars
<1>2. /\ TreeInv' /\ Others("creas")
      /\ coll("creas", 0)' = coll("creas", 0) \o coll("creas", 1)
  BY TreeRestate
<1>3. attackers' = <<>> /\ Range(<<>>) = {}
  BY <1>1, <1>2, PartsNext DEF Range
<1>4. Attacking = Range(attackers) /\ Attacking' = {} /\ wanted = Range(attackers) /\ wanted' = {}
  BY <1>1, <1>3, Wanted, WantedNext, WantedAll, WantedAllNext DEF Attacking
<1>5. board' = board
  <2>1. PICK s, r : s = coll("creas", 0) /\ r = coll("creas", 1)
    OBVIOUS
  <2>2. /\ 0 \in 0 .. HT_SIZE("creas") - 1 /\ 1 \in 0 .. HT_SIZE("creas") - 1
        /\ "creas" \in Tables
    BY Tree DEF Tables
  <2>3. /\ s \in Seq(Permanents) /\ IsInjective(s) /\ r \in Seq(Permanents) /\ IsInjective(r)
    BY <2>1, <2>2, Tree
  <2>4. Range(s) \cap Range(r) = {}
    BY <2>1, Tree DEF All
  <2>5. Range(s \o r) = Range(s) \cup Range(r)
    BY <2>3, <2>4, JoinKeepsOnce
  <2>6. All("creas", 0)' = All("creas", 0) \cup All("creas", 1)
    BY <1>2, <2>1, <2>5 DEF All
  <2>7. All("artos", 0)' = All("artos", 0) /\ All("superfriends", 0)' = All("superfriends", 0)
    BY <1>2 DEF Others, All, Tables
  <2>8. QED
    BY <1>1, <1>2, <2>6, <2>7, Parts, PartsNext
<1>6. QED
  BY <1>4, <1>5, EndsCombat

(* Every step of the board is one of the battlefield, or none.             *)
LEMMA NextBattle == IInv /\ [Next]_vars => [B!Next]_(B!vars)
<1> SUFFICES ASSUME IInv, [Next]_vars PROVE [B!Next]_(B!vars)
  OBVIOUS
<1>0. TreeInv /\ StepInv /\ ChooseInv /\ TreeInv'
  BY NextIInv DEF IInv
<1>1. \A what, from : begin(what, from) => doing' = what
  BY DEF begin
<1>2. ASSUME UNCHANGED treeVars, UNCHANGED chooseVars, doing # "choose", doing' # "choose"
      PROVE  [B!Next]_(B!vars)
  BY <1>2, BattleSame
<1>3. CASE UNCHANGED vars
  BY <1>3, BattleSame DEF vars
<1>4. CASE untapstep
  <2>1. UNCHANGED treeVars /\ UNCHANGED chooseVars /\ doing # "choose" /\ doing' # "choose"
    BY <1>1, <1>4 DEF untapstep, at, over, ends
  <2>2. QED
    BY <1>2, <2>1
<1>5. CASE increment
  BY <1>5, BattleSame DEF increment
<1>6. CASE climb
  BY <1>6, BattleSame DEF climb
<1>7. CASE chooseAttackers
  <2>1. CASE members("creas") = <<>>
    BY <1>7, <2>1, BattleSame DEF chooseAttackers
  <2>2. CASE members("creas") # <<>>
    BY <1>0, <1>7, <2>2, BattleSelect
  <2>3. QED
    BY <2>1, <2>2
<1>8. CASE splice
  BY <1>0, <1>8, BattleSplice
<1>9. CASE attackersChosen
  BY <1>0, <1>9, BattleChosen
<1>10. CASE damagestep
  <2>1. step = "damage" /\ doing # "choose" /\ step \in Combat
    BY <1>0, <1>10, Doing DEF damagestep, at, over, Combat
  <2>2. UNCHANGED chooseVars /\ doing' # "choose"
    BY <1>1, <1>10 DEF damagestep, at, ends
  <2>3. UNCHANGED treeVars \/ (restate /\ step' \in {"cleanup", "sba"})
    BY <1>10 DEF damagestep, ends
  <2>4. CASE UNCHANGED treeVars
    BY <1>2, <2>1, <2>2, <2>4
  <2>5. CASE restate /\ step' \in {"cleanup", "sba"}
    <3>1. step' \in Steps \ Combat
      BY <2>5 DEF Steps, Combat
    <3>2. QED
      BY <1>0, <2>1, <2>2, <2>5, <3>1, BattleRestate
  <2>6. QED
    BY <2>3, <2>4, <2>5
<1>11. CASE cleanupstep
  <2>1. UNCHANGED treeVars /\ UNCHANGED chooseVars /\ doing # "choose" /\ doing' # "choose"
    BY <1>1, <1>11 DEF cleanupstep, at, over, ends
  <2>2. QED
    BY <1>2, <2>1
<1>12. CASE stateBasedActions
  <2>1. UNCHANGED treeVars /\ UNCHANGED chooseVars /\ doing # "choose" /\ doing' # "choose"
    BY <1>1, <1>12 DEF stateBasedActions, at, over, ends
  <2>2. QED
    BY <1>2, <2>1
<1>13. CASE declareattackersstep
  BY <1>0, <1>13, BattleDeclare
<1>14. ASSUME NEW c \in Permanents, insert(c) PROVE [B!Next]_(B!vars)
  BY <1>0, <1>14, BattleInsert
<1>15. QED
  BY <1>3, <1>4, <1>5, <1>6, <1>7, <1>8, <1>9, <1>10, <1>11, <1>12, <1>13, <1>14
  DEF Next, loop

(* The board of tables, lists and iterators implements the battlefield:    *)
(* moving creatures one splice at a time with an iterator that runs over   *)
(* the list it takes them from makes exactly those attack that the player  *)
(* selected, and folding the lists again loses nobody (state_n.h,          *)
(* 4permanents.h).                                                         *)
THEOREM BoardIsBattlefield == Spec => ImplementsBattlefield
<1>1. QED
  BY InitBattle, NextBattle, TreeInvariant, PTL DEF Spec, ImplementsBattlefield, B!Spec
-----------------------------------------------------------------------------
(* The cards on the board: decks read from their texts (Oracle.tla).       *)
(*                                                                         *)
(* What is inductive relates the ability that is read to the effect that   *)
(* is read: every entry of its table is the target of an effect, which may *)
(* be the one whose parameters are not yet all there, and that one has the *)
(* parameters that what it still wants has left it.                        *)

(* A sequence, of whatever it holds.                                       *)
IsSeq(s) == s \in Seq(Range(s))

(* Its length, and where it is defined.                                    *)
LEMMA SeqFacts ==
  ASSUME NEW s, IsSeq(s)
  PROVE  Len(s) \in Nat /\ DOMAIN s = 1 .. Len(s) /\ (s = <<>> <=> Len(s) = 0)
<1>1. PICK S : S = Range(s) /\ s \in Seq(S)
  BY DEF IsSeq
<1>2. Len(s) \in Nat /\ DOMAIN s = 1 .. Len(s)
  BY <1>1
<1>3. s = <<>> <=> Len(s) = 0
  BY <1>1, EmptySeq
<1>4. QED
  BY <1>2, <1>3

(* Whatever is a sequence is one of what it holds.                         *)
LEMMA SeqIsSeq == ASSUME NEW S, NEW s \in Seq(S) PROVE IsSeq(s)
<1>1. \A i \in 1 .. Len(s) : s[i] \in Range(s)
  BY DEF Range
<1>2. Len(s) \in Nat /\ s \in [1 .. Len(s) -> S] /\ DOMAIN s = 1 .. Len(s)
  BY LenProperties
<1>3. s \in [1 .. Len(s) -> Range(s)]
  BY <1>1, <1>2
<1>4. s \in Seq(Range(s))
  BY <1>2, <1>3, SeqDef
<1>5. QED
  BY <1>4 DEF IsSeq

(* A function on the numbers up to k is one.                               *)
LEMMA SeqUpTo ==
  ASSUME NEW k \in Nat, NEW S, NEW s \in [1 .. k -> S]
  PROVE  IsSeq(s) /\ Len(s) = k /\ DOMAIN s = 1 .. k
<1>1. s \in Seq(S)
  BY SeqDef
<1>2. Len(s) = k
  <2>1. DOMAIN s = 1 .. k /\ DOMAIN s = 1 .. Len(s) /\ Len(s) \in Nat
    BY <1>1, LenProperties
  <2>2. QED
    BY <2>1
<1>3. QED
  BY <1>1, <1>2, SeqIsSeq

(* The empty one.                                                          *)
LEMMA NoneIsSeq == IsSeq(<<>>) /\ Len(<<>>) = 0 /\ DOMAIN <<>> = {}
<1>1. <<>> \in Seq({})
  BY EmptySeq
<1>2. IsSeq(<<>>)
  BY <1>1, SeqIsSeq
<1>3. Len(<<>>) = 0
  BY EmptySeq
<1>4. DOMAIN <<>> = 1 .. 0
  BY <1>2, <1>3, SeqFacts
<1>5. QED
  BY <1>2, <1>3, <1>4

(* A sequence of one.                                                      *)
LEMMA OneIsSeq == ASSUME NEW x PROVE IsSeq(<<x>>) /\ Len(<<x>>) = 1 /\ <<x>>[1] = x
<1>1. <<x>> \in Seq({x})
  OBVIOUS
<1>2. QED
  BY <1>1, SeqIsSeq

(* A sequence of two.                                                      *)
LEMMA TwoIsSeq ==
  ASSUME NEW x, NEW y
  PROVE  IsSeq(<<x, y>>) /\ Len(<<x, y>>) = 2 /\ <<x, y>>[1] = x /\ <<x, y>>[2] = y
<1>1. <<x, y>> \in Seq({x, y})
  OBVIOUS
<1>2. QED
  BY <1>1, SeqIsSeq

(* t is s with x behind it, ...                                            *)
Appended(t, s, x) ==
  /\ IsSeq(t) /\ Len(t) = Len(s) + 1
  /\ \A i \in 1 .. Len(s) : t[i] = s[i]
  /\ t[Len(s) + 1] = x

(* So does Append.                                                         *)
LEMMA AppendIs ==
  ASSUME NEW s, IsSeq(s), NEW x PROVE Appended(Append(s, x), s, x)
<1>1. PICK S : S = Range(s) \cup {x}
  OBVIOUS
<1>2. s \in Seq(S) /\ x \in S
  BY <1>1, SeqMonotonic DEF IsSeq
<1>3. /\ Append(s, x) \in Seq(S) /\ Len(Append(s, x)) = Len(s) + 1
      /\ \A i \in 1 .. Len(s) : Append(s, x)[i] = s[i]
      /\ Append(s, x)[Len(s) + 1] = x
  BY <1>2, AppendProperties
<1>4. QED
  BY <1>3, SeqIsSeq DEF Appended

(* ... with x before it, ...                                               *)
Prepended(t, s, x) ==
  /\ IsSeq(t) /\ Len(t) = Len(s) + 1
  /\ t[1] = x
  /\ \A i \in 1 .. Len(s) : t[i + 1] = s[i]

(* So does a sequence of one in front of it.                               *)
LEMMA PrependIs ==
  ASSUME NEW s, IsSeq(s), NEW x PROVE Prepended(<<x>> \o s, s, x)
<1>1. PICK S : S = Range(s) \cup {x}
  OBVIOUS
<1>2. s \in Seq(S) /\ <<x>> \in Seq(S) /\ Len(<<x>>) = 1 /\ <<x>>[1] = x
  BY <1>1, SeqMonotonic DEF IsSeq
<1>3. PICK t : t = <<x>> \o s
  OBVIOUS
<1>4. /\ t \in Seq(S) /\ Len(t) = 1 + Len(s)
      /\ \A i \in 1 .. 1 + Len(s) : t[i] = IF i <= 1 THEN <<x>>[i] ELSE s[i - 1]
  BY <1>2, <1>3, ConcatProperties
<1>5. Len(s) \in Nat
  BY SeqFacts
<1>6. \A i \in 1 .. Len(s) : t[i + 1] = s[i]
  <2>1. SUFFICES ASSUME NEW i \in 1 .. Len(s) PROVE t[i + 1] = s[i]
    OBVIOUS
  <2>2. i + 1 \in 1 .. 1 + Len(s) /\ ~(i + 1 <= 1) /\ (i + 1) - 1 = i
    BY <1>5
  <2>3. QED
    BY <1>4, <2>2
<1>7. t[1] = x
  <2>1. 1 \in 1 .. 1 + Len(s)
    BY <1>5
  <2>2. QED
    BY <1>2, <1>4, <2>1
<1>8. IsSeq(t) /\ Len(t) = Len(s) + 1
  BY <1>4, <1>5, SeqIsSeq
<1>9. Prepended(t, s, x)
  BY <1>6, <1>7, <1>8 DEF Prepended
<1>10. QED
  BY <1>3, <1>9

(* ... or with x for its last.                                             *)
LastIs(t, s, x) ==
  /\ IsSeq(t) /\ Len(t) = Len(s) /\ t # <<>>
  /\ \A i \in 1 .. Len(s) : i # Len(s) => t[i] = s[i]
  /\ t[Len(s)] = x /\ Last(t) = x

(* As the reader of the costs puts it: all but the last, and x.            *)
LEMMA FrontAppendIs ==
  ASSUME NEW s, IsSeq(s), s # <<>>, NEW x PROVE LastIs(Append(Front(s), x), s, x)
<1>1. PICK n \in Nat : n = Len(s) /\ n # 0
  BY SeqFacts
<1>2. PICK f : f = SubSeq(s, 1, n - 1)
  OBVIOUS
<1>3. \A i \in 1 .. n - 1 : s[i] \in Range(s)
  BY <1>1, SeqFacts DEF Range
<1>4. /\ f \in Seq(Range(s)) /\ Len(f) = IF 1 <= n - 1 THEN (n - 1) - 1 + 1 ELSE 0
      /\ \A i \in 1 .. (n - 1) - 1 + 1 : f[i] = s[1 + i - 1]
  BY <1>2, <1>3, SubSeqProperties
<1>5. IsSeq(f) /\ Len(f) = n - 1
  BY <1>1, <1>4, SeqIsSeq
<1>6. \A i \in 1 .. n - 1 : f[i] = s[i]
  <2>1. SUFFICES ASSUME NEW i \in 1 .. n - 1 PROVE f[i] = s[i]
    OBVIOUS
  <2>2. i \in 1 .. (n - 1) - 1 + 1 /\ 1 + i - 1 = i
    BY <1>1
  <2>3. QED
    BY <1>4, <2>2
<1>7. PICK t : t = Append(f, x)
  OBVIOUS
<1>8. Appended(t, f, x)
  BY <1>5, <1>7, AppendIs
<1>9. /\ IsSeq(t) /\ Len(t) = n /\ t[n] = x
      /\ \A i \in 1 .. n - 1 : t[i] = s[i]
  BY <1>1, <1>5, <1>6, <1>8 DEF Appended
<1>10. t # <<>> /\ Last(t) = x
  BY <1>1, <1>9, SeqFacts DEF Last
<1>11. \A i \in 1 .. n : i # n => t[i] = s[i]
  BY <1>1, <1>9
<1>12. t = Append(Front(s), x)
  BY <1>1, <1>2, <1>7 DEF Front
<1>13. QED
  BY <1>1, <1>9, <1>10, <1>11, <1>12 DEF LastIs

(* As the readers of an ability put it.                                    *)
LEMMA ExceptLastIs ==
  ASSUME NEW s, IsSeq(s), s # <<>>, NEW x, NEW t,
         t = [s EXCEPT ![Len(s)] = x]
  PROVE  LastIs(t, s, x)
<1>1. PICK n \in Nat : n = Len(s) /\ n # 0 /\ DOMAIN s = 1 .. n
  BY SeqFacts
<1>2. n \in 1 .. n
  BY <1>1
<1>3. DOMAIN t = 1 .. n /\ \A i \in 1 .. n : t[i] = IF i = n THEN x ELSE s[i]
  BY <1>1, <1>2, Zenon
<1>4. t \in [1 .. n -> Range(s) \cup {x}]
  <2>1. \A i \in 1 .. n : t[i] \in Range(s) \cup {x}
    BY <1>1, <1>3 DEF Range
  <2>2. t = [i \in 1 .. n |-> t[i]]
    <3>1. t = [i \in DOMAIN s |-> IF i = n THEN x ELSE s[i]]
      BY <1>1, Zenon
    <3>2. QED
      BY <1>1, <1>3, <3>1
  <2>3. QED
    BY <2>1, <2>2
<1>5. IsSeq(t) /\ Len(t) = n
  BY <1>4, SeqUpTo
<1>6. t # <<>> /\ Last(t) = x
  BY <1>1, <1>2, <1>3, <1>5, SeqFacts DEF Last
<1>7. QED
  BY <1>1, <1>2, <1>3, <1>5, <1>6 DEF LastIs

OracleFields  == {"name", "type", "underlying", "cost", "actabs", "stats", "flavor"}
AbilityFields == {"cost", "tapsymbol", "ismana", "effects", "slots"}

(* t is the oracle o with other abilities: of these and the numbers alone  *)
(* there is anything to say.                                               *)
HasAbilities(t, o, abs) ==
  DOMAIN t = OracleFields /\ t.actabs = abs /\ t.stats = o.stats

(* Changes of the other fields.                                            *)
LEMMA FieldsChange ==
  ASSUME NEW o, DOMAIN o = OracleFields, NEW x, NEW y
  PROVE  /\ HasAbilities([o EXCEPT !.name = x], o, o.actabs)
         /\ HasAbilities([o EXCEPT !.type = x, !.underlying = y], o, o.actabs)
         /\ HasAbilities([o EXCEPT !.cost = x], o, o.actabs)
         /\ HasAbilities([o EXCEPT !.flavor = x], o, o.actabs)
         /\ HasAbilities(o, o, o.actabs)
         /\ HasAbilities([o EXCEPT !.actabs = x], o, x)
<1>1. HasAbilities([o EXCEPT !.name = x], o, o.actabs)
  BY DEF HasAbilities, OracleFields
<1>2. HasAbilities([o EXCEPT !.type = x, !.underlying = y], o, o.actabs)
  BY DEF HasAbilities, OracleFields
<1>3. HasAbilities([o EXCEPT !.cost = x], o, o.actabs)
  BY DEF HasAbilities, OracleFields
<1>4. HasAbilities([o EXCEPT !.flavor = x], o, o.actabs)
  BY DEF HasAbilities, OracleFields
<1>5. HasAbilities(o, o, o.actabs)
  BY DEF HasAbilities
<1>6. HasAbilities([o EXCEPT !.actabs = x], o, x)
  BY DEF HasAbilities, OracleFields
<1>7. QED
  BY <1>1, <1>2, <1>3, <1>4, <1>5, <1>6

(* Other abilities.                                                        *)
LEMMA AbilitiesChange ==
  ASSUME NEW o, DOMAIN o = OracleFields, NEW x, NEW t, t = [o EXCEPT !.actabs = x]
  PROVE  HasAbilities(t, o, x)
BY DEF HasAbilities, OracleFields

(* An ability with another cost, with what it needs, ...                   *)
LEMMA AbilityChanges ==
  ASSUME NEW a, DOMAIN a = AbilityFields, NEW x, NEW t,
         \/ t = [a EXCEPT !.cost = x]
         \/ t = [a EXCEPT !.tapsymbol = TRUE]
         \/ t = [a EXCEPT !.ismana = x] /\ x \in BOOLEAN
  PROVE  /\ DOMAIN t = AbilityFields /\ t.effects = a.effects /\ t.slots = a.slots
         /\ a.tapsymbol \in BOOLEAN => t.tapsymbol \in BOOLEAN
         /\ a.ismana \in BOOLEAN => t.ismana \in BOOLEAN
<1>1. CASE t = [a EXCEPT !.cost = x]
  BY <1>1 DEF AbilityFields
<1>2. CASE t = [a EXCEPT !.tapsymbol = TRUE]
  BY <1>2 DEF AbilityFields
<1>3. CASE t = [a EXCEPT !.ismana = x] /\ x \in BOOLEAN
  BY <1>3 DEF AbilityFields
<1>4. QED
  BY <1>1, <1>2, <1>3

(* The ability that is read, which is the last, changes a field.           *)
LEMMA LastChanges ==
  ASSUME NEW o, DOMAIN o = OracleFields, NEW x, IsSeq(o.actabs), o.actabs # <<>>
  PROVE  LET s == o.actabs
             n == Len(s)
         IN  /\ [o EXCEPT !.actabs[n].ismana = x]
                  = [o EXCEPT !.actabs = [s EXCEPT ![n] = [s[n] EXCEPT !.ismana = x]]]
             /\ [o EXCEPT !.actabs[n].slots = x]
                  = [o EXCEPT !.actabs = [s EXCEPT ![n] = [s[n] EXCEPT !.slots = x]]]
             /\ [o EXCEPT !.actabs[n].effects = <<x>> \o @]
                  = [o EXCEPT !.actabs =
                       [s EXCEPT ![n] = [s[n] EXCEPT !.effects = <<x>> \o s[n].effects]]]
BY DEF OracleFields

(* A parameter of an effect names an entry of the table of its ability, or *)
(* is one of the three that need no entry.                                 *)
IsParam(x, table) == x \in DOMAIN table \cup 253 .. 255

IsEffect(e, table) ==
  IsSeq(e.params) /\ Len(e.params) \in 1 .. 2 /\ IsParam(e.params[1], table)

IsDense(table) ==
  \A k, l \in DOMAIN table : SameSlot(table[k], table[l]) => k = l

IsAbility(a) ==
  /\ DOMAIN a = AbilityFields /\ a.tapsymbol \in BOOLEAN /\ a.ismana \in BOOLEAN
  /\ IsSeq(a.slots) /\ IsDense(a.slots)
  /\ IsSeq(a.effects) /\ \A n \in DOMAIN a.effects : IsEffect(a.effects[n], a.slots)

AreAbilities(abs) == IsSeq(abs) /\ \A n \in DOMAIN abs : IsAbility(abs[n])

IsOracle(c) == DOMAIN c = OracleFields /\ AreAbilities(c.actabs) /\ IsSeq(c.stats)

(* The functions that read an ability, and those that read a line.         *)
AbilityPcs == {"readCosts", "readActAb", "readAtomEffect", "readAbilityParameter"}
LinePcs    == AbilityPcs \cup {"name", "type", "cost", "readAll", "section",
                               "sectionEnd", "readArray", "stats"}

TableOf(abs) == IF abs = <<>> THEN <<>> ELSE Last(abs).slots

(* An effect that has been read has the k-th entry for its target.         *)
Targets(e, k) == e.params # <<>> /\ e.params[1] = k
IsTarget(abs, k) == \E n \in DOMAIN Last(abs).effects : Targets(Last(abs).effects[n], k)

(* What an effect still wants, behind its first n parameters.              *)
Wants(n) ==
  CASE n = 0 -> {<<"target">>, <<"target", "nonnegative">>, <<"target", "number">>,
                 <<"target", "added_mana">>}
    [] n = 1 -> {<<>>, <<"nonnegative">>, <<"number">>, <<"added_mana">>}
    [] n = 2 -> {<<>>}

(* The cases of it.                                                        *)
LEMMA WantsAre ==
  /\ Wants(0) = {<<"target">>, <<"target", "nonnegative">>, <<"target", "number">>,
                 <<"target", "added_mana">>}
  /\ Wants(1) = {<<>>, <<"nonnegative">>, <<"number">>, <<"added_mana">>}
  /\ Wants(2) = {<<>>}
BY DEF Wants

(* The next parameter: what is wanted first, and only first, is a target. *)
LEMMA WantsTaken ==
  ASSUME NEW n \in 0 .. 2, NEW w \in Wants(n), w # <<>>
  PROVE  n # 2 /\ Tail(w) \in Wants(n + 1) /\ (Head(w) = "target" <=> n = 0)
<1>1. /\ Tail(<<"target">>) = <<>> /\ Tail(<<"target", "nonnegative">>) = <<"nonnegative">>
      /\ Tail(<<"target", "number">>) = <<"number">>
      /\ Tail(<<"target", "added_mana">>) = <<"added_mana">>
  OBVIOUS
<1>2. /\ Tail(<<"nonnegative">>) = <<>>
      /\ Tail(<<"number">>) = <<>> /\ Tail(<<"added_mana">>) = <<>>
  OBVIOUS
<1>3. /\ Head(<<"target">>) = "target" /\ Head(<<"target", "nonnegative">>) = "target"
      /\ Head(<<"target", "number">>) = "target"
      /\ Head(<<"target", "added_mana">>) = "target"
      /\ Head(<<"nonnegative">>) = "nonnegative"
      /\ Head(<<"number">>) = "number" /\ Head(<<"added_mana">>) = "added_mana"
  OBVIOUS
<1>4. CASE n = 0
  <2>1. w \in {<<"target">>, <<"target", "nonnegative">>, <<"target", "number">>,
                 <<"target", "added_mana">>}
    BY ONLY w \in Wants(n), WantsAre, <1>4
  <2>2. Tail(w) \in {<<>>, <<"nonnegative">>, <<"number">>, <<"added_mana">>} /\ Head(w) = "target"
    BY ONLY <2>1, <1>1, <1>3, Zenon
  <2>3. n + 1 = 1
    BY <1>4
  <2>4. QED
    BY <1>4, <2>2, <2>3, WantsAre
<1>5. CASE n = 1
  <2>1. w \in {<<"nonnegative">>, <<"number">>, <<"added_mana">>}
    BY ONLY w \in Wants(n), w # <<>>, WantsAre, <1>5
  <2>2. Tail(w) = <<>> /\ Head(w) # "target"
    BY ONLY <2>1, <1>2, <1>3, Zenon
  <2>3. n + 1 = 2
    BY <1>5
  <2>4. QED
    BY <1>5, <2>2, <2>3, WantsAre
<1>6. CASE n = 2
  BY <1>6, WantsAre
<1>7. QED
  BY <1>4, <1>5, <1>6

(* What wants nothing has a parameter.                                     *)
LEMMA NothingWanted == ASSUME NEW n, <<>> \in Wants(n) PROVE n # 0
<1>1. CASE n = 0
  <2>1. <<>> \notin {<<"target">>, <<"target", "nonnegative">>, <<"target", "number">>,
                 <<"target", "added_mana">>}
    OBVIOUS
  <2>2. QED
    BY <1>1, <2>1, WantsAre
<1>2. QED
  BY <1>1
AtomFields == {"type", "wants", "params"}

IsAtom(a, table) ==
  /\ Len(a.params) \in 0 .. 2 /\ a.wants \in Wants(Len(a.params))
  /\ a.params # <<>> => IsParam(a.params[1], table)

(* The oracle o and the effect a, while p reads them: every entry of the   *)
(* table is the target of an effect of the ability, the one that is read   *)
(* included as long as it is read.                                         *)
IsReading(o, a, p) ==
  /\ IsOracle(o) /\ DOMAIN a = AtomFields /\ IsSeq(a.params)
  /\ p \in AbilityPcs => o.actabs # <<>>
  /\ p = "readAbilityParameter" => IsAtom(a, TableOf(o.actabs))
  /\ \A k \in DOMAIN TableOf(o.actabs) :
       \/ IsTarget(o.actabs, k)
       \/ Targets(a, k) /\ (p \in LinePcs => p = "readAbilityParameter")

(* Where nothing is read any more, what has been read stays.               *)
LEMMA ReadingEnded ==
  ASSUME NEW o, NEW a, NEW p, NEW q, IsReading(o, a, p), q \notin LinePcs
  PROVE  IsReading(o, a, q)
BY DEF IsReading, LinePcs, AbilityPcs

(* Other fields of the oracle.                                             *)
LEMMA ReadingFields ==
  ASSUME NEW o, NEW a, NEW p, NEW q, IsReading(o, a, p), NEW t, HasAbilities(t, o, o.actabs),
         p \in LinePcs \ AbilityPcs, q \in LinePcs \ AbilityPcs
  PROVE  IsReading(t, a, q)
BY DEF IsReading, LinePcs, AbilityPcs, HasAbilities, IsOracle

(* No ability has been read.                                               *)
LEMMA ReadingBegins ==
  ASSUME NEW t, DOMAIN t = OracleFields, t.actabs = <<>>, IsSeq(t.stats),
         NEW a, DOMAIN a = AtomFields, IsSeq(a.params), NEW q, q \notin AbilityPcs
  PROVE  IsReading(t, a, q)
<1>1. DOMAIN TableOf(t.actabs) = {}
  BY NoneIsSeq DEF TableOf
<1>2. AreAbilities(t.actabs)
  BY NoneIsSeq DEF AreAbilities
<1>3. q # "readAbilityParameter"
  BY DEF AbilityPcs
<1>4. QED
  BY <1>1, <1>2, <1>3 DEF IsReading, IsOracle

(* The last ability is another one, ...                                    *)
LEMMA LastReplaced ==
  ASSUME NEW abs, AreAbilities(abs), NEW x, IsAbility(x), NEW t, LastIs(t, abs, x)
  PROVE  AreAbilities(t) /\ t # <<>> /\ Last(t) = x
<1>1. DOMAIN t = 1 .. Len(abs)
  BY SeqFacts DEF LastIs
<1>2. DOMAIN abs = 1 .. Len(abs)
  BY SeqFacts DEF AreAbilities
<1>3. ASSUME NEW n \in DOMAIN t PROVE IsAbility(t[n])
  BY <1>1, <1>2 DEF LastIs, AreAbilities
<1>4. QED
  BY <1>3 DEF LastIs, AreAbilities

(* ... or one that has read nothing yet.                                   *)
LEMMA NewAbilityIs == IsAbility(NewAbility)
<1>1. /\ DOMAIN NewAbility = AbilityFields /\ NewAbility.tapsymbol = FALSE
      /\ NewAbility.ismana = FALSE /\ NewAbility.slots = <<>> /\ NewAbility.effects = <<>>
  BY DEF NewAbility, AbilityFields
<1>2. IsDense(<<>>)
  BY NoneIsSeq DEF IsDense
<1>3. QED
  BY <1>1, <1>2, NoneIsSeq DEF IsAbility

(* It is put behind the others.                                            *)
LEMMA AbilityAdded ==
  ASSUME NEW abs, AreAbilities(abs), NEW x, IsAbility(x), NEW t, Appended(t, abs, x)
  PROVE  AreAbilities(t) /\ t # <<>> /\ Last(t) = x
<1>1. /\ DOMAIN t = 1 .. Len(abs) + 1 /\ Len(abs) \in Nat /\ Len(t) = Len(abs) + 1
      /\ t # <<>> /\ IsSeq(t)
  BY SeqFacts DEF Appended, AreAbilities
<1>2. DOMAIN abs = 1 .. Len(abs)
  BY SeqFacts DEF AreAbilities
<1>3. ASSUME NEW n \in DOMAIN t PROVE IsAbility(t[n])
  <2>1. CASE n = Len(abs) + 1
    BY <2>1 DEF Appended
  <2>2. CASE n # Len(abs) + 1
    <3>1. n \in 1 .. Len(abs)
      BY <1>1, <2>2
    <3>2. QED
      BY <1>2, <3>1 DEF Appended, AreAbilities
  <2>3. QED
    BY <2>1, <2>2
<1>4. Last(t) = x
  BY <1>1 DEF Last, Appended
<1>5. QED
  BY <1>1, <1>3, <1>4 DEF AreAbilities

(* The ability that is read, and its table.                                *)
LEMMA LastIsAbility ==
  ASSUME NEW abs, AreAbilities(abs), abs # <<>>
  PROVE  IsAbility(Last(abs)) /\ Last(abs) = abs[Len(abs)] /\ TableOf(abs) = Last(abs).slots
<1>1. Len(abs) \in DOMAIN abs
  BY SeqFacts DEF AreAbilities
<1>2. QED
  BY <1>1 DEF AreAbilities, Last, TableOf

(* A cost, or whether it is mana that is made: table and effects stay.     *)
LEMMA ReadingCosts ==
  ASSUME NEW o, NEW a, NEW p, IsReading(o, a, p), p \in LinePcs, p # "readAbilityParameter",
         o.actabs # <<>>,
         NEW x, DOMAIN x = AbilityFields, x.tapsymbol \in BOOLEAN, x.ismana \in BOOLEAN,
         x.slots = Last(o.actabs).slots, x.effects = Last(o.actabs).effects,
         NEW abs, LastIs(abs, o.actabs, x), NEW t, HasAbilities(t, o, abs),
         NEW q, q \in {"readCosts", "readActAb", "readAtomEffect"}
  PROVE  IsReading(t, a, q)
<1>1. AreAbilities(o.actabs) /\ DOMAIN o = OracleFields /\ IsSeq(o.stats)
  BY DEF IsReading, IsOracle
<1>2. IsAbility(x)
  BY <1>1, LastIsAbility DEF IsAbility
<1>3. AreAbilities(abs) /\ abs # <<>> /\ Last(abs) = x
  BY <1>1, <1>2, LastReplaced
<1>4. TableOf(abs) = TableOf(o.actabs)
  BY <1>3 DEF TableOf
<1>5. IsOracle(t) /\ t.actabs = abs
  BY <1>1, <1>3 DEF HasAbilities, IsOracle
<1>6. ASSUME NEW k \in DOMAIN TableOf(o.actabs) PROVE IsTarget(abs, k)
  BY <1>3 DEF IsTarget, IsReading
<1>7. q # "readAbilityParameter"
  OBVIOUS
<1>8. QED
  BY <1>3, <1>4, <1>5, <1>6, <1>7 DEF IsReading

(* An ability begins, whose table is empty.                                *)
LEMMA ReadingNewAbility ==
  ASSUME NEW o, NEW a, NEW p, IsReading(o, a, p), NEW t,
         HasAbilities(t, o, Append(o.actabs, NewAbility))
  PROVE  IsReading(t, a, "readCosts") /\ t.actabs # <<>> /\ Last(t.actabs) = NewAbility
<1>1. AreAbilities(o.actabs) /\ DOMAIN o = OracleFields /\ IsSeq(o.stats)
      /\ DOMAIN a = AtomFields /\ IsSeq(a.params)
  BY DEF IsReading, IsOracle
<1>2. PICK abs : abs = Append(o.actabs, NewAbility)
  OBVIOUS
<1>3. Appended(abs, o.actabs, NewAbility)
  BY <1>1, <1>2, AppendIs DEF AreAbilities
<1>4. AreAbilities(abs) /\ abs # <<>> /\ Last(abs) = NewAbility
  BY <1>1, <1>3, NewAbilityIs, AbilityAdded
<1>5. TableOf(abs) = <<>>
  BY <1>4 DEF TableOf, NewAbility
<1>6. IsOracle(t) /\ t.actabs = abs
  BY <1>1, <1>2, <1>4 DEF HasAbilities, IsOracle
<1>7. QED
  BY <1>1, <1>4, <1>5, <1>6, NoneIsSeq DEF IsReading

(* An effect begins.                                                       *)
LEMMA ReadingAtom ==
  ASSUME NEW o, NEW a, IsReading(o, a, "readAtomEffect"), NEW b,
         DOMAIN b = AtomFields, b.params = <<>>, b.wants \in Wants(0)
  PROVE  IsReading(o, b, "readAbilityParameter")
<1>1. IsAtom(b, TableOf(o.actabs)) /\ IsSeq(b.params)
  BY NoneIsSeq DEF IsAtom
<1>2. "readAtomEffect" \in LinePcs /\ "readAtomEffect" \in AbilityPcs
  BY DEF LinePcs, AbilityPcs
<1>3. QED
  BY <1>1, <1>2 DEF IsReading

(* A parameter is read.                                                    *)
Taken(b, a, x) ==
  DOMAIN b = AtomFields /\ b.wants = Tail(a.wants) /\ b.params = Append(a.params, x)

(* The effect stays one whose table may have become wider.                 *)
LEMMA ParamTaken ==
  ASSUME NEW a, IsSeq(a.params), NEW table, NEW wider, IsAtom(a, table), a.wants # <<>>,
         NEW x, a.params = <<>> => IsParam(x, wider),
         DOMAIN table \subseteq DOMAIN wider,
         NEW b, Taken(b, a, x)
  PROVE  /\ IsSeq(b.params) /\ IsAtom(b, wider)
         /\ \A k : Targets(a, k) => Targets(b, k)
         /\ a.params = <<>> => Targets(b, x)
<1>1. PICK n \in 0 .. 2 : n = Len(a.params) /\ a.wants \in Wants(n)
  BY DEF IsAtom
<1>2. /\ IsSeq(b.params) /\ Len(b.params) = n + 1
      /\ \A i \in 1 .. n : b.params[i] = a.params[i]
      /\ b.params[n + 1] = x
  BY <1>1, AppendIs DEF Taken, Appended
<1>3. (n = 0 \/ n = 1) /\ b.wants \in Wants(n + 1)
  <2>1. n # 2 /\ Tail(a.wants) \in Wants(n + 1)
    BY <1>1, WantsTaken
  <2>2. QED
    BY <2>1 DEF Taken
<1>4. b.wants \in Wants(n + 1)
  BY <1>3
<1>5. a.params = <<>> <=> n = 0
  BY <1>1, SeqFacts
<1>6. b.params # <<>>
  BY <1>2, SeqFacts
<1>7. IsParam(b.params[1], wider)
  <2>1. CASE n = 0
    BY <1>2, <1>5, <2>1
  <2>2. CASE n = 1
    BY <1>2, <1>5, <2>2 DEF IsAtom, IsParam
  <2>3. QED
    BY <1>3, <2>1, <2>2
<1>8. IsAtom(b, wider)
  BY <1>2, <1>3, <1>4, <1>7 DEF IsAtom
<1>9. ASSUME NEW k, Targets(a, k) PROVE Targets(b, k)
  BY <1>2, <1>3, <1>5, <1>6, <1>9 DEF Targets
<1>10. a.params = <<>> => Targets(b, x)
  BY <1>2, <1>5, <1>6 DEF Targets
<1>11. QED
  BY <1>2, <1>8, <1>9, <1>10

(* What is wanted first is a target.                                       *)
LEMMA TargetFirst ==
  ASSUME NEW a, NEW table, IsSeq(a.params), IsAtom(a, table), a.wants # <<>>
  PROVE  Head(a.wants) = "target" <=> a.params = <<>>
<1>1. PICK n \in 0 .. 2 : n = Len(a.params) /\ a.wants \in Wants(n)
  BY DEF IsAtom
<1>2. a.params = <<>> <=> n = 0
  BY <1>1, SeqFacts
<1>3. QED
  BY <1>1, <1>2, WantsTaken

(* The parameter is no new target.                                         *)
LEMMA ReadingParam ==
  ASSUME NEW o, NEW a, IsReading(o, a, "readAbilityParameter"), a.wants # <<>>,
         NEW x, a.params = <<>> => x \in 253 .. 255, NEW b, Taken(b, a, x)
  PROVE  IsReading(o, b, "readAbilityParameter")
<1>1. IsSeq(a.params) /\ IsAtom(a, TableOf(o.actabs))
  BY DEF IsReading
<1>2. /\ IsSeq(b.params) /\ IsAtom(b, TableOf(o.actabs))
      /\ \A k : Targets(a, k) => Targets(b, k)
  BY <1>1, ParamTaken DEF IsParam
<1>3. DOMAIN b = AtomFields
  BY DEF Taken
<1>4. QED
  BY <1>2, <1>3 DEF IsReading

(* The entry of a target in a table, which gets one if it has none.        *)
PlaceIn(table, t) ==
  LET same == {k \in DOMAIN table : SameSlot(table[k], t)}
  IN  IF same = {} THEN Len(table) + 1 ELSE Min(same)
Widened(table, t) == IF PlaceIn(table, t) > Len(table) THEN Append(table, t) ELSE table

(* It stays dense, the target has its place in it, and nothing else is     *)
(* new.                                                                    *)
LEMMA TableWidened ==
  ASSUME NEW table, IsSeq(table), IsDense(table), NEW t
  PROVE  LET w == Widened(table, t)
             x == PlaceIn(table, t)
         IN  /\ IsSeq(w) /\ IsDense(w)
             /\ x \in DOMAIN w
             /\ DOMAIN table \subseteq DOMAIN w
             /\ \A k \in DOMAIN w : k \in DOMAIN table \/ k = x
<1>1. PICK w, x : w = Widened(table, t) /\ x = PlaceIn(table, t)
  OBVIOUS
<1>2. PICK n \in Nat : n = Len(table) /\ DOMAIN table = 1 .. n
  BY SeqFacts
<1>3. PICK same : same = {k \in DOMAIN table : SameSlot(table[k], t)}
  OBVIOUS
<1>4. CASE same = {}
  <2>1. x = n + 1 /\ w = Append(table, t)
    BY <1>1, <1>2, <1>3, <1>4 DEF PlaceIn, Widened
  <2>2. Appended(w, table, t)
    BY <2>1, AppendIs
  <2>3. IsSeq(w) /\ DOMAIN w = 1 .. n + 1
    BY <1>2, <2>2, SeqFacts DEF Appended
  <2>4. w[n + 1] = t /\ \A k \in 1 .. n : w[k] = table[k]
    BY <1>2, <2>2 DEF Appended
  <2>5. ASSUME NEW k \in 1 .. n + 1, NEW l \in 1 .. n + 1, SameSlot(w[k], w[l])
        PROVE  k = l
    <3>1. CASE k = n + 1 /\ l # n + 1
      <4>1. l \in 1 .. n
        BY <3>1
      <4>2. SameSlot(table[l], t)
        BY <2>4, <2>5, <3>1, <4>1 DEF SameSlot
      <4>3. QED
        BY <1>2, <1>3, <1>4, <4>1, <4>2
    <3>2. CASE k # n + 1 /\ l = n + 1
      <4>1. k \in 1 .. n
        BY <3>2
      <4>2. SameSlot(table[k], t)
        BY <2>4, <2>5, <3>2, <4>1
      <4>3. QED
        BY <1>2, <1>3, <1>4, <4>1, <4>2
    <3>3. CASE k # n + 1 /\ l # n + 1
      <4>1. k \in 1 .. n /\ l \in 1 .. n
        BY <3>3
      <4>2. QED
        BY <1>2, <2>4, <2>5, <4>1 DEF IsDense
    <3>4. QED
      BY <3>1, <3>2, <3>3
  <2>6. IsDense(w)
    BY <2>3, <2>5 DEF IsDense
  <2>7. QED
    BY <1>1, <1>2, <2>1, <2>3, <2>6
<1>5. CASE same # {}
  <2>1. x = Min(same)
    BY <1>1, <1>3, <1>5 DEF PlaceIn
  <2>2. same \in SUBSET Nat
    BY <1>2, <1>3
  <2>3. x \in 1 .. n
    BY <1>2, <1>3, <1>5, <2>1, <2>2, LeastExists
  <2>4. ~(x > n)
    BY <2>3
  <2>5. w = table
    BY <1>1, <1>2, <2>4 DEF Widened
  <2>6. QED
    BY <1>1, <1>2, <2>3, <2>5
<1>6. QED
  BY <1>4, <1>5

(* The ability whose table gets a target.                                  *)
LEMMA AbilityWidened ==
  ASSUME NEW a, IsAbility(a), NEW w, IsSeq(w), IsDense(w), DOMAIN a.slots \subseteq DOMAIN w,
         NEW b, b = [a EXCEPT !.slots = w]
  PROVE  IsAbility(b) /\ b.slots = w /\ b.effects = a.effects
<1>1. /\ DOMAIN b = AbilityFields /\ b.tapsymbol = a.tapsymbol /\ b.ismana = a.ismana
      /\ b.slots = w /\ b.effects = a.effects
  BY DEF IsAbility, AbilityFields
<1>2. ASSUME NEW n \in DOMAIN a.effects PROVE IsEffect(a.effects[n], w)
  BY DEF IsAbility, IsEffect, IsParam
<1>3. QED
  BY <1>1, <1>2 DEF IsAbility

(* The parameter is a target.                                              *)
LEMMA ReadingTarget ==
  ASSUME NEW o, NEW a, IsReading(o, a, "readAbilityParameter"), a.wants # <<>>, a.params = <<>>,
         NEW t, NEW x, x = PlaceIn(TableOf(o.actabs), t), NEW b, Taken(b, a, x),
         NEW r, r = [o EXCEPT !.actabs[Len(o.actabs)].slots = Widened(TableOf(o.actabs), t)]
  PROVE  IsReading(r, b, "readAbilityParameter")
<1>1. PICK s, n : s = o.actabs /\ n = Len(s)
  OBVIOUS
<1>2. /\ DOMAIN o = OracleFields /\ AreAbilities(s) /\ IsSeq(o.stats) /\ s # <<>>
      /\ IsSeq(a.params) /\ IsAtom(a, TableOf(s))
  BY <1>1 DEF IsReading, IsOracle, AbilityPcs
<1>3. IsAbility(s[n]) /\ TableOf(s) = s[n].slots /\ Last(s) = s[n]
  BY <1>1, <1>2, LastIsAbility
<1>4. PICK w : w = Widened(TableOf(s), t)
  OBVIOUS
<1>5. /\ IsSeq(w) /\ IsDense(w) /\ x \in DOMAIN w /\ DOMAIN TableOf(s) \subseteq DOMAIN w
      /\ \A k \in DOMAIN w : k \in DOMAIN TableOf(s) \/ k = x
  <2>1. IsSeq(TableOf(s)) /\ IsDense(TableOf(s))
    BY <1>3 DEF IsAbility
  <2>2. QED
    BY <1>1, <1>4, <2>1, TableWidened
<1>6. PICK c : c = [s[n] EXCEPT !.slots = w]
  OBVIOUS
<1>7. IsAbility(c) /\ c.slots = w /\ c.effects = s[n].effects
  BY <1>3, <1>5, <1>6, AbilityWidened
<1>8. PICK abs : abs = [s EXCEPT ![n] = c]
  OBVIOUS
<1>9. LastIs(abs, s, c)
  BY <1>1, <1>2, <1>8, ExceptLastIs DEF AreAbilities
<1>10. AreAbilities(abs) /\ abs # <<>> /\ Last(abs) = c
  BY <1>2, <1>7, <1>9, LastReplaced
<1>11. HasAbilities(r, o, abs)
  <2>1. r = [o EXCEPT !.actabs = abs]
    BY <1>1, <1>2, <1>4, <1>6, <1>8, LastChanges, Zenon DEF AreAbilities
  <2>2. QED
    BY <1>2, <2>1, AbilitiesChange
<1>12. IsOracle(r) /\ r.actabs = abs
  BY <1>2, <1>10, <1>11 DEF HasAbilities, IsOracle
<1>13. TableOf(abs) = w
  BY <1>7, <1>10 DEF TableOf
<1>14. /\ IsSeq(b.params) /\ IsAtom(b, w)
       /\ \A k : Targets(a, k) => Targets(b, k)
       /\ Targets(b, x)
  <2>1. IsParam(x, w)
    BY <1>5 DEF IsParam
  <2>2. QED
    BY <1>2, <1>5, <2>1, ParamTaken
<1>15. ASSUME NEW k \in DOMAIN w PROVE IsTarget(abs, k) \/ Targets(b, k)
  <2>1. CASE k = x
    BY <1>14, <2>1
  <2>2. CASE k \in DOMAIN TableOf(s)
    <3>1. IsTarget(s, k) \/ Targets(a, k)
      BY <1>1, <2>2 DEF IsReading
    <3>2. IsTarget(s, k) => IsTarget(abs, k)
      BY <1>3, <1>7, <1>10 DEF IsTarget
    <3>3. QED
      BY <1>14, <3>1, <3>2
  <2>3. QED
    BY <1>5, <2>1, <2>2
<1>16. DOMAIN b = AtomFields
  BY DEF Taken
<1>17. QED
  BY <1>10, <1>12, <1>13, <1>14, <1>15, <1>16 DEF IsReading

(* An effect is put before the others of its ability.                      *)
EffectAdded(r, o, e) == r = [o EXCEPT !.actabs[Len(o.actabs)].effects = <<e>> \o @]

(* The effect is complete.                                                 *)
LEMMA ReadingEffect ==
  ASSUME NEW o, NEW a, IsReading(o, a, "readAbilityParameter"), a.wants = <<>>,
         NEW e, e = [type |-> a.type, params |-> a.params],
         NEW r, EffectAdded(r, o, e),
         NEW q, q \in {"readArray", "readAtomEffect"}
  PROVE  IsReading(r, a, q)
<1>1. PICK s, n : s = o.actabs /\ n = Len(s)
  OBVIOUS
<1>2. /\ DOMAIN o = OracleFields /\ AreAbilities(s) /\ IsSeq(o.stats) /\ s # <<>>
      /\ IsSeq(a.params) /\ IsAtom(a, TableOf(s)) /\ DOMAIN a = AtomFields
  BY <1>1 DEF IsReading, IsOracle, AbilityPcs
<1>3. IsAbility(s[n]) /\ TableOf(s) = s[n].slots /\ Last(s) = s[n]
  BY <1>1, <1>2, LastIsAbility
<1>4. IsEffect(e, s[n].slots)
  <2>1. Len(a.params) \in 0 .. 2 /\ <<>> \in Wants(Len(a.params))
    BY <1>2 DEF IsAtom
  <2>2. Len(a.params) # 0
    BY <2>1, NothingWanted
  <2>3. a.params # <<>> /\ Len(a.params) \in 1 .. 2
    BY <1>2, <2>1, <2>2, SeqFacts
  <2>4. IsParam(a.params[1], s[n].slots)
    BY <1>2, <1>3, <2>3 DEF IsAtom
  <2>5. QED
    BY <1>2, <2>3, <2>4 DEF IsEffect
<1>5. PICK f, g : f = s[n].effects /\ g = <<e>> \o f
  OBVIOUS
<1>6. IsSeq(f) /\ DOMAIN f = 1 .. Len(f) /\ Len(f) \in Nat
  BY <1>3, <1>5, SeqFacts DEF IsAbility
<1>7. Prepended(g, f, e)
  BY <1>5, <1>6, PrependIs
<1>8. /\ IsSeq(g) /\ DOMAIN g = 1 .. Len(f) + 1 /\ g[1] = e
      /\ \A i \in DOMAIN f : i + 1 \in DOMAIN g /\ g[i + 1] = f[i]
  BY <1>6, <1>7, SeqFacts DEF Prepended
<1>9. \A i \in DOMAIN g : IsEffect(g[i], s[n].slots)
  <2>1. SUFFICES ASSUME NEW i \in 1 .. Len(f) + 1 PROVE IsEffect(g[i], s[n].slots)
    BY <1>8
  <2>2. CASE i = 1
    BY <1>4, <1>8, <2>2
  <2>3. CASE i # 1
    <3>1. i - 1 \in DOMAIN f /\ i = (i - 1) + 1
      BY <1>6, <1>8, <2>1, <2>3
    <3>2. PICK j \in DOMAIN f : i = j + 1
      BY <3>1
    <3>3. QED
      BY <1>3, <1>5, <1>8, <3>2 DEF IsAbility
  <2>4. QED
    BY <2>2, <2>3
<1>10. PICK c : c = [s[n] EXCEPT !.effects = g]
  OBVIOUS
<1>11. IsAbility(c) /\ c.slots = s[n].slots /\ c.effects = g
  <2>1. /\ DOMAIN c = AbilityFields /\ c.tapsymbol = s[n].tapsymbol /\ c.ismana = s[n].ismana
        /\ c.slots = s[n].slots /\ c.effects = g
    BY <1>3, <1>10 DEF IsAbility, AbilityFields
  <2>2. QED
    BY <1>3, <1>8, <1>9, <2>1 DEF IsAbility
<1>12. PICK abs : abs = [s EXCEPT ![n] = c]
  OBVIOUS
<1>13. LastIs(abs, s, c)
  BY <1>1, <1>2, <1>12, ExceptLastIs DEF AreAbilities
<1>14. AreAbilities(abs) /\ abs # <<>> /\ Last(abs) = c
  BY <1>2, <1>11, <1>13, LastReplaced
<1>15. HasAbilities(r, o, abs)
  <2>1. r = [o EXCEPT !.actabs = abs]
    BY <1>1, <1>2, <1>5, <1>10, <1>12, LastChanges, Zenon DEF AreAbilities, EffectAdded
  <2>2. QED
    BY <1>2, <2>1, AbilitiesChange
<1>16. IsOracle(r) /\ r.actabs = abs
  BY <1>2, <1>14, <1>15 DEF HasAbilities, IsOracle
<1>17. TableOf(abs) = TableOf(s)
  BY <1>3, <1>11, <1>14 DEF TableOf
<1>18. ASSUME NEW k \in DOMAIN TableOf(s) PROVE IsTarget(abs, k)
  <2>1. IsTarget(s, k) \/ Targets(a, k)
    BY <1>1 DEF IsReading
  <2>2. CASE IsTarget(s, k)
    <3>1. PICK i \in DOMAIN f : Targets(f[i], k)
      BY <1>3, <1>5, <2>2 DEF IsTarget
    <3>2. i + 1 \in DOMAIN g /\ Targets(g[i + 1], k)
      BY <1>8, <3>1
    <3>3. QED
      BY <1>11, <1>14, <3>2 DEF IsTarget
  <2>3. CASE Targets(a, k)
    <3>1. 1 \in DOMAIN g /\ Targets(g[1], k)
      BY <1>6, <1>8, <2>3 DEF Targets
    <3>2. QED
      BY <1>11, <1>14, <3>1 DEF IsTarget
  <2>4. QED
    BY <2>1, <2>2, <2>3
<1>19. q # "readAbilityParameter"
  OBVIOUS
<1>20. QED
  BY <1>2, <1>14, <1>16, <1>17, <1>18, <1>19 DEF IsReading

(* An oracle that has been read: a creature or planeswalker has numbers.   *)
IsRead(c) == IsOracle(c) /\ (c.underlying \in {"creature", "planeswalker"} => c.stats # <<>>)

DeckRead(d) ==
  /\ IsSeq(d.oracles) /\ \A n \in DOMAIN d.oracles : IsRead(d.oracles[n])
  /\ IsSeq(d.cards)
  /\ \A n \in DOMAIN d.cards : d.cards[n] \in Nat /\ d.cards[n] < Len(d.oracles)

(* One oracle for a line; a line that is read has none yet.                *)
LinesRead(d, lines, p) ==
  /\ lines \in Seq(Lines)
  /\ Len(d.oracles) <= Len(lines)
  /\ p \in LinePcs => Len(d.oracles) < Len(lines)

(* Where no phrase is left.                                                *)
PhrasePcs == {"getDeck", "parseDeck", "name", "type", "cost", "readAll", "section",
              "sectionEnd", "stats"}

(* What comes before the deck is sent, and what comes behind it.           *)
Unsent  == LinePcs \cup {"getDeck", "parseDeck", "connectDeck"}
SentPcs == {"start", "allText", "shown"}
ReadEnds == {"refused", "undefined", "forever", "crashed"}

(* The deck d, sent as w and received as c; s is shown of it.              *)
Sent(d, w) ==
  /\ w.oracles = [n \in DOMAIN d.oracles |-> writeOracle(d.oracles[n])]
  /\ w.cards = d.cards
Received(w, c) ==
  /\ c.oracles = [n \in DOMAIN w.oracles |-> oracleRead(w.oracles[n])]
  /\ c.cards = w.cards
Null(c) == c.stats = <<>> /\ c.underlying \in {"creature", "planeswalker"}

IsSent(p, d, w, c, s) ==
  /\ p \in Unsent => w = NoDeck /\ s = <<>>
  /\ p \in SentPcs => Sent(d, w)
  /\ p = "start" => s = <<>>
  /\ p \in {"allText", "shown"} => Received(w, c) /\ IsSeq(s) /\ Len(s) <= Len(c.oracles)
  /\ p = "undefined" /\ w # NoDeck =>
       /\ Sent(d, w) /\ Received(w, c) /\ Len(s) \in Nat
       /\ Len(s) < Len(c.oracles) /\ Null(c.oracles[Len(s) + 1])

OracleInv ==
  /\ file \in Seq(Lines) /\ DeckRead(deck) /\ LinesRead(deck, descrs, pc)
  /\ IsReading(oracle, atom, pc)
  /\ pc \in PhrasePcs => phrases = 0
  /\ IsSent(pc, deck, wire, client, shown)

(* Whatever the reader does, nothing has been sent.                        *)
LEMMA NotSentYet ==
  ASSUME NEW p, NEW d, NEW w, NEW c, NEW s, IsSent(p, d, w, c, s), p \in Unsent,
         NEW q, q \in Unsent \cup ReadEnds, NEW e
  PROVE  IsSent(q, e, w, c, s)
<1>1. w = NoDeck /\ s = <<>>
  BY DEF IsSent
<1>2. q \notin SentPcs
  BY DEF Unsent, LinePcs, AbilityPcs, ReadEnds, SentPcs
<1>3. QED
  BY <1>1, <1>2 DEF IsSent, SentPcs

(* A step of the reader.                                                   *)
LEMMA ReaderSteps ==
  ASSUME OracleInv, pc \in LinePcs, reading, pc' \in LinePcs \cup ReadEnds,
         IsReading(oracle', atom', pc'), pc' \in PhrasePcs => phrases' = 0
  PROVE  OracleInv'
<1>1. LinesRead(deck', descrs', pc')
  BY DEF reading, OracleInv, LinesRead
<1>2. IsSent(pc', deck', wire', client', shown')
  BY NotSentYet DEF OracleInv, reading, Unsent
<1>3. file' = file /\ deck' = deck
  BY DEF reading
<1>4. QED
  BY <1>1, <1>2, <1>3 DEF OracleInv

(* It throws, does what is not defined, or reads for ever.                 *)
LEMMA ReaderEnds ==
  ASSUME OracleInv, pc \in LinePcs \cup {"parseDeck"}, reading,
         raiseError \/ undefined \/ forever
  PROVE  OracleInv'
<1>1. pc' \in ReadEnds /\ oracle' = oracle /\ atom' = atom
  BY DEF raiseError, undefined, forever, ReadEnds, readVars
<1>2. pc' \notin LinePcs /\ pc' \notin PhrasePcs
  BY <1>1 DEF ReadEnds, LinePcs, AbilityPcs, PhrasePcs
<1>3. IsReading(oracle', atom', pc')
  BY <1>1, <1>2, ReadingEnded DEF OracleInv
<1>4. LinesRead(deck', descrs', pc')
  BY <1>2 DEF OracleInv, reading, LinesRead
<1>5. file' = file /\ deck' = deck
  BY DEF reading
<1>6. IsSent(pc', deck', wire', client', shown')
  BY <1>1, NotSentYet DEF OracleInv, reading, Unsent
<1>7. QED
  BY <1>2, <1>3, <1>4, <1>5, <1>6 DEF OracleInv

(* The header of a line, and what is between its sections: the abilities   *)
(* stay.                                                                   *)
LEMMA HeaderSteps ==
  ASSUME OracleInv, pc \in LinePcs \ AbilityPcs, reading,
         pc' \in LinePcs \ AbilityPcs, atom' = atom, phrases' = phrases,
         HasAbilities(oracle', oracle, oracle.actabs),
         pc' \in PhrasePcs => pc \in PhrasePcs \/ phrases = 0
  PROVE  OracleInv'
<1>1. IsReading(oracle', atom', pc')
  BY ReadingFields DEF OracleInv
<1>2. pc' \in PhrasePcs => phrases' = 0
  BY DEF OracleInv
<1>3. QED
  BY <1>1, <1>2, ReaderSteps

(* Name, types, cost, and the braces and letters between the sections.     *)
LEMMA HeaderRead ==
  ASSUME OracleInv, visitName \/ visitType \/ visitMana \/ readAll \/ nextSection
  PROVE  OracleInv'
<1>1. DOMAIN oracle = OracleFields
  BY DEF OracleInv, IsReading, IsOracle
<1>2. CASE raiseError /\ reading /\ pc \in LinePcs
  BY <1>2, ReaderEnds
<1>3. CASE visitName /\ ~raiseError
  <2>1. /\ pc = "name" /\ pc' = "type" /\ atom' = atom /\ phrases' = phrases /\ reading
        /\ oracle' = [oracle EXCEPT !.name = text[2]]
    BY <1>3 DEF visitName, goOn
  <2>2. HasAbilities(oracle', oracle, oracle.actabs)
    BY <1>1, <2>1, FieldsChange
  <2>3. QED
    BY <2>1, <2>2, HeaderSteps DEF LinePcs, AbilityPcs, PhrasePcs
<1>4. CASE visitType /\ ~raiseError
  <2>1. PICK x, y : oracle' = [oracle EXCEPT !.type = x, !.underlying = y]
    BY <1>4 DEF visitType
  <2>2. /\ pc = "type" /\ pc' \in {"readAll", "cost"} /\ atom' = atom /\ phrases' = phrases
        /\ reading
    BY <1>4 DEF visitType, goOn
  <2>3. HasAbilities(oracle', oracle, oracle.actabs)
    BY <1>1, <2>1, FieldsChange
  <2>4. QED
    BY <2>2, <2>3, HeaderSteps DEF LinePcs, AbilityPcs, PhrasePcs
<1>5. CASE visitMana
  <2>1. /\ pc = "cost" /\ pc' = "readAll" /\ atom' = atom /\ phrases' = phrases /\ reading
        /\ oracle' = [oracle EXCEPT !.cost = Mana(get(nextWord))]
    BY <1>5 DEF visitMana, goOn
  <2>2. HasAbilities(oracle', oracle, oracle.actabs)
    BY <1>1, <2>1, FieldsChange
  <2>3. QED
    BY <2>1, <2>2, HeaderSteps DEF LinePcs, AbilityPcs, PhrasePcs
<1>6. CASE readAll /\ ~raiseError
  <2>1. /\ pc = "readAll" /\ pc' \in {"stats", "section"} /\ atom' = atom /\ phrases' = phrases
        /\ reading /\ oracle' = oracle
    BY <1>6 DEF readAll, goOn
  <2>2. HasAbilities(oracle', oracle, oracle.actabs)
    BY <1>1, <2>1, FieldsChange
  <2>3. QED
    BY <2>1, <2>2, HeaderSteps DEF LinePcs, AbilityPcs, PhrasePcs
<1>7. CASE nextSection /\ ~raiseError
  <2>1. /\ pc = "sectionEnd" /\ pc' \in {"stats", "section"} /\ atom' = atom
        /\ phrases' = phrases /\ reading /\ oracle' = oracle
    BY <1>7 DEF nextSection, goOn
  <2>2. HasAbilities(oracle', oracle, oracle.actabs)
    BY <1>1, <2>1, FieldsChange
  <2>3. QED
    BY <2>1, <2>2, HeaderSteps DEF LinePcs, AbilityPcs, PhrasePcs
<1>8. pc \in LinePcs /\ reading
  BY DEF visitName, visitType, visitMana, readAll, nextSection, LinePcs
<1>9. QED
  BY <1>2, <1>3, <1>4, <1>5, <1>6, <1>7, <1>8

(* A section begins: its abilities are those of no other.                  *)
LEMMA SectionRead == ASSUME OracleInv, readSection PROVE OracleInv'
<1>1. DOMAIN oracle = OracleFields /\ IsSeq(oracle.stats) /\ DOMAIN atom = AtomFields
      /\ IsSeq(atom.params)
  BY DEF OracleInv, IsReading, IsOracle
<1>2. pc = "section" /\ reading
  BY DEF readSection
<1>3. \/ raiseError \/ undefined \/ forever
      \/ pc' = "sectionEnd" /\ UNCHANGED readVars
      \/ /\ pc' = "sectionEnd" /\ UNCHANGED <<section, phrases, atom>>
         /\ oracle' = [oracle EXCEPT !.flavor = SubSeq(text, 1, endOfSection - 1)]
      \/ /\ pc' = "readArray" /\ UNCHANGED atom
         /\ oracle' = [oracle EXCEPT !.actabs = <<>>]
  BY Zenon DEF readSection, readSectionFlavor, readUnfinished, goOn
<1>4. CASE raiseError \/ undefined \/ forever
  BY <1>2, <1>4, ReaderEnds DEF LinePcs
<1>5. CASE pc' = "sectionEnd" /\ UNCHANGED readVars
  <2>1. HasAbilities(oracle', oracle, oracle.actabs) /\ atom' = atom /\ phrases' = phrases
    BY <1>1, <1>5, FieldsChange DEF readVars
  <2>2. QED
    BY <1>2, <1>5, <2>1, HeaderSteps DEF LinePcs, AbilityPcs, PhrasePcs
<1>6. CASE /\ pc' = "sectionEnd" /\ UNCHANGED <<section, phrases, atom>>
           /\ oracle' = [oracle EXCEPT !.flavor = SubSeq(text, 1, endOfSection - 1)]
  <2>1. HasAbilities(oracle', oracle, oracle.actabs)
    BY <1>1, <1>6, FieldsChange
  <2>2. QED
    BY <1>2, <1>6, <2>1, HeaderSteps DEF LinePcs, AbilityPcs, PhrasePcs
<1>7. CASE /\ pc' = "readArray" /\ UNCHANGED atom
           /\ oracle' = [oracle EXCEPT !.actabs = <<>>]
  <2>1. HasAbilities(oracle', oracle, <<>>)
    BY <1>1, <1>7, AbilitiesChange
  <2>2. IsReading(oracle', atom', pc')
    BY <1>1, <1>7, <2>1, ReadingBegins DEF HasAbilities, AbilityPcs
  <2>3. pc' \notin PhrasePcs
    BY <1>7 DEF PhrasePcs
  <2>4. QED
    BY <1>2, <1>7, <2>2, <2>3, ReaderSteps DEF LinePcs
<1>8. QED
  BY <1>3, <1>4, <1>5, <1>6, <1>7

(* The functions that read an ability, but for the parameter of an effect. *)
CostPcs == {"readCosts", "readActAb", "readAtomEffect"}

(* They change no line, and there are phrases left.                        *)
LEMMA AbilitySteps ==
  ASSUME OracleInv, pc \in LinePcs, reading, pc' \in AbilityPcs \cup {"readArray"},
         IsReading(oracle', atom', pc')
  PROVE  OracleInv'
<1>1. pc' \in LinePcs /\ pc' \notin PhrasePcs
  BY DEF AbilityPcs, LinePcs, PhrasePcs
<1>2. QED
  BY <1>1, ReaderSteps

(* readCosts, for an ability that begins or that has some costs.           *)
LEMMA CostsRead == ASSUME OracleInv, readCosts PROVE OracleInv'
<1>1. pc \in {"readArray", "readCosts"} /\ reading
  BY DEF readCosts
<1>2. IsReading(oracle, atom, pc) /\ DOMAIN oracle = OracleFields /\ AreAbilities(oracle.actabs)
  BY DEF OracleInv, IsReading, IsOracle
<1>3. CASE pc = "readArray" /\ phrases = 0
  <2>1. pc' = "sectionEnd" /\ oracle' = oracle /\ atom' = atom /\ phrases' = phrases
    BY <1>3 DEF readCosts, readVars
  <2>2. HasAbilities(oracle', oracle, oracle.actabs)
    BY <1>2, <2>1, FieldsChange
  <2>3. QED
    BY <1>1, <1>3, <2>1, <2>2, HeaderSteps DEF LinePcs, AbilityPcs, PhrasePcs
<1>4. CASE raiseError
  BY <1>1, <1>4, ReaderEnds DEF LinePcs, AbilityPcs
<1>5. CASE ~(pc = "readArray" /\ phrases = 0) /\ ~raiseError
  <2>1. PICK abs, paid :
          /\ abs = IF pc = "readCosts" THEN oracle.actabs ELSE Append(oracle.actabs, NewAbility)
          /\ \/ paid = [Last(abs) EXCEPT !.tapsymbol = TRUE]
             \/ paid = [Last(abs) EXCEPT !.cost = Mana(get(1))]
          /\ pc' \in {"readActAb", "readCosts"} /\ atom' = atom
          /\ oracle' = [oracle EXCEPT !.actabs = Append(Front(abs), paid)]
    BY <1>5 DEF readCosts
  <2>2. PICK o : HasAbilities(o, oracle, abs) /\ IsReading(o, atom, "readCosts")
                 /\ o.actabs = abs /\ abs # <<>> /\ AreAbilities(abs)
    <3>1. CASE pc = "readCosts"
      <4>1. HasAbilities(oracle, oracle, abs) /\ abs = oracle.actabs
        BY <1>2, <2>1, <3>1, FieldsChange
      <4>2. abs # <<>>
        BY <1>2, <3>1, <4>1 DEF IsReading, AbilityPcs
      <4>3. QED
        BY <1>2, <3>1, <4>1, <4>2
    <3>2. CASE pc # "readCosts"
      <4>1. PICK o : o = [oracle EXCEPT !.actabs = abs]
        OBVIOUS
      <4>2. HasAbilities(o, oracle, abs)
        BY <1>2, <4>1, AbilitiesChange
      <4>3. abs = Append(oracle.actabs, NewAbility)
        BY <2>1, <3>2
      <4>4. IsReading(o, atom, "readCosts") /\ o.actabs # <<>>
        BY <1>2, <4>2, <4>3, ReadingNewAbility
      <4>5. o.actabs = abs /\ AreAbilities(o.actabs)
        BY <4>2, <4>4 DEF HasAbilities, IsReading, IsOracle
      <4>6. QED
        BY <4>2, <4>4, <4>5
    <3>3. QED
      BY <3>1, <3>2
  <2>3. IsAbility(Last(abs))
    BY <2>2, LastIsAbility
  <2>4. /\ DOMAIN paid = AbilityFields /\ paid.effects = Last(abs).effects
        /\ paid.slots = Last(abs).slots /\ paid.tapsymbol \in BOOLEAN /\ paid.ismana \in BOOLEAN
    BY <2>1, <2>3, AbilityChanges DEF IsAbility
  <2>5. PICK new : new = Append(Front(abs), paid)
    OBVIOUS
  <2>6. LastIs(new, abs, paid)
    BY <2>2, <2>5, FrontAppendIs DEF AreAbilities
  <2>7. HasAbilities(oracle', oracle, new)
    BY <1>2, <2>1, <2>5, AbilitiesChange
  <2>8. HasAbilities(oracle', o, new)
    BY <2>2, <2>7 DEF HasAbilities
  <2>9. "readCosts" \in LinePcs /\ "readCosts" # "readAbilityParameter"
    BY DEF LinePcs, AbilityPcs
  <2>10. IsReading(oracle', atom, pc')
    <3>1. PICK t, q : t = oracle' /\ q = pc'
      OBVIOUS
    <3>2. /\ LastIs(new, o.actabs, paid) /\ HasAbilities(t, o, new)
          /\ o.actabs # <<>> /\ q \in {"readCosts", "readActAb", "readAtomEffect"}
          /\ paid.effects = Last(o.actabs).effects /\ paid.slots = Last(o.actabs).slots
      BY <2>1, <2>2, <2>4, <2>6, <2>8, <3>1
    <3>3. IsReading(t, atom, q)
      BY <2>2, <2>4, <2>9, <3>2, ReadingCosts
    <3>4. QED
      BY <3>1, <3>3
  <2>11. QED
    BY <1>1, <2>1, <2>10, AbilitySteps DEF LinePcs, AbilityPcs
<1>6. QED
  BY <1>3, <1>4, <1>5

(* readActAb, which tells whether it makes mana.                           *)
LEMMA ActAbRead == ASSUME OracleInv, readActAb PROVE OracleInv'
<1>1. /\ pc = "readActAb" /\ reading /\ pc' = "readAtomEffect" /\ atom' = atom
      /\ oracle' = [oracle EXCEPT !.actabs[abilityRead].ismana = (get(1) = ":")]
  BY DEF readActAb
<1>2. IsReading(oracle, atom, pc) /\ DOMAIN oracle = OracleFields
  BY DEF OracleInv, IsReading, IsOracle
<1>3. PICK s, n : s = oracle.actabs /\ n = Len(s)
  OBVIOUS
<1>4. AreAbilities(s) /\ s # <<>>
  BY <1>1, <1>2, <1>3 DEF IsReading, IsOracle, AbilityPcs
<1>5. PICK b \in BOOLEAN : b = (get(1) = ":")
  OBVIOUS
<1>6. PICK c : c = [s[n] EXCEPT !.ismana = b]
  OBVIOUS
<1>7. PICK abs : abs = [s EXCEPT ![n] = c]
  OBVIOUS
<1>8. oracle' = [oracle EXCEPT !.actabs = abs]
  <2>1. oracle' = [oracle EXCEPT !.actabs[n].ismana = b]
    BY <1>1, <1>3, <1>5 DEF abilityRead
  <2>2. QED
    BY <1>2, <1>3, <1>4, <1>6, <1>7, <2>1, LastChanges, Zenon DEF AreAbilities
<1>9. HasAbilities(oracle', oracle, abs)
  BY <1>2, <1>8, AbilitiesChange
<1>10. IsAbility(s[n]) /\ Last(s) = s[n]
  BY <1>3, <1>4, LastIsAbility
<1>11. /\ DOMAIN c = AbilityFields /\ c.effects = s[n].effects
       /\ c.slots = s[n].slots /\ c.tapsymbol \in BOOLEAN /\ c.ismana \in BOOLEAN
  BY <1>5, <1>6, <1>10, AbilityChanges DEF IsAbility
<1>12. LastIs(abs, s, c)
  BY <1>3, <1>4, <1>7, ExceptLastIs DEF AreAbilities
<1>13. "readActAb" \in LinePcs /\ "readActAb" # "readAbilityParameter"
  BY DEF LinePcs, AbilityPcs
<1>14. IsReading(oracle', atom, "readAtomEffect")
  BY <1>1, <1>2, <1>3, <1>4, <1>9, <1>10, <1>11, <1>12, <1>13, ReadingCosts
<1>15. QED
  BY <1>1, <1>13, <1>14, AbilitySteps DEF AbilityPcs

(* Whatever word begins an effect, a target is what it wants first.        *)
LEMMA TablesWant == \A w \in DOMAIN dict_abiltypes : dict_abiltypes[w].wants \in Wants(0)
<1>1. SUFFICES ASSUME NEW w \in DOMAIN dict_abiltypes
               PROVE  dict_abiltypes[w].wants \in
                        {<<"target">>, <<"target", "nonnegative">>, <<"target", "number">>,
                         <<"target", "added_mana">>}
  BY WantsAre
<1>2. w \in {"ping", "draw", "add_life", "set_life", "add", "destroy", "myExile", "counter",
             "p_power", "p_toughness"}
  BY DEF dict_abiltypes
<1>3. CASE w \in {"ping", "draw"}
  BY <1>3 DEF dict_abiltypes
<1>4. CASE w \in {"add_life", "set_life"}
  BY <1>4 DEF dict_abiltypes
<1>5. CASE w = "add"
  BY <1>5 DEF dict_abiltypes
<1>6. CASE w \in {"destroy", "myExile", "counter", "p_power", "p_toughness"}
  BY <1>6 DEF dict_abiltypes
<1>7. QED
  BY <1>2, <1>3, <1>4, <1>5, <1>6

(* readAtomEffect finds a word in the dictionary.                          *)
LEMMA AtomEffectRead == ASSUME OracleInv, readAtomEffect PROVE OracleInv'
<1>1. pc = "readAtomEffect" /\ reading /\ pc \in LinePcs
  BY DEF readAtomEffect, LinePcs, AbilityPcs
<1>2. CASE raiseError \/ undefined
  BY <1>1, <1>2, ReaderEnds
<1>3. CASE ~(raiseError \/ undefined)
  <2>1. PICK word : /\ \E w \in DOMAIN dict_abiltypes : word = <<w>>
                    /\ pc' = "readAbilityParameter" /\ oracle' = oracle
                    /\ atom' = [type |-> dict_abiltypes[word[1]].type,
                                wants |-> dict_abiltypes[word[1]].wants, params |-> <<>>]
    BY <1>3, Zenon DEF readAtomEffect, goOn
  <2>2. PICK w \in DOMAIN dict_abiltypes : word = <<w>>
    BY <2>1
  <2>3. word[1] = w
    BY <2>2
  <2>4. PICK ws : ws = dict_abiltypes[w].wants
    OBVIOUS
  <2>5. DOMAIN atom' = AtomFields /\ atom'.params = <<>> /\ atom'.wants = ws
    BY <2>1, <2>3, <2>4 DEF AtomFields
  <2>6. ws \in Wants(0)
    BY <2>4, TablesWant
  <2>7. IsReading(oracle', atom', "readAbilityParameter")
    BY <1>1, <2>1, <2>5, <2>6, ReadingAtom DEF OracleInv
  <2>8. QED
    BY <1>1, <2>1, <2>7, AbilitySteps DEF AbilityPcs
<1>4. QED
  BY <1>2, <1>3

(* The targets without an entry.                                           *)
LEMMA TargetsAreBytes == \A a \in DOMAIN targets : targets[a] \in 253 .. 255
<1>1. \A n \in {-1, -2, -3} : byte(n) \in 253 .. 255
  BY DEF byte
<1>2. QED
  BY <1>1 DEF targets

(* The model's place of a target is its place in the table.                *)
LEMMA SlotOfIs == \A t : slotOf(t) = PlaceIn(TableOf(oracle.actabs), t)
BY DEF slotOf, slots, PlaceIn, TableOf

(* The step of it.                                                         *)
LEMMA ParameterTaken ==
  ASSUME NEW x, NEW n, takes(x, n), DOMAIN atom = AtomFields
  PROVE  pc' = "readAbilityParameter" /\ Taken(atom', atom, x)
<1>1. pc' = "readAbilityParameter"
  BY DEF takes, goOn
<1>2. atom' = [atom EXCEPT !.wants = Tail(atom.wants), !.params = Append(atom.params, x)]
  BY DEF takes
<1>3. QED
  BY <1>1, <1>2 DEF Taken, AtomFields

(* readAbilityParameter, whatever is wanted.                               *)
LEMMA AbilityParameterRead == ASSUME OracleInv, readAbilityParameter PROVE OracleInv'
<1>1. pc = "readAbilityParameter" /\ reading /\ pc \in LinePcs /\ atom.wants # <<>>
  BY DEF readAbilityParameter, LinePcs, AbilityPcs
<1>2. /\ IsReading(oracle, atom, "readAbilityParameter") /\ DOMAIN atom = AtomFields
      /\ IsSeq(atom.params)
      /\ Head(atom.wants) = "target" <=> atom.params = <<>>
  BY <1>1, TargetFirst DEF OracleInv, IsReading
<1>3. \/ raiseError
      \/ /\ Head(atom.wants) # "target" /\ oracle' = oracle
         /\ \E x : takes(x, 3)
      \/ oracle' = oracle /\ \E a \in DOMAIN targets : takes(targets[a], 3)
      \/ Head(atom.wants) = "target" /\ readTarget
  BY Zenon DEF readAbilityParameter, readNumber
<1>4. CASE raiseError \/ undefined
  BY <1>1, <1>4, ReaderEnds
<1>5. CASE /\ Head(atom.wants) # "target" /\ oracle' = oracle
           /\ \E x : takes(x, 3)
  <2>1. PICK x : takes(x, 3)
    BY <1>5
  <2>2. pc' = "readAbilityParameter" /\ Taken(atom', atom, x)
    BY <1>2, <2>1, ParameterTaken
  <2>3. IsReading(oracle', atom', pc')
    BY <1>1, <1>2, <1>5, <2>2, ReadingParam
  <2>4. QED
    BY <1>1, <2>2, <2>3, AbilitySteps DEF AbilityPcs
<1>6. CASE oracle' = oracle /\ \E a \in DOMAIN targets : takes(targets[a], 3)
  <2>1. PICK x \in 253 .. 255 : takes(x, 3)
    BY <1>6, TargetsAreBytes
  <2>2. pc' = "readAbilityParameter" /\ Taken(atom', atom, x)
    BY <1>2, <2>1, ParameterTaken
  <2>3. IsReading(oracle', atom', pc')
    BY <1>1, <1>2, <1>6, <2>2, ReadingParam
  <2>4. QED
    BY <1>1, <2>2, <2>3, AbilitySteps DEF AbilityPcs
<1>7. CASE Head(atom.wants) = "target" /\ readTarget /\ ~raiseError /\ ~undefined
  <2>1. PICK t, n : /\ takes(slotOf(t), n)
                    /\ oracle' = [oracle EXCEPT !.actabs[abilityRead].slots =
                                    IF slotOf(t) > Len(slots) THEN Append(slots, t) ELSE slots]
    BY <1>7, Zenon DEF readTarget
  <2>2. slotOf(t) = PlaceIn(TableOf(oracle.actabs), t) /\ slots = TableOf(oracle.actabs)
    BY SlotOfIs DEF slots, TableOf
  <2>3. oracle' = [oracle EXCEPT !.actabs[Len(oracle.actabs)].slots =
                     Widened(TableOf(oracle.actabs), t)]
    BY <2>1, <2>2 DEF abilityRead, Widened
  <2>4. pc' = "readAbilityParameter" /\ Taken(atom', atom, slotOf(t))
    BY <1>2, <2>1, ParameterTaken
  <2>5. IsReading(oracle', atom', pc')
    BY <1>1, <1>2, <1>7, <2>2, <2>3, <2>4, ReadingTarget
  <2>6. QED
    BY <1>1, <2>4, <2>5, AbilitySteps DEF AbilityPcs
<1>8. QED
  BY <1>3, <1>4, <1>5, <1>6, <1>7

(* readEffect, when the effect wants no more.                              *)
LEMMA EffectRead == ASSUME OracleInv, readEffect PROVE OracleInv'
<1>1. pc = "readAbilityParameter" /\ reading /\ pc \in LinePcs /\ atom.wants = <<>>
  BY DEF readEffect, LinePcs, AbilityPcs
<1>2. CASE raiseError
  BY <1>1, <1>2, ReaderEnds
<1>3. CASE ~raiseError
  <2>1. PICK e : e = [type |-> atom.type, params |-> atom.params]
    OBVIOUS
  <2>2. /\ pc' \in {"readArray", "readAtomEffect"} /\ atom' = atom
        /\ oracle' = [oracle EXCEPT !.actabs[Len(oracle.actabs)].effects = <<e>> \o @]
    BY <1>3, <2>1 DEF readEffect, goOn, abilityRead
  <2>3. IsReading(oracle', atom', pc')
    <3>1. PICK r, q : r = oracle' /\ q = pc'
      OBVIOUS
    <3>2. EffectAdded(r, oracle, e) /\ q \in {"readArray", "readAtomEffect"}
      BY <2>2, <3>1 DEF EffectAdded
    <3>3. IsReading(oracle, atom, "readAbilityParameter")
      BY <1>1 DEF OracleInv
    <3>4. IsReading(r, atom, q)
      BY <1>1, <2>1, <3>2, <3>3, ReadingEffect
    <3>5. QED
      BY <2>2, <3>1, <3>4
  <2>4. QED
    BY <1>1, <2>2, <2>3, AbilitySteps DEF AbilityPcs
<1>4. QED
  BY <1>2, <1>3

(* The lines that are read from the file.                                  *)
LEMMA FileRead == ASSUME DecksAssumption, OracleInv, getDeck PROVE OracleInv'
<1>1. /\ pc = "getDeck" /\ oracle' = oracle /\ atom' = atom /\ phrases' = phrases
      /\ deck' = deck /\ UNCHANGED <<wire, client, shown>>
  BY DEF getDeck, readVars
<1>2. file \in Seq(Lines) /\ descrs \in Seq(Lines) /\ Len(deck.oracles) <= Len(descrs)
      /\ Len(deck.oracles) \in Nat /\ phrases = 0
  BY <1>1, SeqFacts DEF OracleInv, LinesRead, DeckRead, PhrasePcs
<1>3. /\ pc' \in {"getDeck", "parseDeck", "crashed"}
      /\ file' \in Seq(Lines) /\ descrs' \in Seq(Lines) /\ Len(deck.oracles) <= Len(descrs')
  <2>1. CASE file = <<>>
    BY <1>2, <2>1 DEF getDeck
  <2>2. CASE file # <<>> /\ Head(file).nb < 0
    BY <1>2, <2>2 DEF getDeck
  <2>3. CASE file # <<>> /\ ~(Head(file).nb < 0)
    <3>1. file' = Tail(file) /\ descrs' = Append(descrs, Head(file)) /\ pc' = pc
      BY <2>3 DEF getDeck
    <3>2. Head(file) \in Lines /\ Tail(file) \in Seq(Lines)
      BY <1>2, <2>3, HeadTailProperties
    <3>3. descrs' \in Seq(Lines) /\ Len(descrs') = Len(descrs) + 1 /\ Len(descrs) \in Nat
      BY <1>2, <3>1, <3>2, AppendProperties
    <3>4. QED
      BY <1>1, <1>2, <3>1, <3>2, <3>3
  <2>4. QED
    BY <2>1, <2>2, <2>3
<1>4. pc' \notin LinePcs
  BY <1>3 DEF LinePcs, AbilityPcs
<1>5. IsReading(oracle', atom', pc')
  BY <1>1, <1>4, ReadingEnded DEF OracleInv
<1>6. LinesRead(deck', descrs', pc')
  BY <1>1, <1>3, <1>4 DEF LinesRead
<1>7. IsSent(pc', deck', wire', client', shown')
  BY <1>1, <1>3, NotSentYet DEF OracleInv, Unsent, ReadEnds
<1>8. QED
  BY <1>1, <1>2, <1>3, <1>5, <1>6, <1>7 DEF OracleInv

(* What RulesHolder is constructed with.                                   *)
LEMMA NewOracleFields ==
  DOMAIN NewOracle = OracleFields /\ NewOracle.actabs = <<>> /\ NewOracle.stats = <<>>
BY DEF NewOracle, OracleFields

(* The next line begins, or the deck is complete.                          *)
LEMMA LineBegins == ASSUME OracleInv, parseDeck PROVE OracleInv'
<1>1. pc = "parseDeck" /\ reading
  BY DEF parseDeck
<1>2. CASE raiseError \/ undefined
  BY <1>1, <1>2, ReaderEnds
<1>3. /\ file' = file /\ deck' = deck /\ descrs' = descrs /\ UNCHANGED <<wire, client, shown>>
      /\ phrases = 0 /\ DOMAIN atom = AtomFields /\ IsSeq(atom.params)
      /\ Len(descrs) \in Nat /\ Len(deck.oracles) \in Nat /\ Len(deck.oracles) <= Len(descrs)
  BY <1>1, SeqFacts, LenProperties
     DEF reading, OracleInv, PhrasePcs, LinesRead, DeckRead, IsReading
<1>4. CASE Len(deck.oracles) = Len(descrs) /\ pc' = "connectDeck" /\ UNCHANGED readVars
  <2>1. oracle' = oracle /\ atom' = atom
    BY <1>4 DEF readVars
  <2>2. pc' \notin LinePcs /\ pc' \notin PhrasePcs
    BY <1>4 DEF LinePcs, AbilityPcs, PhrasePcs
  <2>3. IsReading(oracle', atom', pc')
    BY <2>1, <2>2, ReadingEnded DEF OracleInv
  <2>4. LinesRead(deck', descrs', pc')
    BY <1>3, <2>2 DEF OracleInv, LinesRead
  <2>5. IsSent(pc', deck', wire', client', shown')
    BY <1>1, <1>3, <1>4, NotSentYet DEF OracleInv, Unsent
  <2>6. QED
    BY <1>3, <2>2, <2>3, <2>4, <2>5 DEF OracleInv
<1>5. CASE /\ Len(deck.oracles) # Len(descrs) /\ pc' = "name" /\ oracle' = NewOracle
           /\ UNCHANGED <<phrases, atom>>
  <2>1. pc' \notin AbilityPcs /\ pc' \in LinePcs
    BY <1>5 DEF AbilityPcs, LinePcs
  <2>2. IsReading(oracle', atom', pc')
    BY <1>3, <1>5, <2>1, NewOracleFields, NoneIsSeq, ReadingBegins
  <2>3. LinesRead(deck', descrs', pc')
    BY <1>3, <1>5 DEF OracleInv, LinesRead
  <2>4. IsSent(pc', deck', wire', client', shown')
    BY <1>1, <1>3, <2>1, NotSentYet DEF OracleInv, Unsent
  <2>5. QED
    BY <1>3, <1>5, <2>2, <2>3, <2>4 DEF OracleInv
<1>6. QED
  BY <1>2, <1>4, <1>5 DEF parseDeck

(* The oracle is complete, and so many cards have it.                      *)
LEMMA OracleAdded ==
  ASSUME DeckRead(deck), NEW c, IsRead(c), NEW m \in Nat, NEW d,
         d.oracles = Append(deck.oracles, c),
         d.cards = deck.cards \o [k \in 1 .. m |-> Len(deck.oracles)]
  PROVE  DeckRead(d) /\ Len(d.oracles) = Len(deck.oracles) + 1
<1>1. IsSeq(deck.oracles) /\ IsSeq(deck.cards)
  BY DEF DeckRead
<1>2. PICK n \in Nat : n = Len(deck.oracles) /\ DOMAIN deck.oracles = 1 .. n
  BY <1>1, SeqFacts
<1>3. Appended(d.oracles, deck.oracles, c)
  BY <1>1, AppendIs
<1>4. IsSeq(d.oracles) /\ Len(d.oracles) = n + 1 /\ DOMAIN d.oracles = 1 .. n + 1
  BY <1>2, <1>3, SeqFacts DEF Appended
<1>5. ASSUME NEW i \in 1 .. n + 1 PROVE IsRead(d.oracles[i])
  <2>1. CASE i = n + 1
    BY <1>2, <1>3, <2>1 DEF Appended
  <2>2. CASE i # n + 1
    <3>1. i \in 1 .. n
      BY <2>2
    <3>2. QED
      BY <1>2, <1>3, <3>1 DEF Appended, DeckRead
  <2>3. QED
    BY <2>1, <2>2
<1>6. PICK p \in Nat : p = Len(deck.cards) /\ DOMAIN deck.cards = 1 .. p
  BY <1>1, SeqFacts
<1>7. PICK s : s = [k \in 1 .. m |-> n]
  OBVIOUS
<1>8. IsSeq(s) /\ Len(s) = m /\ DOMAIN s = 1 .. m
  BY <1>7, SeqUpTo
<1>9. PICK S : S = Range(deck.cards) \cup Range(s)
  OBVIOUS
<1>10. deck.cards \in Seq(S) /\ s \in Seq(S)
  BY <1>1, <1>8, <1>9, SeqMonotonic DEF IsSeq
<1>11. /\ d.cards \in Seq(S) /\ Len(d.cards) = p + m
       /\ \A i \in 1 .. p + m : d.cards[i] = IF i <= p THEN deck.cards[i] ELSE s[i - p]
  BY <1>2, <1>6, <1>7, <1>8, <1>10, ConcatProperties
<1>12. IsSeq(d.cards) /\ DOMAIN d.cards = 1 .. p + m
  BY <1>11, SeqIsSeq, SeqFacts
<1>13. ASSUME NEW i \in 1 .. p + m PROVE d.cards[i] \in Nat /\ d.cards[i] < n + 1
  <2>1. CASE i <= p
    <3>1. i \in 1 .. p /\ d.cards[i] = deck.cards[i]
      BY <1>11, <2>1
    <3>2. PICK x \in Nat : x = deck.cards[i] /\ x < n
      BY <1>2, <1>6, <3>1 DEF DeckRead
    <3>3. x < n + 1
      BY <3>2
    <3>4. QED
      BY <3>1, <3>2, <3>3
  <2>2. CASE ~(i <= p)
    <3>1. i - p \in 1 .. m /\ d.cards[i] = s[i - p]
      BY <1>11, <2>2
    <3>2. d.cards[i] = n
      BY <1>7, <3>1
    <3>3. n < n + 1
      OBVIOUS
    <3>4. QED
      BY <3>2, <3>3
  <2>3. QED
    BY <2>1, <2>2
<1>14. QED
  BY <1>2, <1>4, <1>5, <1>12, <1>13 DEF DeckRead

(* A number of copies is a byte.                                           *)
LEMMA BytesAre == ASSUME NEW n \in Int PROVE byte(n) \in Nat
BY DEF byte

(* parseDeck adds the oracle and as many cards as its line has copies.     *)
LEMMA StatsAdded ==
  ASSUME DecksAssumption, OracleInv, pc = "stats", NEW stats, IsSeq(stats),
         oracle.underlying \in {"creature", "planeswalker"} => stats # <<>>,
         hasStats(stats), UNCHANGED <<file, descrs, wire, client, shown>>
  PROVE  OracleInv'
<1>1. PICK n \in Nat : n = Len(deck.oracles) /\ n < Len(descrs)
  BY SeqFacts DEF OracleInv, DeckRead, LinesRead, LinePcs
<1>2. PICK m \in Nat : m = byte(descrs[n + 1].nb)
  <2>1. descrs \in Seq(Lines) /\ n + 1 \in 1 .. Len(descrs)
    BY <1>1, LenProperties DEF OracleInv, LinesRead
  <2>2. descrs[n + 1] \in Lines
    BY <2>1, ElementOfSeq
  <2>3. descrs[n + 1].nb \in Int
    BY <2>2 DEF DecksAssumption
  <2>4. QED
    BY <2>3, BytesAre
<1>3. PICK c : c = [oracle EXCEPT !.stats = stats]
  OBVIOUS
<1>4. IsRead(c)
  <2>1. IsOracle(oracle)
    BY DEF OracleInv, IsReading
  <2>2. /\ DOMAIN c = OracleFields /\ c.actabs = oracle.actabs /\ c.stats = stats
        /\ c.underlying = oracle.underlying
    BY <1>3, <2>1 DEF IsOracle, OracleFields
  <2>3. QED
    BY <2>1, <2>2 DEF IsRead, IsOracle
<1>5. /\ pc' = "parseDeck" /\ oracle' = oracle /\ atom' = atom /\ phrases' = phrases
      /\ file' = file /\ descrs' = descrs
  BY DEF hasStats, readVars
<1>6. PICK d : d = deck'
  OBVIOUS
<1>7. d.oracles = Append(deck.oracles, c)
      /\ d.cards = deck.cards \o [k \in 1 .. m |-> Len(deck.oracles)]
  BY <1>1, <1>2, <1>3, <1>6 DEF hasStats
<1>8. DeckRead(d) /\ Len(d.oracles) = n + 1
  BY <1>1, <1>4, <1>7, OracleAdded DEF OracleInv
<1>9. pc' \notin LinePcs
  BY <1>5 DEF LinePcs, AbilityPcs
<1>10. IsReading(oracle', atom', pc')
  BY <1>5, <1>9, ReadingEnded DEF OracleInv
<1>11. LinesRead(d, descrs, pc')
  BY <1>1, <1>8, <1>9, LenProperties DEF OracleInv, LinesRead
<1>12. phrases = 0
  BY DEF OracleInv, PhrasePcs
<1>13. IsSent(pc', deck', wire', client', shown')
  BY <1>5, NotSentYet DEF OracleInv, Unsent, LinePcs
<1>14. QED
  BY <1>5, <1>6, <1>8, <1>10, <1>11, <1>12, <1>13 DEF OracleInv

(* The end of readAll: a creature has two numbers, a planeswalker one.     *)
LEMMA StatsRead == ASSUME DecksAssumption, OracleInv, readStats PROVE OracleInv'
<1>1. pc = "stats" /\ UNCHANGED <<file, descrs, wire, client, shown>>
  BY DEF readStats
<1>2. \/ raiseError /\ UNCHANGED deck
      \/ oracle.underlying = "creature" /\ \E x, y : hasStats(<<x, y>>)
      \/ oracle.underlying = "planeswalker" /\ \E x : hasStats(<<x>>)
      \/ oracle.underlying \notin {"creature", "planeswalker"} /\ hasStats(<<>>)
  BY Zenon DEF readStats
<1>3. CASE raiseError /\ UNCHANGED deck
  BY <1>1, <1>3, ReaderEnds DEF reading, LinePcs
<1>4. CASE oracle.underlying = "creature" /\ \E x, y : hasStats(<<x, y>>)
  <2>1. PICK x, y : hasStats(<<x, y>>)
    BY <1>4
  <2>2. IsSeq(<<x, y>>) /\ <<x, y>> # <<>>
    BY TwoIsSeq, SeqFacts
  <2>3. QED
    BY <1>1, <2>1, <2>2, StatsAdded
<1>5. CASE oracle.underlying = "planeswalker" /\ \E x : hasStats(<<x>>)
  <2>1. PICK x : hasStats(<<x>>)
    BY <1>5
  <2>2. IsSeq(<<x>>) /\ <<x>> # <<>>
    BY OneIsSeq, SeqFacts
  <2>3. QED
    BY <1>1, <2>1, <2>2, StatsAdded
<1>6. CASE oracle.underlying \notin {"creature", "planeswalker"} /\ hasStats(<<>>)
  BY <1>1, <1>6, NoneIsSeq, StatsAdded
<1>7. QED
  BY <1>2, <1>3, <1>4, <1>5, <1>6

(* The client has as many oracles, each read from what was written.        *)
LEMMA SentSeq ==
  ASSUME NEW d, IsSeq(d.oracles), NEW w, Sent(d, w), NEW c, Received(w, c)
  PROVE  /\ IsSeq(c.oracles) /\ Len(c.oracles) = Len(d.oracles)
         /\ DOMAIN c.oracles = DOMAIN d.oracles
         /\ \A n \in DOMAIN d.oracles : c.oracles[n] = oracleRead(writeOracle(d.oracles[n]))
<1>1. PICK k \in Nat : k = Len(d.oracles) /\ DOMAIN d.oracles = 1 .. k
  BY SeqFacts
<1>2. /\ DOMAIN w.oracles = 1 .. k
      /\ \A n \in 1 .. k : w.oracles[n] = writeOracle(d.oracles[n])
  BY <1>1 DEF Sent
<1>3. PICK S : S = {oracleRead(w.oracles[n]) : n \in 1 .. k}
  OBVIOUS
<1>4. c.oracles \in [1 .. k -> S]
  BY <1>2, <1>3 DEF Received
<1>5. \A n \in 1 .. k : c.oracles[n] = oracleRead(writeOracle(d.oracles[n]))
  BY <1>2 DEF Received
<1>6. QED
  BY <1>1, <1>4, <1>5, SeqUpTo

(* connectDeck, start and allText leave the server's deck as it is.        *)
LEMMA DeckSent ==
  ASSUME OracleInv, connectDeck \/ start \/ allText
  PROVE  OracleInv'
<1>1. /\ UNCHANGED <<file, descrs, readVars, deck>> /\ pc \in {"connectDeck", "start", "allText"}
      /\ pc' \in {"start", "allText", "shown", "undefined"}
  BY DEF connectDeck, start, allText
<1>2. pc' \notin LinePcs /\ pc' \notin PhrasePcs
  BY <1>1 DEF LinePcs, AbilityPcs, PhrasePcs
<1>3. oracle' = oracle /\ atom' = atom
  BY <1>1 DEF readVars
<1>4. IsReading(oracle', atom', pc')
  BY <1>2, <1>3, ReadingEnded DEF OracleInv
<1>5. LinesRead(deck', descrs', pc')
  BY <1>1, <1>2 DEF OracleInv, LinesRead
<1>6. IsSeq(deck.oracles)
  BY DEF OracleInv, DeckRead
<1>7. pc' \notin Unsent
  BY <1>1, <1>2 DEF Unsent
<1>8. IsSent(pc, deck, wire, client, shown)
  BY DEF OracleInv
<1>9. IsSent(pc', deck, wire', client', shown')
  <2>1. CASE connectDeck
    <3>1. Sent(deck, wire') /\ pc' = "start" /\ shown' = shown
      BY <2>1 DEF connectDeck, Sent
    <3>2. shown = <<>>
      BY <1>8, <2>1 DEF connectDeck, IsSent, Unsent
    <3>3. QED
      BY <1>7, <3>1, <3>2 DEF IsSent
  <2>2. CASE start
    <3>1. Received(wire, client') /\ pc' = "allText" /\ shown' = shown /\ wire' = wire
      BY <2>2 DEF start, Received
    <3>2. shown = <<>> /\ Sent(deck, wire)
      BY <1>8, <2>2 DEF start, IsSent, SentPcs
    <3>3. PICK k \in Nat : k = Len(client'.oracles)
      BY <1>6, <3>1, <3>2, SentSeq, SeqFacts
    <3>4. IsSeq(<<>>) /\ Len(<<>>) <= k
      BY NoneIsSeq
    <3>5. QED
      BY <1>7, <3>1, <3>2, <3>3, <3>4 DEF IsSent
  <2>3. CASE allText
    <3>1. /\ Received(wire, client) /\ Sent(deck, wire) /\ wire' = wire /\ client' = client
          /\ IsSeq(shown) /\ Len(shown) <= Len(client.oracles)
      BY <1>8, <2>3 DEF allText, IsSent, SentPcs
    <3>2. PICK k \in Nat : k = Len(client.oracles)
      BY <1>6, <3>1, SentSeq, SeqFacts
    <3>3. PICK m \in Nat : m = Len(shown) /\ m <= k
      BY <3>1, <3>2, SeqFacts
    <3>4. CASE pc' = "shown" /\ UNCHANGED shown
      BY <1>7, <3>1, <3>4 DEF IsSent
    <3>5. CASE m # k /\ pc' = "undefined" /\ UNCHANGED shown /\ Null(client.oracles[m + 1])
      <4>1. m < k
        BY <3>3, <3>5
      <4>2. QED
        BY <1>7, <3>1, <3>2, <3>3, <3>5, <4>1 DEF IsSent, SentPcs
    <3>6. CASE m # k /\ pc' = pc /\ \E x : shown' = Append(shown, x)
      <4>1. PICK x : shown' = Append(shown, x)
        BY <3>6
      <4>2. PICK s : s = shown'
        OBVIOUS
      <4>3. IsSeq(s) /\ Len(s) = m + 1
        BY <3>1, <3>3, <4>1, <4>2, AppendIs DEF Appended
      <4>4. m + 1 <= k
        BY <3>3, <3>6
      <4>5. IsSeq(s) /\ Len(s) <= Len(client.oracles)
        BY <3>2, <4>3, <4>4
      <4>6. pc' = "allText"
        BY <2>3, <3>6 DEF allText
      <4>7. QED
        BY <1>7, <3>1, <4>2, <4>5, <4>6 DEF IsSent
    <3>7. QED
      BY <2>3, <3>2, <3>3, <3>4, <3>5, <3>6, Zenon DEF allText, Null
  <2>4. QED
    BY <2>1, <2>2, <2>3
<1>10. file' = file /\ deck' = deck
  BY <1>1
<1>11. QED
  BY <1>2, <1>4, <1>5, <1>9, <1>10 DEF OracleInv

(* The invariant holds at first, and every step keeps it.                  *)
LEMMA OracleInitInv == ASSUME DecksAssumption, OracleInit PROVE OracleInv
<1>1. /\ pc = "getDeck" /\ file \in Decks /\ descrs = <<>> /\ oracle = NewOracle /\ phrases = 0
      /\ atom = [type |-> "none", wants |-> <<>>, params |-> <<>>]
      /\ deck = NoDeck /\ wire = NoDeck /\ shown = <<>>
  BY DEF OracleInit
<1>2. pc \notin LinePcs /\ pc \notin SentPcs
  BY <1>1 DEF LinePcs, AbilityPcs, SentPcs
<1>3. file \in Seq(Lines)
  BY <1>1 DEF DecksAssumption
<1>4. DeckRead(deck)
  BY <1>1, NoneIsSeq DEF DeckRead, NoDeck
<1>5. LinesRead(deck, descrs, pc)
  <2>1. Len(deck.oracles) = 0 /\ Len(descrs) = 0 /\ descrs \in Seq(Lines)
    BY <1>1, NoneIsSeq, EmptySeq DEF NoDeck
  <2>2. QED
    BY <1>2, <2>1 DEF LinesRead
<1>6. IsReading(oracle, atom, pc)
  <2>1. DOMAIN atom = AtomFields /\ atom.params = <<>>
    BY <1>1 DEF AtomFields
  <2>2. pc \notin AbilityPcs
    BY <1>2 DEF LinePcs
  <2>3. QED
    BY <1>1, <2>1, <2>2, NewOracleFields, NoneIsSeq, ReadingBegins
<1>7. IsSent(pc, deck, wire, client, shown)
  BY <1>1, <1>2 DEF IsSent, SentPcs
<1>8. QED
  BY <1>1, <1>3, <1>4, <1>5, <1>6, <1>7 DEF OracleInv

(* Every action of the module is one of these steps.                       *)
LEMMA OracleStep == ASSUME DecksAssumption, OracleInv, [OracleNext]_oracleVars PROVE OracleInv'
<1>1. CASE UNCHANGED oracleVars
  BY <1>1 DEF oracleVars, readVars, OracleInv
<1>2. CASE OracleNext
  BY <1>2, FileRead, LineBegins, HeaderRead, SectionRead, CostsRead, ActAbRead, AtomEffectRead,
     AbilityParameterRead, EffectRead, StatsRead, DeckSent
     DEF OracleNext
<1>3. QED
  BY <1>1, <1>2

(* So it holds always.                                                     *)
LEMMA OracleInvariant == OracleSpec => []OracleInv
<1>1. OracleInit => OracleInv
  BY DecksAssumption, OracleInitInv
<1>2. OracleInv /\ [OracleNext]_oracleVars => OracleInv'
  BY DecksAssumption, OracleStep
<1>3. QED
  BY <1>1, <1>2, PTL DEF OracleSpec

(* What the parameters of the abilities are.                               *)
LEMMA OracleInvType == ASSUME OracleInv PROVE OracleTypeOK
<1>1. ASSUME NEW c \in Oracles, NEW a \in Range(c.actabs) PROVE IsAbility(a)
  <2>1. IsOracle(c)
    BY DEF Oracles, Range, OracleInv, IsReading, DeckRead, IsRead
  <2>2. QED
    BY <2>1 DEF IsOracle, AreAbilities, Range
<1>2. ASSUME NEW a \in Abilities
      PROVE  /\ \A k, l \in DOMAIN a.slots : SameSlot(a.slots[k], a.slots[l]) => k = l
             /\ \A e \in Range(a.effects) : /\ Len(e.params) \in 1 .. 2
                                            /\ e.params[1] \in DOMAIN a.slots \cup 253 .. 255
  <2>1. IsAbility(a)
    BY <1>1 DEF Abilities
  <2>2. \A e \in Range(a.effects) : IsEffect(e, a.slots)
    BY <2>1 DEF IsAbility, Range
  <2>3. QED
    BY <2>1, <2>2 DEF IsAbility, IsDense, IsEffect, IsParam
<1>3. ASSUME NEW k \in DOMAIN slots
      PROVE  \E e \in Range(Last(oracle.actabs).effects) \cup {atom} :
               e.params # <<>> /\ e.params[1] = k
  <2>1. IsTarget(oracle.actabs, k) \/ Targets(atom, k)
    BY <1>3 DEF OracleInv, IsReading, slots, TableOf
  <2>2. CASE Targets(atom, k)
    BY <2>2 DEF Targets
  <2>3. CASE IsTarget(oracle.actabs, k)
    BY <2>3 DEF IsTarget, Targets, Range
  <2>4. QED
    BY <2>1, <2>2, <2>3
<1>4. pc = "sectionEnd" => phrases = 0
  BY DEF OracleInv, PhrasePcs
<1>5. \A n \in DOMAIN deck.cards : deck.cards[n] < Len(deck.oracles)
  BY DEF OracleInv, DeckRead
<1>6. QED
  BY <1>2, <1>3, <1>4, <1>5 DEF OracleTypeOK

(* Reading any deck (readwords.cpp:104-113): the parameters of an ability  *)
(* are a dense table, in which two effects with the same target share its  *)
(* entry, each effect finds its own, and no entry is without an effect.    *)
THEOREM TargetsShareEntries == OracleSpec => []OracleTypeOK
BY OracleInvariant, OracleInvType, PTL

(* The two bits of a byte that is sent are read from it.                   *)
LEMMA TwoBits ==
  /\ \A a \in BOOLEAN, b \in BOOLEAN :
       LET n == bit(a, 1) + bit(b, 16)
       IN  ((n \div 1) % 2 = 1 <=> a) /\ ((n \div 16) % 2 = 1 <=> b)
  /\ \A a \in BOOLEAN, b \in BOOLEAN :
       LET n == bit(a, 1) + bit(b, 2) + 4
       IN  (n % 2 = 1 <=> a) /\ ((n \div 2) % 2 = 1 <=> b)
BY DEF bit

(* An ability comes with its effects the other way round.                  *)
LEMMA AbilityArrives ==
  ASSUME NEW a, IsAbility(a)
  PROVE  [a EXCEPT !.effects = Reverse(@)] = actAbRead(writeActAb(a))
<1>1. PICK w : w = writeActAb(a)
  OBVIOUS
<1>2. /\ w.cost = a.cost /\ w.slots = a.slots /\ w.effects = a.effects
      /\ w.twobools = bit(a.tapsymbol, 1) + bit(a.ismana, 2) + 4
  BY <1>1 DEF writeActAb
<1>3. PICK r : r = actAbRead(w)
  OBVIOUS
<1>4. PICK p, q : p = (w.twobools % 2 = 1) /\ q = ((w.twobools \div 2) % 2 = 1)
  OBVIOUS
<1>5. r = [cost |-> w.cost, slots |-> w.slots, effects |-> Reverse(w.effects),
           tapsymbol |-> p, ismana |-> q]
  BY <1>3, <1>4 DEF actAbRead, effectsRead
<1>6. p = a.tapsymbol /\ q = a.ismana
  BY <1>2, <1>4, TwoBits DEF IsAbility
<1>7. PICK t : t = [a EXCEPT !.effects = Reverse(a.effects)]
  OBVIOUS
<1>8. /\ DOMAIN t = AbilityFields /\ t.cost = a.cost /\ t.slots = a.slots
      /\ t.effects = Reverse(a.effects) /\ t.tapsymbol = a.tapsymbol /\ t.ismana = a.ismana
  BY <1>7 DEF IsAbility, AbilityFields
<1>9. t = [x \in AbilityFields |-> t[x]]
  <2>1. t = [x \in DOMAIN a |-> IF x = "effects" THEN Reverse(a.effects) ELSE a[x]]
    BY <1>7, Zenon
  <2>2. QED
    BY <1>8, <2>1
<1>10. r = [x \in AbilityFields |-> t[x]]
  BY <1>2, <1>5, <1>6, <1>8 DEF AbilityFields
<1>11. QED
  BY <1>1, <1>3, <1>7, <1>9, <1>10

(* The numbers and the text arrive unless one of the numbers is 0.         *)
LEMMA TextArrives ==
  ASSUME NEW c, IsOracle(c), 0 \notin Range(c.stats)
  PROVE  writeText(c).stats = c.stats /\ writeText(c).flavor = c.flavor
<1>1. PICK I : I = {i \in 1 .. Len(c.stats) : c.stats[i] = 0}
  OBVIOUS
<1>2. I = {}
  BY <1>1, SeqFacts DEF Range, IsOracle
<1>3. SelectInSeq(c.stats, LAMBDA b : b = 0) = 0
  BY <1>1, <1>2 DEF SelectInSeq
<1>4. QED
  BY <1>3 DEF writeText

(* The card s of the server is the card c of the client.                   *)
Arrives(s, c) ==
  /\ c.name = s.name /\ c.type = s.type /\ c.underlying = s.underlying
  /\ "land" \notin s.type => c.cost = s.cost
  /\ Len(c.actabs) = Len(s.actabs)
  /\ \A k \in DOMAIN s.actabs : [s.actabs[k] EXCEPT !.effects = Reverse(@)] = c.actabs[k]
  /\ 0 \notin Range(s.stats) => c.stats = s.stats /\ c.flavor = s.flavor

(* It is, whatever it says.                                                *)
LEMMA CardArrives ==
  ASSUME NEW s, IsRead(s), NEW c, c = oracleRead(writeOracle(s)) PROVE Arrives(s, c)
<1>1. PICK w : w = writeOracle(s)
  OBVIOUS
<1>2. PICK hasAbs \in BOOLEAN, hasText \in BOOLEAN :
        hasAbs = (s.actabs # <<>>) /\ hasText = (s.stats # <<>> \/ s.flavor # <<>>)
  OBVIOUS
<1>3. /\ w.name = s.name /\ w.type = s.type /\ w.underlying = s.underlying
      /\ w.cost = IF "land" \in s.type THEN <<>> ELSE <<s.cost>>
      /\ w.flags = bit(hasAbs, 1) + bit(hasText, 16)
      /\ w.actabs = [n \in DOMAIN s.actabs |-> writeActAb(s.actabs[n])]
      /\ w.text = writeText(s)
  BY <1>1, <1>2 DEF writeOracle
<1>4. ((w.flags \div 1) % 2 = 1 <=> hasAbs) /\ ((w.flags \div 16) % 2 = 1 <=> hasText)
  BY <1>3, TwoBits
<1>5. /\ c.name = w.name /\ c.type = w.type /\ c.underlying = w.underlying
      /\ c.cost = IF w.cost = <<>> THEN "0" ELSE Head(w.cost)
      /\ c.actabs = IF hasAbs THEN [n \in DOMAIN w.actabs |-> actAbRead(w.actabs[n])] ELSE <<>>
      /\ c.stats = IF hasText THEN w.text.stats ELSE <<>>
      /\ c.flavor = IF hasText THEN w.text.flavor ELSE <<>>
  BY <1>1, <1>4 DEF oracleRead
<1>6. IsOracle(s) /\ AreAbilities(s.actabs)
  BY DEF IsRead, IsOracle
<1>7. "land" \notin s.type => c.cost = s.cost
  <2>1. SUFFICES ASSUME "land" \notin s.type PROVE c.cost = s.cost
    OBVIOUS
  <2>2. w.cost = <<s.cost>>
    BY <1>3, <2>1
  <2>3. <<s.cost>> # <<>> /\ Head(<<s.cost>>) = s.cost
    OBVIOUS
  <2>4. QED
    BY <1>5, <2>2, <2>3
<1>8. /\ Len(c.actabs) = Len(s.actabs)
      /\ \A k \in DOMAIN s.actabs : [s.actabs[k] EXCEPT !.effects = Reverse(@)] = c.actabs[k]
  <2>1. PICK n \in Nat : /\ n = Len(s.actabs) /\ DOMAIN s.actabs = 1 .. n
                         /\ s.actabs = <<>> <=> n = 0
    BY <1>6, SeqFacts DEF AreAbilities
  <2>2. CASE hasAbs
    <3>1. DOMAIN w.actabs = 1 .. n /\ \A k \in 1 .. n : w.actabs[k] = writeActAb(s.actabs[k])
      BY <1>3, <2>1
    <3>2. /\ DOMAIN c.actabs = 1 .. n
          /\ \A k \in 1 .. n : c.actabs[k] = actAbRead(writeActAb(s.actabs[k]))
      BY <1>5, <2>2, <3>1
    <3>3. PICK S : S = {actAbRead(w.actabs[k]) : k \in 1 .. n}
      OBVIOUS
    <3>4. c.actabs \in [1 .. n -> S]
      BY <1>5, <2>2, <3>1, <3>3
    <3>5. Len(c.actabs) = n
      BY <3>4, SeqUpTo
    <3>6. \A k \in 1 .. n : IsAbility(s.actabs[k])
      BY <1>6, <2>1 DEF AreAbilities
    <3>7. QED
      BY <2>1, <3>2, <3>5, <3>6, AbilityArrives
  <2>3. CASE ~hasAbs
    <3>1. c.actabs = <<>> /\ s.actabs = <<>>
      BY <1>2, <1>5, <2>3
    <3>2. DOMAIN s.actabs = {}
      BY <3>1, NoneIsSeq
    <3>3. QED
      BY <3>1, <3>2
  <2>4. QED
    BY <2>2, <2>3
<1>9. 0 \notin Range(s.stats) => c.stats = s.stats /\ c.flavor = s.flavor
  <2>1. SUFFICES ASSUME 0 \notin Range(s.stats) PROVE c.stats = s.stats /\ c.flavor = s.flavor
    OBVIOUS
  <2>2. w.text.stats = s.stats /\ w.text.flavor = s.flavor
    BY <1>3, <1>6, <2>1, TextArrives
  <2>3. QED
    BY <1>2, <1>5, <2>2
<1>10. QED
  BY <1>3, <1>5, <1>7, <1>8, <1>9 DEF Arrives

(* All of them are, and what allText may not dereference is a 0.           *)
LEMMA CardsArrive == ASSUME OracleInv PROVE ClientSeesTheCard
<1>1. IsSent(pc, deck, wire, client, shown) /\ IsSeq(deck.oracles)
      /\ \A n \in DOMAIN deck.oracles : IsRead(deck.oracles[n])
  BY DEF OracleInv, DeckRead
<1>2. ASSUME pc \in {"allText", "shown"}
      PROVE  /\ client.cards = deck.cards
             /\ \A n \in DOMAIN deck.oracles :
                  LET s == deck.oracles[n]
                      c == client.oracles[n]
                  IN  /\ c.name = s.name /\ c.type = s.type
                      /\ "land" \notin s.type => c.cost = s.cost
                      /\ c.underlying = s.underlying
                      /\ Len(c.actabs) = Len(s.actabs)
                      /\ \A k \in DOMAIN s.actabs :
                           [s.actabs[k] EXCEPT !.effects = Reverse(@)] = c.actabs[k]
                      /\ ~(0 \in Range(deck.oracles[n].stats)) =>
                           c.stats = s.stats /\ c.flavor = s.flavor
  <2>1. Sent(deck, wire) /\ Received(wire, client)
    BY <1>1, <1>2 DEF IsSent, SentPcs
  <2>2. client.cards = deck.cards
    BY <2>1 DEF Sent, Received
  <2>3. \A n \in DOMAIN deck.oracles : client.oracles[n] = oracleRead(writeOracle(deck.oracles[n]))
    BY <1>1, <2>1, SentSeq
  <2>4. \A n \in DOMAIN deck.oracles : Arrives(deck.oracles[n], client.oracles[n])
    BY <1>1, <2>3, CardArrives
  <2>5. QED
    BY <2>2, <2>4, Zenon DEF Arrives
<1>3. ASSUME pc = "undefined" /\ wire # NoDeck
      PROVE  0 \in Range(deck.oracles[Len(shown) + 1].stats)
  <2>1. /\ Sent(deck, wire) /\ Received(wire, client)
        /\ Len(shown) \in Nat /\ Len(shown) < Len(client.oracles)
        /\ Null(client.oracles[Len(shown) + 1])
    BY <1>1, <1>3 DEF IsSent
  <2>2. PICK n : n = Len(shown) + 1
    OBVIOUS
  <2>3. PICK k \in Nat : k = Len(deck.oracles) /\ DOMAIN deck.oracles = 1 .. k
    BY <1>1, SeqFacts
  <2>4. Len(client.oracles) = k
    BY <1>1, <2>1, <2>3, SentSeq
  <2>5. n \in DOMAIN deck.oracles
    BY <2>1, <2>2, <2>3, <2>4
  <2>6. PICK s, c : s = deck.oracles[n] /\ c = client.oracles[n]
    OBVIOUS
  <2>7. c = oracleRead(writeOracle(s)) /\ IsRead(s) /\ Null(c)
    BY <1>1, <2>1, <2>2, <2>5, <2>6, SentSeq
  <2>8. c.underlying = s.underlying /\ (0 \notin Range(s.stats) => c.stats = s.stats)
    BY <2>7, CardArrives DEF Arrives
  <2>9. s.stats # <<>> /\ c.stats = <<>>
    BY <2>7, <2>8 DEF Null, IsRead
  <2>10. QED
    BY <2>2, <2>6, <2>8, <2>9
<1>4. QED
  BY <1>2, <1>3 DEF ClientSeesTheCard

(* networkagent.cpp:62 to describe.cpp:61, for any deck: the client shows  *)
(* the cards of the server, and fails only where one of the numbers is 0.  *)
THEOREM ServersCardShown == OracleSpec => []ClientSeesTheCard
BY OracleInvariant, CardsArrive, PTL
=============================================================================
