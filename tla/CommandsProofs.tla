--------------------------- MODULE CommandsProofs ---------------------------
(***************************************************************************)
(* Proofs about the shell's commands, for any lines, any limits of the     *)
(* file system and any sizes of the calculator's arrays.                   *)
(***************************************************************************)
EXTENDS Commands, BdfsProofs, BdxProofs, SequenceTheorems, FiniteSetTheorems,
        WellFoundedInduction, TLAPS

-----------------------------------------------------------------------------
(* What strtok() finds                                                     *)

\* Min and Max of a set of numbers.
LEMMA MinResult ==
  ASSUME NEW S \in SUBSET Nat, S # {}
  PROVE  Min(S) \in S /\ \A y \in S : Min(S) <= y
<1>1. \E x \in S : \A y \in S : x <= y
  BY LeastElement
<1> QED
  BY <1>1 DEF Min

\* An element that is not smaller than any other is the largest.
LEMMA MaxIs ==
  ASSUME NEW S \in SUBSET Int, NEW m \in S, \A y \in S : y <= m
  PROVE  Max(S) = m
<1>1. \A y \in S : m >= y
  OBVIOUS
<1>2. Max(S) \in S /\ \A y \in S : Max(S) >= y
  BY <1>1 DEF Max
<1>3. PICK x \in S : x = Max(S)
  BY <1>2
<1>4. x >= m /\ m >= x
  BY <1>1, <1>2, <1>3
<1> QED
  BY <1>3, <1>4

\* A part of a part of a sequence.
LEMMA PartOfPart ==
  ASSUME NEW C, NEW s \in Seq(C), NEW b \in Nat, NEW c \in Nat, NEW d \in Nat,
         1 <= c, b + d <= Len(s)
  PROVE  SubSeq(SubSeq(s, b + 1, Len(s)), c, d) = SubSeq(s, b + c, b + d)
<1> DEFINE t == SubSeq(s, b + 1, Len(s))
           u == SubSeq(t, c, d)
           v == SubSeq(s, b + c, b + d)
<1>0. Len(s) \in Nat
  OBVIOUS
<1>1. \A i \in (b + 1)..Len(s) : s[i] \in C
  BY <1>0, ElementOfSeq
<1>2. /\ t \in Seq(C) /\ Len(t) = IF b + 1 <= Len(s) THEN Len(s) - (b + 1) + 1 ELSE 0
      /\ \A i \in 1..(Len(s) - (b + 1) + 1) : t[i] = s[b + 1 + i - 1]
  BY <1>0, <1>1, SubSeqProperties
<1>3. \A i \in 1..(Len(s) - b) : t[i] = s[b + i]
  BY <1>0, <1>2
<1> HIDE DEF t
<1>4. \A i \in c..d : t[i] = s[b + i] /\ s[b + i] \in C
  BY <1>0, <1>1, <1>3
<1>5. /\ u \in Seq(C) /\ Len(u) = IF c <= d THEN d - c + 1 ELSE 0
      /\ \A i \in 1..(d - c + 1) : u[i] = t[c + i - 1]
  BY <1>4, SubSeqProperties
<1>6. \A i \in (b + c)..(b + d) : s[i] \in C
  BY <1>0, <1>1
<1>7. /\ v \in Seq(C) /\ Len(v) = IF b + c <= b + d THEN (b + d) - (b + c) + 1 ELSE 0
      /\ \A i \in 1..((b + d) - (b + c) + 1) : v[i] = s[b + c + i - 1]
  BY <1>6, SubSeqProperties
<1> HIDE DEF u, v
<1>8. Len(u) = Len(v)
  BY <1>5, <1>7
<1>9. \A i \in 1..Len(u) : u[i] = v[i]
  <2> SUFFICES ASSUME NEW i \in 1..Len(u)
               PROVE  u[i] = v[i]
    OBVIOUS
  <2>1. PICK k \in Nat : k = c + i - 1
    BY <1>5
  <2>2. c <= d /\ i \in 1..(d - c + 1) /\ i \in 1..((b + d) - (b + c) + 1) /\ k \in c..d
    BY <1>5, <2>1
  <2>3. u[i] = t[k] /\ v[i] = s[b + c + i - 1]
    BY <1>5, <1>7, <2>1, <2>2
  <2>4. b + c + i - 1 = b + k
    BY <2>1, <2>2
  <2> QED
    BY <1>4, <2>2, <2>3, <2>4
<1>10. u = v
  BY <1>5, <1>7, <1>8, <1>9, SeqEqual
<1> QED
  BY <1>10 DEF u, v, t

\* What is left of a line from b + 1 on begins with spaces up to p and goes on
\* with the word from p to q.
WordAt(line, b, p, q) ==
  /\ b < p /\ p <= q /\ q <= Len(line)
  /\ \A i \in (b + 1)..(p - 1) : line[i] = Space
  /\ \A i \in p..q : line[i] # Space
  /\ q = Len(line) \/ line[q + 1] = Space

\* strtok() finds the next word, and goes on behind the space after it.
LEMMA TokenResult ==
  ASSUME NEW C, NEW line \in Seq(C), NEW b \in Nat,
         NEW state, state = SubSeq(line, b + 1, Len(line))
  PROVE  \/ /\ \A i \in (b + 1)..Len(line) : line[i] = Space
            /\ strtok(state, {Space}) = [token |-> <<>>, state |-> <<>>]
         \/ \E p, q \in Nat :
              /\ WordAt(line, b, p, q)
              /\ strtok(state, {Space}) = [token |-> SubSeq(line, p, q),
                                           state |-> SubSeq(line, q + 2, Len(line))]
<1>0. PICK n \in Nat : n = Len(line)
  OBVIOUS
<1>1. \A i \in (b + 1)..n : line[i] \in C
  BY <1>0, ElementOfSeq
<1>2. /\ state \in Seq(C) /\ Len(state) = IF b + 1 <= n THEN n - (b + 1) + 1 ELSE 0
      /\ \A i \in 1..(n - (b + 1) + 1) : state[i] = line[b + 1 + i - 1]
  BY <1>0, <1>1, SubSeqProperties
<1>3. PICK l \in Nat : l = Len(state)
  <2>1. Len(state) \in Nat
    BY <1>2, LenProperties
  <2> QED
    BY <2>1
<1>4. IF b <= n THEN b + l = n ELSE l = 0
  BY <1>2, <1>3
<1>8. ASSUME NEW i \in 1..l
      PROVE  state[i] = line[b + i] /\ b + i \in (b + 1)..n
  <2>1. i \in 1..(n - (b + 1) + 1) /\ b + 1 + i - 1 = b + i
    BY <1>2, <1>3
  <2>2. b + i \in (b + 1)..n
    BY <1>4
  <2> QED
    BY <1>2, <2>1, <2>2
<1>9. ASSUME NEW i \in (b + 1)..n
      PROVE  \E x \in 1..l : x + b = i /\ state[x] = line[i]
  <2>1. PICK x \in Nat : x = i - b
    OBVIOUS
  <2>2. x \in 1..l /\ b + x = i /\ x + b = i
    BY <1>4, <2>1
  <2> QED
    BY <1>8, <2>2
<1> DEFINE is_other == {i \in 1..Len(state) : state[i] \notin {Space}}
           start == Min(is_other)
           ends == {i \in start..Len(state) : state[i] \in {Space}}
           p == b + start
<1>5. strtok(state, {Space}) =
        IF is_other = {} THEN [token |-> <<>>, state |-> <<>>]
        ELSE IF ends = {} THEN [token |-> SubSeq(state, start, Len(state)), state |-> <<>>]
        ELSE [token |-> SubSeq(state, start, Min(ends) - 1),
              state |-> SubSeq(state, Min(ends) + 1, Len(state))]
  BY DEF strtok, Null
<1>6. CASE is_other = {}
  <2>1. \A i \in (b + 1)..Len(line) : line[i] = Space
    BY <1>0, <1>3, <1>9, <1>6
  <2> QED
    BY <1>5, <1>6, <2>1
<1>7. CASE is_other # {}
  <2>1. start \in is_other /\ \A i \in is_other : start <= i
    <3>1. is_other \in SUBSET Nat
      BY <1>3
    <3> QED
      BY <1>7, <3>1, MinResult
  <2> HIDE DEF start
  <2>2. start \in 1..l /\ state[start] # Space
    BY <1>3, <2>1
  <2>3. b <= n /\ b + l = n /\ p \in Nat /\ b < p /\ p <= n
    BY <1>4, <2>2
  <2>4. \A i \in (b + 1)..(p - 1) : line[i] = Space
    <3> SUFFICES ASSUME NEW i \in (b + 1)..(p - 1), line[i] # Space
                 PROVE  FALSE
      OBVIOUS
    <3>1. i \in (b + 1)..n
      BY <2>3
    <3>2. PICK x \in 1..l : x + b = i /\ state[x] = line[i]
      BY <1>9, <3>1
    <3>3. x \in is_other
      BY <1>3, <3>2
    <3>4. start <= x
      BY <2>1, <3>3
    <3> QED
      BY <2>2, <3>2, <3>4
  <2>5. CASE ends = {}
    <3>1. \A i \in p..n : line[i] # Space
      <4> SUFFICES ASSUME NEW i \in p..n, line[i] = Space
                   PROVE  FALSE
        OBVIOUS
      <4>1. i \in (b + 1)..n
        BY <2>2, <2>3
      <4>2. PICK x \in 1..l : x + b = i /\ state[x] = line[i]
        BY <1>9, <4>1
      <4>3. x \in start..l
        BY <2>2, <4>2
      <4> QED
        BY <1>3, <2>5, <4>2, <4>3
    <3>2. WordAt(line, b, p, n)
      BY <1>0, <2>3, <2>4, <3>1 DEF WordAt
    <3>3. SubSeq(state, start, l) = SubSeq(line, p, n)
      <4>1. SubSeq(SubSeq(line, b + 1, Len(line)), start, l) = SubSeq(line, b + start, b + l)
        BY <1>0, <2>2, <2>3, PartOfPart
      <4> QED
        BY <2>3, <4>1
    <3>4. SubSeq(line, n + 2, n) = <<>>
      BY SubSeqEmpty
    <3>5. strtok(state, {Space}) = [token |-> SubSeq(line, p, n), state |-> SubSeq(line, n + 2, n)]
      BY <1>3, <1>5, <1>7, <2>5, <3>3, <3>4
    <3> QED
      BY <1>0, <2>3, <3>2, <3>5
  <2>6. CASE ends # {}
    <3> DEFINE e == Min(ends)
    <3>1. e \in ends /\ \A i \in ends : e <= i
      <4>1. ends \in SUBSET Nat
        BY <1>3, <2>2
      <4> QED
        BY <2>6, <4>1, MinResult
    <3> HIDE DEF e
    <3>2. e \in start..l /\ e \in Nat /\ state[e] = Space
      BY <1>3, <2>2, <3>1
    <3>3. e # start
      BY <2>2, <3>2
    <3>4. PICK q \in Nat : q = b + (e - 1)
      BY <2>2, <3>2
    <3>5. p <= q /\ q < n /\ q + 1 = b + e
      BY <2>2, <2>3, <3>2, <3>3, <3>4
    <3>6. line[q + 1] = Space
      <4>1. e \in 1..l
        BY <2>2, <3>2
      <4> QED
        BY <1>8, <3>2, <3>5, <4>1
    <3>7. \A i \in p..q : line[i] # Space
      <4> SUFFICES ASSUME NEW i \in p..q, line[i] = Space
                   PROVE  FALSE
        OBVIOUS
      <4>1. i \in (b + 1)..n
        BY <2>2, <2>3, <3>5
      <4>2. PICK x \in 1..l : x + b = i /\ state[x] = line[i]
        BY <1>9, <4>1
      <4>3. x \in start..l /\ x < e
        BY <2>2, <3>2, <3>4, <4>2
      <4>4. x \in ends
        BY <1>3, <4>2, <4>3
      <4> QED
        BY <3>1, <3>2, <4>3, <4>4
    <3>8. WordAt(line, b, p, q)
      BY <1>0, <2>3, <2>4, <3>5, <3>6, <3>7 DEF WordAt
    <3>9. SubSeq(state, start, e - 1) = SubSeq(line, p, q)
      <4>1. PICK d \in Nat : d = e - 1
        BY <2>2, <3>2
      <4>2. b + d = q /\ b + d <= Len(line) /\ 1 <= start /\ start \in Nat
        BY <1>0, <2>2, <3>4, <3>5, <4>1
      <4>3. SubSeq(SubSeq(line, b + 1, Len(line)), start, d) = SubSeq(line, b + start, b + d)
        BY <4>2, PartOfPart
      <4> QED
        BY <4>1, <4>2, <4>3
    <3>10. SubSeq(state, e + 1, l) = SubSeq(line, q + 2, n)
      <4>1. PICK c \in Nat : c = e + 1
        BY <3>2
      <4>2. b + l = n /\ b + l <= Len(line) /\ 1 <= c /\ b + c = q + 2
        BY <1>0, <2>3, <3>2, <3>5, <4>1
      <4>3. SubSeq(SubSeq(line, b + 1, Len(line)), c, l) = SubSeq(line, b + c, b + l)
        BY <4>2, PartOfPart
      <4> QED
        BY <4>1, <4>2, <4>3
    <3>11. strtok(state, {Space}) = [token |-> SubSeq(line, p, q), state |-> SubSeq(line, q + 2, n)]
      BY <1>3, <1>5, <1>7, <2>6, <3>9, <3>10 DEF e
    <3> QED
      BY <1>0, <2>3, <3>8, <3>11
  <2> QED
    BY <2>5, <2>6
<1> QED
  BY <1>6, <1>7

\* The word starts of a line up to position b, and their number.
StartsTo(line, b) == {j \in WordStarts(line) : j <= b}

\* A line has finitely many of them, and no more up to b than in all.
LEMMA StartsFinite ==
  ASSUME NEW C, NEW line \in Seq(C), NEW b
  PROVE  /\ IsFiniteSet(WordStarts(line)) /\ IsFiniteSet(StartsTo(line, b))
         /\ Cardinality(WordStarts(line)) \in Nat /\ Cardinality(StartsTo(line, b)) \in Nat
         /\ Cardinality(StartsTo(line, b)) <= Cardinality(WordStarts(line))
<1>1. IsFiniteSet(1..Len(line))
  BY FS_Interval
<1>2. WordStarts(line) \subseteq 1..Len(line) /\ StartsTo(line, b) \subseteq WordStarts(line)
  BY DEF WordStarts, StartsTo
<1>3. IsFiniteSet(WordStarts(line))
  BY <1>1, <1>2, FS_Subset
<1> QED
  BY <1>2, <1>3, FS_Subset, FS_CardinalityType

\* The line is cut behind its word n and the space that follows.
Cut(line, b, n) ==
  /\ b = 0 \/ b > Len(line) \/ line[b] = Space
  /\ Cardinality(StartsTo(line, b)) = n

\* The word behind a cut is word n + 1, and there is a cut behind it again.
LEMMA WordIs ==
  ASSUME NEW C, NEW line \in Seq(C), NEW b \in Nat, NEW n \in Nat, Cut(line, b, n),
         NEW p \in Nat, NEW q \in Nat, WordAt(line, b, p, q)
  PROVE  /\ HasWord(line, n + 1)
         /\ StartOf(line, n + 1) = p /\ EndOf(line, n + 1) = q
         /\ Cut(line, q + 1, n + 1)
<1>0. PICK l \in Nat : l = Len(line)
  OBVIOUS
<1>1. /\ b < p /\ p <= q /\ q <= l
      /\ \A i \in (b + 1)..(p - 1) : line[i] = Space
      /\ \A i \in p..q : line[i] # Space
      /\ q = l \/ line[q + 1] = Space
  BY <1>0 DEF WordAt
<1> DEFINE W == WordStarts(line)
<1>2. W \in SUBSET (1..l)
  BY <1>0 DEF WordStarts
<1>3. p \in W
  <2>1. p \in 1..l /\ line[p] # Space
    BY <1>1
  <2>2. p = 1 \/ line[p - 1] = Space
    <3>1. CASE b + 1 = p
      <4>1. b = p - 1 /\ b <= l
        BY <1>1, <3>1
      <4>2. b = 0 \/ line[b] = Space
        BY <1>0, <4>1 DEF Cut
      <4> QED
        BY <3>1, <4>1, <4>2
    <3>2. CASE b + 1 # p
      <4>1. p - 1 \in (b + 1)..(p - 1)
        BY <1>1, <3>2
      <4> QED
        BY <1>1, <4>1
    <3> QED
      BY <3>1, <3>2
  <2> QED
    BY <1>0, <2>1, <2>2 DEF WordStarts
<1>4. ASSUME NEW j \in W
      PROVE  (j <= b \/ j >= p) /\ (j <= q => j <= p)
  <2>1. j \in 1..l /\ line[j] # Space /\ (j = 1 \/ line[j - 1] = Space)
    BY <1>0 DEF WordStarts
  <2>2. ~(j \in (b + 1)..(p - 1))
    BY <1>1, <2>1
  <2>3. ASSUME j <= q, p < j
        PROVE  FALSE
    <3>1. j - 1 \in p..q /\ j # 1
      BY <1>1, <2>1, <2>3
    <3> QED
      BY <1>1, <2>1, <3>1
  <2> QED
    BY <1>1, <2>1, <2>2, <2>3
<1> HIDE DEF W
<1>5. \A x : StartsTo(line, x) = {j \in W : j <= x}
  BY DEF StartsTo, W
<1>6. /\ \A x : IsFiniteSet(StartsTo(line, x)) /\ Cardinality(StartsTo(line, x)) \in Nat
      /\ \A x : Cardinality(StartsTo(line, x)) <= Cardinality(W)
      /\ IsFiniteSet(W) /\ Cardinality(W) \in Nat
  BY StartsFinite DEF W
<1>7. StartsTo(line, p) = StartsTo(line, b) \cup {p} /\ p \notin StartsTo(line, b)
  <2>1. \A j \in W : j <= p <=> (j <= b \/ j = p)
    <3> SUFFICES ASSUME NEW j \in W
                 PROVE  j <= p <=> (j <= b \/ j = p)
      OBVIOUS
    <3>1. j \in Nat /\ (j <= b \/ j >= p)
      BY <1>2, <1>4
    <3> QED
      BY <1>1, <3>1
  <2>2. ~(p <= b)
    BY <1>1
  <2> QED
    BY <1>3, <1>5, <2>1, <2>2
<1>8. Cardinality(StartsTo(line, p)) = n + 1
  <2>1. Cardinality(StartsTo(line, b)) = n
    BY DEF Cut
  <2> QED
    BY <1>6, <1>7, <2>1, FS_AddElement
<1>9. HasWord(line, n + 1)
  <2>1. n + 1 <= Cardinality(W) /\ n + 1 \in Nat
    BY <1>6, <1>8
  <2> QED
    BY <1>6, <2>1 DEF HasWord, W
<1>10. ASSUME NEW i \in W, Cardinality(StartsTo(line, i)) = n + 1
       PROVE  i = p
  <2>1. i \in Nat
    BY <1>2
  <2>2. ASSUME NEW x \in W, NEW y \in W, x < y,
               Cardinality(StartsTo(line, x)) = Cardinality(StartsTo(line, y))
        PROVE  FALSE
    <3>1. x \in Nat /\ y \in Nat
      BY <1>2
    <3>2. StartsTo(line, x) \subseteq StartsTo(line, y) /\ y \in StartsTo(line, y)
          /\ y \notin StartsTo(line, x)
      <4>1. \A j \in W : j <= x => j <= y
        <5>1. \A j \in W : j \in Nat
          BY <1>2
        <5> QED
          BY <2>2, <3>1, <5>1
      <4>2. y <= y /\ ~(y <= x)
        BY <2>2, <3>1
      <4> QED
        BY <1>5, <4>1, <4>2
    <3> QED
      BY <1>6, <2>2, <3>2, FS_Subset
  <2> QED
    BY <1>3, <1>8, <1>10, <2>1, <2>2
<1>11. StartOf(line, n + 1) = p
  BY <1>3, <1>5, <1>8, <1>10 DEF StartOf, W
<1>12. EndOf(line, n + 1) = q
  <2> DEFINE E == {i \in p..Len(line) : \A j \in p..i : line[j] # Space}
  <2>1. q \in E
    BY <1>0, <1>1
  <2>2. ASSUME NEW i \in E
        PROVE  i <= q
    <3>1. i \in p..l /\ \A j \in p..i : line[j] # Space
      BY <1>0
    <3>2. q < i => q + 1 \in p..i /\ q # l
      BY <1>1, <3>1
    <3> QED
      BY <1>1, <3>1, <3>2
  <2>3. E \in SUBSET Int
    BY <1>0
  <2> HIDE DEF E
  <2>4. Max(E) = q
    BY <2>1, <2>2, <2>3, MaxIs
  <2> QED
    BY <1>11, <2>4 DEF EndOf, E
<1>13. Cut(line, q + 1, n + 1)
  <2>1. q + 1 > Len(line) \/ line[q + 1] = Space
    BY <1>0, <1>1
  <2>2. StartsTo(line, q + 1) = StartsTo(line, p)
    <3>1. ASSUME NEW j \in W
          PROVE  j <= q + 1 <=> j <= p
      <4>1. j \in 1..l
        BY <1>2
      <4>2. j = q + 1 => FALSE
        BY <1>0, <1>1, <4>1 DEF W, WordStarts
      <4> QED
        BY <1>1, <1>4, <4>1, <4>2
    <3> QED
      BY <1>5, <3>1
  <2> QED
    BY <1>8, <2>1, <2>2 DEF Cut
<1> QED
  BY <1>9, <1>11, <1>12, <1>13

\* A call of strtok() behind word n finds word n + 1, or there is none.
LEMMA NextWord ==
  ASSUME NEW C, NEW line \in Seq(C), NEW b \in Nat, NEW n \in Nat, Cut(line, b, n),
         NEW state, state = SubSeq(line, b + 1, Len(line))
  PROVE  \/ /\ ~HasWord(line, n + 1)
            /\ strtok(state, {Space}) = [token |-> <<>>, state |-> <<>>]
         \/ \E p, q \in Nat :
              /\ WordAt(line, b, p, q) /\ HasWord(line, n + 1)
              /\ EndOf(line, n + 1) = q /\ Cut(line, q + 1, n + 1)
              /\ TheWord(line, n + 1) = SubSeq(line, p, q)
              /\ BehindWord(line, n + 1) = SubSeq(line, q + 2, Len(line))
              /\ strtok(state, {Space}) =
                   [token |-> TheWord(line, n + 1), state |-> BehindWord(line, n + 1)]
<1>1. CASE /\ \A i \in (b + 1)..Len(line) : line[i] = Space
           /\ strtok(state, {Space}) = [token |-> <<>>, state |-> <<>>]
  <2>1. WordStarts(line) = StartsTo(line, b)
    <3>1. ASSUME NEW j \in WordStarts(line)
          PROVE  j <= b
      <4>1. j \in 1..Len(line) /\ line[j] # Space /\ Len(line) \in Nat
        BY DEF WordStarts
      <4> QED
        BY <1>1, <4>1
    <3> QED
      BY <3>1 DEF StartsTo
  <2>2. Cardinality(WordStarts(line)) = n
    BY <2>1 DEF Cut
  <2>3. ~HasWord(line, n + 1)
    BY <2>2 DEF HasWord
  <2> QED
    BY <1>1, <2>3
<1>2. ASSUME NEW p \in Nat, NEW q \in Nat, WordAt(line, b, p, q),
             strtok(state, {Space}) = [token |-> SubSeq(line, p, q),
                                       state |-> SubSeq(line, q + 2, Len(line))]
      PROVE  /\ HasWord(line, n + 1)
             /\ EndOf(line, n + 1) = q /\ Cut(line, q + 1, n + 1)
             /\ TheWord(line, n + 1) = SubSeq(line, p, q)
             /\ BehindWord(line, n + 1) = SubSeq(line, q + 2, Len(line))
             /\ strtok(state, {Space}) =
                  [token |-> TheWord(line, n + 1), state |-> BehindWord(line, n + 1)]
  <2>1. /\ HasWord(line, n + 1)
        /\ StartOf(line, n + 1) = p /\ EndOf(line, n + 1) = q
        /\ Cut(line, q + 1, n + 1)
    BY <1>2, WordIs
  <2> QED
    BY <1>2, <2>1 DEF TheWord, BehindWord
<1> QED
  BY <1>1, <1>2, TokenResult

\* Without delimiters strtok() returns what is left.
LEMMA RestResult ==
  ASSUME NEW C, NEW s \in Seq(C)
  PROVE  strtok(s, {}).token = s
<1> DEFINE is_other == {i \in 1..Len(s) : s[i] \notin {}}
           start == Min(is_other)
           ends == {i \in start..Len(s) : s[i] \in {}}
<1>0. Len(s) \in Nat /\ is_other = 1..Len(s) /\ ends = {}
  OBVIOUS
<1>1. strtok(s, {}) =
        IF is_other = {} THEN [token |-> <<>>, state |-> <<>>]
        ELSE IF ends = {} THEN [token |-> SubSeq(s, start, Len(s)), state |-> <<>>]
        ELSE [token |-> SubSeq(s, start, Min(ends) - 1), state |-> SubSeq(s, Min(ends) + 1, Len(s))]
  BY DEF strtok, Null
<1>2. CASE s = <<>>
  <2>1. is_other = {}
    BY <1>2
  <2> QED
    BY <1>1, <1>2, <2>1
<1>3. CASE s # <<>>
  <2>1. Len(s) \in Nat \ {0}
    BY <1>3, EmptySeq
  <2>2. 1 \in is_other /\ is_other \in SUBSET Nat
    BY <1>0, <2>1
  <2>3. start = 1
    <3>1. is_other # {}
      BY <2>2
    <3>2. start \in is_other /\ \A y \in is_other : start <= y
      BY <2>2, <3>1, MinResult
    <3> HIDE DEF start
    <3>3. start \in 1..Len(s) /\ start <= 1
      BY <1>0, <2>2, <3>2
    <3> QED
      BY <1>0, <3>3
  <2>4. strtok(s, {}) = [token |-> SubSeq(s, start, Len(s)), state |-> <<>>]
    <3>1. is_other # {} /\ ends = {}
      BY <1>0, <2>2
    <3> HIDE DEF is_other, ends, start
    <3> QED
      BY <1>1, <3>1
  <2> HIDE DEF start
  <2>5. SubSeq(s, 1, Len(s)) = s
    BY SubSeqFull
  <2> QED
    BY <2>3, <2>4, <2>5
<1> QED
  BY <1>2, <1>3

\* What strtok() returned is word n of the line and what follows it, and the
\* next call goes on from there.
IsWord(line, n, next) ==
  /\ HasWord(line, n) /\ next.token = TheWord(line, n) /\ next.token # Null
  /\ next.state = BehindWord(line, n) /\ next.state \in Seq(Symbol)
Finds(line, n, next) ==
  /\ IsWord(line, n, next)
  /\ \E d \in Nat : Cut(line, d, n) /\ next.state = SubSeq(line, d + 1, Len(line))

\* A call of strtok() behind word m returns word n = m + 1.
LEMMA OneToken ==
  ASSUME NEW line \in Seq(Symbol), NEW b \in Nat, NEW m \in Nat, Cut(line, b, m),
         NEW n, n = m + 1,
         NEW next, next = strtok(SubSeq(line, b + 1, Len(line)), {Space})
  PROVE  IF next.token = Null THEN ~HasWord(line, n) ELSE Finds(line, n, next)
<1>0. Len(line) \in Nat
  OBVIOUS
<1>1. CASE ~HasWord(line, n) /\ next = [token |-> <<>>, state |-> <<>>]
  BY <1>1 DEF Null
<1>2. ASSUME NEW p \in Nat, NEW q \in Nat,
             WordAt(line, b, p, q), HasWord(line, n), Cut(line, q + 1, n),
             TheWord(line, n) = SubSeq(line, p, q),
             BehindWord(line, n) = SubSeq(line, q + 2, Len(line)),
             next = [token |-> TheWord(line, n), state |-> BehindWord(line, n)]
      PROVE  next.token # Null /\ Finds(line, n, next)
  <2>1. p <= q /\ q <= Len(line) /\ b < p
    BY <1>2 DEF WordAt
  <2>2. \A i \in p..q : line[i] \in Symbol
    BY <1>0, <2>1, ElementOfSeq
  <2>3. Len(SubSeq(line, p, q)) = q - p + 1
    BY <2>1, <2>2, SubSeqProperties
  <2>4. SubSeq(line, p, q) # <<>>
    <3>1. Len(SubSeq(line, p, q)) # 0 /\ Len(<<>>) = 0
      BY <2>1, <2>3
    <3> QED
      BY <3>1
  <2>5. \A i \in (q + 2)..Len(line) : line[i] \in Symbol
    BY <1>0, ElementOfSeq
  <2>6. SubSeq(line, q + 2, Len(line)) \in Seq(Symbol)
    BY <1>0, <2>5, SubSeqProperties
  <2>7. PICK d \in Nat : d = q + 1
    OBVIOUS
  <2>8. d + 1 = q + 2 /\ Cut(line, d, n)
    BY <1>2, <2>7
  <2>9. /\ next.token = SubSeq(line, p, q) /\ next.token = TheWord(line, n)
        /\ next.state = BehindWord(line, n) /\ next.state = SubSeq(line, q + 2, Len(line))
    <3>1. next = [token |-> TheWord(line, n), state |-> BehindWord(line, n)]
      BY <1>2
    <3>2. PICK w, r : w = TheWord(line, n) /\ r = BehindWord(line, n)
      OBVIOUS
    <3>3. next = [token |-> w, state |-> r]
      BY <3>1, <3>2
    <3>4. next.token = w /\ next.state = r
      BY <3>3
    <3> QED
      BY <1>2, <3>2, <3>4
  <2>10. IsWord(line, n, next)
    BY <1>2, <2>4, <2>6, <2>9 DEF IsWord, Null
  <2> QED
    BY <2>4, <2>8, <2>9, <2>10 DEF Finds, Null
<1> QED
  BY <1>1, <1>2, NextWord

\* What process_command() and the handlers take apart with strtok() are the
\* words of the line.
LEMMA Tokens ==
  ASSUME command \in Seq(Symbol)
  PROVE  /\ First.token = Null => ~HasWord(command, 1)
         /\ First.token # Null =>
              IsWord(command, 1, First) /\ RestAfterFirst = First.state
         /\ First.token # Null /\ Second.token # Null =>
              IsWord(command, 2, Second) /\ RestAfterSecond = Second.state
         /\ First.token # Null /\ Second.token # Null /\ Third.token # Null =>
              IsWord(command, 3, Third)
<1>0. PICK line \in Seq(Symbol) : line = command
  OBVIOUS
<1>1. Cut(line, 0, 0) /\ SubSeq(line, 0 + 1, Len(line)) = line
  <2>1. StartsTo(line, 0) = {}
    BY DEF StartsTo, WordStarts
  <2>2. Cardinality(StartsTo(line, 0)) = 0
    BY <2>1, FS_EmptySet
  <2>3. SubSeq(line, 1, Len(line)) = line
    BY SubSeqFull
  <2> QED
    BY <2>2, <2>3 DEF Cut
<1>2. PICK first, second, third : first = First /\ second = Second /\ third = Third
  OBVIOUS
<1>3. IF first.token = Null THEN ~HasWord(line, 1) ELSE Finds(line, 1, first)
  <2>1. first = strtok(SubSeq(line, 0 + 1, Len(line)), {Space})
    BY <1>0, <1>1, <1>2, Zenon DEF First
  <2>2. 0 \in Nat /\ 1 = 0 + 1
    OBVIOUS
  <2> QED
    BY <1>1, <2>1, <2>2, OneToken
<1>4. ASSUME first.token # Null
      PROVE  IF second.token = Null THEN ~HasWord(line, 2) ELSE Finds(line, 2, second)
  <2>1. PICK d \in Nat : Cut(line, d, 1) /\ first.state = SubSeq(line, d + 1, Len(line))
    BY <1>3, <1>4 DEF Finds
  <2>2. second = strtok(SubSeq(line, d + 1, Len(line)), {Space}) /\ 1 \in Nat /\ 2 = 1 + 1
    BY <1>2, <2>1 DEF Second
  <2> QED
    BY <2>1, <2>2, OneToken
<1>5. ASSUME first.token # Null, second.token # Null
      PROVE  IF third.token = Null THEN ~HasWord(line, 3) ELSE Finds(line, 3, third)
  <2>1. PICK d \in Nat : Cut(line, d, 2) /\ second.state = SubSeq(line, d + 1, Len(line))
    BY <1>4, <1>5 DEF Finds
  <2>2. third = strtok(SubSeq(line, d + 1, Len(line)), {Space}) /\ 2 \in Nat /\ 3 = 2 + 1
    BY <1>2, <2>1 DEF Third
  <2> QED
    BY <2>1, <2>2, OneToken
<1>6. \A s \in Seq(Symbol) : strtok(s, {}).token = s
  BY RestResult
<1>7. first.token # Null => IsWord(line, 1, first) /\ RestAfterFirst = first.state
  BY <1>2, <1>3, <1>6 DEF Finds, IsWord, RestAfterFirst
<1>8. first.token # Null /\ second.token # Null =>
        IsWord(line, 2, second) /\ RestAfterSecond = second.state
  BY <1>2, <1>4, <1>6 DEF Finds, IsWord, RestAfterSecond
<1>9. first.token # Null /\ second.token # Null /\ third.token # Null => IsWord(line, 3, third)
  BY <1>5 DEF Finds
<1> QED
  BY <1>0, <1>2, <1>3, <1>7, <1>8, <1>9

-----------------------------------------------------------------------------
(* The shell keeps to the file system's interface                          *)

\* Where process_command() stands, and what it was given.
ShellInv ==
  /\ pc \in {"boot", "prompt", "run", "done", "edit", "astray", "exception"}
  /\ command \in Lines \cup {<<>>}
  /\ pc \in {"run", "edit"} => command \in Lines
  /\ up <=> pc # "boot"
  /\ pc = "edit" => First.token = <<"cable">> /\ Second.token # Null

\* A line and its words are sequences of symbols.
LEMMA CommandType ==
  ASSUME ShellInv
  PROVE  command \in Seq(Symbol)
<1>1. <<>> \in Seq(Symbol)
  OBVIOUS
<1> QED
  BY <1>1, CommandLines DEF ShellInv

\* A word in the place of a name is a name for the file system, and the very
\* one the user entered.
LEMMA FirstName ==
  ASSUME ShellInv, command \in Lines, NEW word \in FileWord, First.token = <<word>>,
         Second.token # Null
  PROVE  /\ NameOf(Second.token) \in ArgName \ {"other"}
         /\ NameOf(Second.token) = TheWord(command, 2)[1]
         /\ HasWord(command, 1) /\ TheWord(command, 1) = <<word>> /\ HasWord(command, 2)
<1>1. First.token # Null
  BY DEF Null
<1>2. IsWord(command, 1, First) /\ IsWord(command, 2, Second)
  BY <1>1, Tokens, CommandType
<1>3. HasWord(command, 1) /\ TheWord(command, 1) = <<word>> /\ HasWord(command, 2)
      /\ Second.token = TheWord(command, 2)
  BY <1>2 DEF IsWord
<1>4. IsName(command, 2)
  BY <1>3, NamesInLines
<1> QED
  BY <1>3, <1>4 DEF IsName, NameOf

\* The second name of mv.
LEMMA SecondName ==
  ASSUME ShellInv, command \in Lines, First.token = <<"mv">>,
         Second.token # Null, Third.token # Null
  PROVE  /\ NameOf(Third.token) \in ArgName \ {"other"}
         /\ NameOf(Third.token) = TheWord(command, 3)[1]
<1>1. First.token # Null
  BY DEF Null
<1>2. IsWord(command, 1, First) /\ IsWord(command, 3, Third)
  BY <1>1, Tokens, CommandType
<1>3. HasWord(command, 1) /\ TheWord(command, 1) = <<"mv">> /\ HasWord(command, 3)
      /\ Third.token = TheWord(command, 3)
  BY <1>2 DEF IsWord
<1>4. IsName(command, 3)
  BY <1>3, NamesInLines
<1> QED
  BY <1>3, <1>4 DEF IsName, NameOf

\* The cell of a printable character is a number.
LEMMA PrintableIsNat == \A c \in 32..126 : c \in Nat
OBVIOUS

\* What write passes on is the line behind the name, and a buffer.
LEMMA WrittenData ==
  ASSUME ShellInv, command \in Lines, First.token = <<"write">>,
         Second.token # Null, RestAfterSecond # Null
  PROVE  /\ CellsOf(RestAfterSecond) = CellsOf(BehindWord(command, 2))
         /\ CellsOf(RestAfterSecond) \in Buffer
         /\ Len(CellsOf(RestAfterSecond)) \in 1..BufferSize
         /\ \A k \in 1..Len(CellsOf(RestAfterSecond)) : CellsOf(RestAfterSecond)[k] \in TextCell
<1>1. First.token # Null
  BY DEF Null
<1>2. IsWord(command, 1, First) /\ IsWord(command, 2, Second) /\ RestAfterSecond = Second.state
  BY <1>1, Tokens, CommandType
<1>3. PICK rest \in Seq(Symbol) : rest = RestAfterSecond /\ rest = BehindWord(command, 2)
  BY <1>2 DEF IsWord
<1>4. Len(rest) \in Nat \ {0}
  BY <1>3, EmptySeq DEF Null
<1>5. /\ CellsOf(rest) \in Seq(Nat) /\ Len(CellsOf(rest)) = Len(rest)
      /\ \A k \in 1..Len(rest) : CellsOf(rest)[k] \in 32..126
  <2>1. \A k \in 1..Len(rest) : rest[k] \in Symbol
    BY ElementOfSeq
  <2>2. \A k \in 1..Len(rest) : CellOf[rest[k]] \in 32..126
    BY <2>1, SavesFitBuffers DEF Symbol
  <2>3. PICK n \in Nat : n = Len(rest)
    BY <1>4
  <2>4. CellsOf(rest) = [k \in 1..n |-> CellOf[rest[k]]] /\ \A k \in 1..n : CellOf[rest[k]] \in Nat
    <3>1. ASSUME NEW k \in 1..n
          PROVE  CellOf[rest[k]] \in Nat
      <4>1. CellOf[rest[k]] \in 32..126
        BY <2>2, <2>3, Zenon
      <4> QED
        BY <4>1, PrintableIsNat, Zenon
    <3>2. CellsOf(rest) = [k \in 1..n |-> CellOf[rest[k]]]
      BY <2>3, Zenon DEF CellsOf
    <3> QED
      BY <3>1, <3>2
  <2>5. CellsOf(rest) \in Seq(Nat) /\ Len(CellsOf(rest)) = n
    BY <2>4
  <2> QED
    BY <2>2, <2>3, <2>4, <2>5
<1>6. CellsOf(rest) # <<>>
  <2>1. Len(<<>>) = 0
    OBVIOUS
  <2> QED
    BY <1>4, <1>5, <2>1
<1>7. CellsOf(BehindWord(command, 2)) \in Buffer /\ Len(CellsOf(BehindWord(command, 2))) <= BufferSize
  <2>1. HasWord(command, 2) /\ TheWord(command, 1) = <<"write">>
        /\ CellsOf(BehindWord(command, 2)) # <<>>
    BY <1>2, <1>3, <1>6 DEF IsWord
  <2> QED
    BY <2>1, SavesFitBuffers
<1>8. BufferSize \in Nat
  BY SavesFitBuffers
<1> QED
  BY <1>3, <1>4, <1>5, <1>7, <1>8 DEF TextCell

\* A call comes back while the system is up.
LEMMA CallStaysUp ==
  ASSUME Call
  PROVE  up /\ up' = up
<1>1. ASSUME NEW code, Refuse(code)
      PROVE  up' = up
  BY <1>1 DEF Refuse
<1>2. PICK name \in ArgName :
        \/ bdfs_create_file(name)
        \/ bdfs_mkdir(name)
        \/ bdfs_delete_file(name)
        \/ \E new \in ArgName : bdfs_rename_file(name, new)
        \/ bdfs_chdir(name)
        \/ \E buffer \in Buffer : bdfs_write_file(name, buffer)
        \/ bdfs_read_file(name)
  BY DEF Call
<1>3. CASE bdfs_create_file(name) \/ bdfs_mkdir(name)
  BY <1>1, <1>3 DEF bdfs_create_file, bdfs_mkdir, Create
<1>4. CASE bdfs_delete_file(name)
  BY <1>1, <1>4 DEF bdfs_delete_file
<1>5. CASE \E new \in ArgName : bdfs_rename_file(name, new)
  BY <1>1, <1>5 DEF bdfs_rename_file
<1>6. CASE bdfs_chdir(name)
  BY <1>1, <1>6 DEF bdfs_chdir
<1>7. CASE \E buffer \in Buffer : bdfs_write_file(name, buffer)
  BY <1>1, <1>7 DEF bdfs_write_file
<1>8. CASE bdfs_read_file(name)
  BY <1>1, <1>8 DEF bdfs_read_file
<1> QED
  BY <1>2, <1>3, <1>4, <1>5, <1>6, <1>7, <1>8

\* The calls the shell makes: with a name that stands for itself, and with
\* text that fits the buffers of cat and of execute_bdx().
ShellName == ArgName \ {"other"}
TextBuffer ==
  {b \in Buffer : Len(b) <= BufferSize /\ \A k \in 1..Len(b) : b[k] \in TextCell}
ShellCall ==
  \/ \E name \in ShellName :
       \/ bdfs_create_file(name)
       \/ bdfs_mkdir(name)
       \/ bdfs_delete_file(name)
       \/ \E new \in ShellName : bdfs_rename_file(name, new)
       \/ bdfs_chdir(name)
       \/ \E buffer \in TextBuffer : bdfs_write_file(name, buffer)
  \/ \E name \in ArgName : bdfs_read_file(name)
ShellNext == bdfs_init \/ ShellCall \/ \E kept \in BOOLEAN : Reset(kept)

\* They are calls of the file system.
LEMMA ShellCalls == ShellCall => Call
BY DEF ShellCall, Call, ShellName, TextBuffer

\* Every step of the shell is one call of the file system, with arguments it
\* is written for, a restart, or none of its business.
LEMMA ShellStep ==
  ASSUME ShellInv, TypeOK, [CommandsNext]_cmdvars
  PROVE  ShellInv' /\ [ShellNext]_vars
<1> DEFINE Stays == pc' \in {"done", "astray", "exception"} /\ command' = command
<1>1. ASSUME pc # "boot", Stays, up' = up
      PROVE  ShellInv'
  BY <1>1 DEF ShellInv
<1>2. ASSUME pc # "boot", Stays, ShellCall
      PROVE  ShellInv' /\ [ShellNext]_vars
  BY <1>1, <1>2, ShellCalls, CallStaysUp DEF ShellNext
<1>3. ASSUME pc # "boot", Stays, NoCall
      PROVE  ShellInv' /\ [ShellNext]_vars
  <2>1. vars' = vars /\ up' = up
    BY <1>3 DEF NoCall, vars
  <2> QED
    BY <1>1, <1>3, <2>1
<1>4. Done => Stays
  BY DEF Done
<1>5. ASSUME NEW word, Run(word)
      PROVE  pc = "run" /\ pc # "boot" /\ command \in Lines /\ First.token = <<word>>
  BY <1>5 DEF Run, ShellInv
<1>6. ASSUME NEW word, Run(word), Usage
      PROVE  ShellInv' /\ [ShellNext]_vars
  BY <1>3, <1>4, <1>5, <1>6 DEF Usage
<1>7. ASSUME NEW word \in FileWord, Run(word), Second.token # Null
      PROVE  NameOf(Second.token) \in ShellName
  BY <1>5, <1>7, FirstName DEF ShellName
<1>8. ASSUME NEW kept \in BOOLEAN, Restart(kept)
      PROVE  ShellInv' /\ [ShellNext]_vars
  <2>1. Reset(kept) /\ up' = FALSE /\ pc' = "boot" /\ command' = <<>>
    BY <1>8 DEF Restart, Reset
  <2> QED
    BY <2>1 DEF ShellInv, ShellNext
<1> HIDE DEF Stays
<1>9. CASE Boot
  <2>1. bdfs_init /\ up' = TRUE /\ pc' = "prompt" /\ command' = command
    BY <1>9 DEF Boot, bdfs_init
  <2> QED
    BY <2>1 DEF ShellInv, ShellNext
<1>10. CASE Enter
  <2>1. pc = "prompt" /\ pc' = "run" /\ command' \in Lines /\ vars' = vars /\ up' = up
    BY <1>10 DEF Enter, Lines, NoCall, vars
  <2> QED
    BY <2>1 DEF ShellInv
<1>11. CASE NextPrompt
  <2>1. pc = "done" /\ pc' = "prompt" /\ command' = <<>> /\ Refuse(0)
    BY <1>11 DEF NextPrompt
  <2>2. up /\ up' = up
    BY <2>1 DEF ShellInv, Refuse
  <2>3. current_dir_inode >= 0
    BY SizesAssumption DEF TypeOK, Inode
  <2>4. bdfs_chdir(".")
    BY <2>1, <2>2, <2>3 DEF bdfs_chdir, ChdirTarget, Refuse
  <2>5. ShellNext
    BY <2>4, NamesInLines DEF ShellNext, ShellCall, ShellName
  <2> QED
    BY <2>1, <2>2, <2>5 DEF ShellInv
<1>12. CASE Touch
  <2>1. CASE Second.token = Null /\ Usage
    BY <1>6, <1>12, <2>1 DEF Touch
  <2>2. CASE Second.token # Null /\ bdfs_create_file(NameOf(Second.token)) /\ Done
    <3>1. Run("touch") /\ NameOf(Second.token) \in ShellName
      BY <1>7, <1>12, <2>2 DEF Touch, FileWord
    <3>2. ShellCall
      BY <2>2, <3>1 DEF ShellCall
    <3> QED
      BY <1>2, <1>4, <1>5, <2>2, <3>1, <3>2
  <2> QED
    BY <1>12, <2>1, <2>2 DEF Touch
<1>13. CASE Write
  <2>1. CASE Usage
    BY <1>6, <1>13, <2>1 DEF Write
  <2>2. CASE /\ Second.token # Null /\ RestAfterSecond # Null
             /\ bdfs_write_file(NameOf(Second.token), CellsOf(RestAfterSecond)) /\ Done
    <3>1. Run("write") /\ NameOf(Second.token) \in ShellName
      BY <1>7, <1>13, <2>2 DEF Write, FileWord
    <3>2. CellsOf(RestAfterSecond) \in TextBuffer
      <4>1. PICK data : data = CellsOf(RestAfterSecond)
        OBVIOUS
      <4>2. /\ data \in Buffer /\ Len(data) \in 1..BufferSize
            /\ \A k \in 1..Len(data) : data[k] \in TextCell
        BY <1>5, <2>2, <3>1, <4>1, WrittenData
      <4> QED
        BY <4>1, <4>2, SavesFitBuffers DEF TextBuffer
    <3>3. ShellCall
      BY <2>2, <3>1, <3>2 DEF ShellCall
    <3> QED
      BY <1>2, <1>4, <1>5, <2>2, <3>1, <3>3
  <2> QED
    BY <1>13, <2>1, <2>2 DEF Write
<1>14. CASE Cat
  <2>1. CASE Usage
    BY <1>6, <1>14, <2>1 DEF Cat
  <2>2. CASE /\ Second.token # Null /\ bdfs_read_file(NameOf(Second.token))
             /\ pc' = (IF Len(ret'.bytes) > BufferSize THEN "astray" ELSE "done")
             /\ UNCHANGED command
    <3>1. Run("cat") /\ NameOf(Second.token) \in ShellName
      BY <1>7, <1>14, <2>2 DEF Cat, FileWord
    <3>2. ShellCall
      BY <2>2, <3>1 DEF ShellCall, ShellName
    <3>3. Stays
      BY <2>2 DEF Stays
    <3> QED
      BY <1>2, <1>5, <3>1, <3>2, <3>3
  <2> QED
    BY <1>14, <2>1, <2>2 DEF Cat
<1>15. CASE Rm
  <2>1. CASE Usage
    BY <1>6, <1>15, <2>1 DEF Rm
  <2>2. CASE Second.token # Null /\ bdfs_delete_file(NameOf(Second.token)) /\ Done
    <3>1. Run("rm") /\ NameOf(Second.token) \in ShellName
      BY <1>7, <1>15, <2>2 DEF Rm, FileWord
    <3>2. ShellCall
      BY <2>2, <3>1 DEF ShellCall
    <3> QED
      BY <1>2, <1>4, <1>5, <2>2, <3>1, <3>2
  <2> QED
    BY <1>15, <2>1, <2>2 DEF Rm
<1>16. CASE Mv
  <2>1. CASE Usage
    BY <1>6, <1>16, <2>1 DEF Mv
  <2>2. CASE /\ Second.token # Null /\ Third.token # Null
             /\ bdfs_rename_file(NameOf(Second.token), NameOf(Third.token)) /\ Done
    <3>1. Run("mv") /\ NameOf(Second.token) \in ShellName
      BY <1>7, <1>16, <2>2 DEF Mv, FileWord
    <3>2. NameOf(Third.token) \in ShellName
      BY <1>5, <2>2, <3>1, SecondName DEF ShellName
    <3>3. ShellCall
      BY <2>2, <3>1, <3>2 DEF ShellCall
    <3> QED
      BY <1>2, <1>4, <1>5, <2>2, <3>1, <3>3
  <2> QED
    BY <1>16, <2>1, <2>2 DEF Mv
<1>17. CASE Mkdir
  <2>1. CASE Usage
    BY <1>6, <1>17, <2>1 DEF Mkdir
  <2>2. CASE Second.token # Null /\ bdfs_mkdir(NameOf(Second.token)) /\ Done
    <3>1. Run("mkdir") /\ NameOf(Second.token) \in ShellName
      BY <1>7, <1>17, <2>2 DEF Mkdir, FileWord
    <3>2. ShellCall
      BY <2>2, <3>1 DEF ShellCall
    <3> QED
      BY <1>2, <1>4, <1>5, <2>2, <3>1, <3>2
  <2> QED
    BY <1>17, <2>1, <2>2 DEF Mkdir
<1>18. CASE Cd
  <2>1. CASE Usage
    BY <1>6, <1>18, <2>1 DEF Cd
  <2>2. CASE Second.token # Null /\ bdfs_chdir(NameOf(Second.token)) /\ Done
    <3>1. Run("cd") /\ NameOf(Second.token) \in ShellName
      BY <1>7, <1>18, <2>2 DEF Cd, FileWord
    <3>2. ShellCall
      BY <2>2, <3>1 DEF ShellCall
    <3> QED
      BY <1>2, <1>4, <1>5, <2>2, <3>1, <3>2
  <2> QED
    BY <1>18, <2>1, <2>2 DEF Cd
<1>19. CASE Echo
  BY <1>3, <1>4, <1>5, <1>19 DEF Echo
<1>20. CASE Calc
  <2>1. CASE Usage
    BY <1>6, <1>20, <2>1 DEF Calc
  <2>2. CASE ~Usage
    <3> DEFINE result == calculator_main(RestAfterFirst)
    <3>1. Run("calc") /\ NoCall /\ command' = command
          /\ pc' = IF result.end = "value" THEN "done" ELSE result.end
      BY <1>20, <2>2 DEF Calc
    <3>2. result.end \in {"value", "astray", "exception"}
      BY Zenon DEF calculator_main, evaluate_postfix
    <3> HIDE DEF result
    <3>3. Stays
      BY <3>1, <3>2 DEF Stays
    <3> QED
      BY <1>3, <1>5, <3>1, <3>3
  <2> QED
    BY <2>1, <2>2
<1>21. CASE Report
  BY <1>3, <1>4, <1>5, <1>21 DEF Report
<1>22. CASE OpenEditor
  <2>1. CASE Usage
    BY <1>6, <1>22, <2>1 DEF OpenEditor
  <2>2. CASE ~Usage
    <3>1. Run("cable") /\ Second.token # Null /\ pc' = "edit" /\ command' = command
          /\ vars' = vars /\ up' = up
      BY <1>22, <2>2 DEF OpenEditor, NoCall, vars
    <3>2. First.token = <<"cable">> /\ command \in Lines /\ pc # "boot"
      BY <1>5, <3>1
    <3>3. First' = First /\ Second' = Second
      BY <3>1 DEF First, Second
    <3> QED
      BY <3>1, <3>2, <3>3 DEF ShellInv
  <2> QED
    BY <2>1, <2>2
<1>23. CASE Save
  <2>1. PICK b \in EditBuffers : bdfs_write_file(NameOf(Second.token), b)
    BY <1>23 DEF Save
  <2>2. pc = "edit" /\ command \in Lines /\ First.token = <<"cable">> /\ Second.token # Null
    BY <1>23 DEF Save, ShellInv
  <2>3. NameOf(Second.token) \in ShellName
    BY <2>2, FirstName DEF FileWord, ShellName
  <2>7. b \in TextBuffer
    <3>1. /\ b \in Buffer /\ Len(b) < BufferSize /\ \A k \in 1..Len(b) : b[k] \in TextCell
          /\ BufferSize \in Nat
      BY SavesFitBuffers
    <3>2. Len(b) \in Nat
      <4>1. b \in Seq(Nat)
        BY <3>1, ArgumentsAssumption
      <4> QED
        BY <4>1
    <3>3. Len(b) <= BufferSize
      BY <3>1, <3>2
    <3> QED
      BY <3>1, <3>3 DEF TextBuffer
  <2>4. ShellCall
    BY <2>1, <2>3, <2>7 DEF ShellCall
  <2>5. pc' = pc /\ command' = command /\ up' = up
    BY <1>23, <2>4, ShellCalls, CallStaysUp DEF Save
  <2>6. First' = First /\ Second' = Second
    BY <2>5 DEF First, Second
  <2> QED
    BY <2>4, <2>5, <2>6 DEF ShellInv, ShellNext
<1>24. CASE Quit
  <2>1. pc # "boot" /\ Done /\ NoCall
    BY <1>24 DEF Quit
  <2> QED
    BY <1>3, <1>4, <2>1
<1>25. CASE RunProgram
  <2>1. pc # "boot" /\ bdfs_read_file(NameOf(command)) /\ ends_with_bdx
    BY <1>25 DEF RunProgram, Unnamed
  <2>2. Stays
    BY <1>4, <1>25 DEF RunProgram, Stays
  <2>3. NameOf(command) \in ArgName
    <3>1. command[Len(command)] \in BdxName
      BY <2>1 DEF ends_with_bdx, Last
    <3> QED
      BY <3>1, NamesInLines DEF NameOf
  <2>4. ShellCall
    BY <2>1, <2>3 DEF ShellCall
  <2> QED
    BY <1>2, <2>1, <2>2, <2>4
<1>26. CASE Unknown
  <2>1. pc # "boot" /\ Done /\ NoCall
    BY <1>26 DEF Unknown, Unnamed
  <2> QED
    BY <1>3, <1>4, <2>1
<1>27. CASE Reboot
  BY <1>8, <1>27 DEF Reboot
<1>28. CASE Shutdown
  <2>1. CASE Restart(FALSE)
    BY <1>8, <2>1
  <2>2. CASE Run("shutdown") /\ Done /\ NoCall
    BY <1>3, <1>4, <1>5, <2>2
  <2> QED
    BY <1>28, <2>1, <2>2 DEF Shutdown
<1>29. CASE PowerSwitch
  BY <1>8, <1>29 DEF PowerSwitch
<1>30. CASE UNCHANGED cmdvars
  <2>1. vars' = vars /\ pc' = pc /\ command' = command
    BY <1>30 DEF cmdvars
  <2>2. First' = First /\ Second' = Second /\ up' = up
    BY <2>1 DEF First, Second, vars
  <2> QED
    BY <2>1, <2>2 DEF ShellInv
<1> QED
  BY <1>9, <1>10, <1>11, <1>12, <1>13, <1>14, <1>15, <1>16, <1>17, <1>18, <1>19, <1>20,
     <1>21, <1>22, <1>23, <1>24, <1>25, <1>26, <1>27, <1>28, <1>29, <1>30 DEF CommandsNext

\* Under the shell the file system is as sound as BdfsProofs has it for any
\* caller.
FilesSound == Inv /\ UniqueNames

\* What was stored in the files is text that fits the buffers it is read
\* into, and no file has the name that stands for all the others.
SavedText ==
  /\ \A i \in Inode : written[i] = <<>> \/ written[i] \in TextBuffer
  /\ \A i \in Inode : IsFile(file_table, i) => file_table[i].name # "other"

\* The shell's calls store only such text.
LEMMA TextStep ==
  ASSUME FilesSound, SavedText, [ShellNext]_vars
  PROVE  SavedText'
<1>1. /\ file_table \in [Inode -> Entry] /\ written \in [Inode -> Seq(Nat)]
      /\ stored_magic => LoadedTable = file_table
  BY DEF FilesSound, Inv, TypeOK, ReloadIsCurrent
<1>2. ASSUME written' = written,
             \A i \in Inode : IsFile(file_table', i) =>
               \/ file_table'[i].name # "other"
               \/ IsFile(file_table, i) /\ file_table'[i].name = file_table[i].name
      PROVE  SavedText'
  BY <1>2 DEF SavedText, IsFile, Live
<1>3. ASSUME written' = written, file_table' = file_table
      PROVE  SavedText'
  BY <1>3 DEF SavedText, IsFile, Live
<1>4. ASSUME NEW code, Refuse(code)
      PROVE  SavedText'
  BY <1>3, <1>4 DEF Refuse
<1>5. CASE bdfs_init
  <2>1. CASE file_table' = LoadedTable /\ stored_magic /\ written' = written
    BY <1>1, <1>3, <2>1
  <2>2. CASE file_table' = FreshTable /\ written' = [i \in Inode |-> <<>>]
    <3>1. \A i \in Inode : FreshTable[i].type # "file" \/ FreshTable[i].name = ""
      BY DEF FreshTable, NewEntry, EmptyEntry
    <3>2. \A i \in Inode : ~IsFile(file_table', i)
      BY <2>2, <3>1 DEF IsFile, Live
    <3> QED
      BY <2>2, <3>2 DEF SavedText
  <2> QED
    BY <1>5, <2>1, <2>2 DEF bdfs_init
<1>6. ASSUME NEW name \in ShellName, NEW type, Create(name, type)
      PROVE  SavedText'
  <2>1. CASE \E code : Refuse(code)
    BY <1>4, <2>1
  <2>2. PICK f : f = find_free_entry(file_table)
    OBVIOUS
  <2>3. CASE /\ CreateError(file_table, name, current_dir_inode) = 0
             /\ file_table' = Created(file_table, name, type, current_dir_inode)
             /\ written' = [written EXCEPT ![f] = <<>>]
    <3>1. f # -1
      BY <2>2, <2>3 DEF CreateError
    <3>2. f \in Inode
      BY <2>2, <3>1, FreeEntryResult
    <3>3. PICK u : u = file_table'
      OBVIOUS
    <3>4. u = [file_table EXCEPT ![f] = NewEntry(name, type, current_dir_inode)]
      BY <2>2, <2>3, <3>3 DEF Created
    <3>5. u[f].name # "other" /\ \A i \in Inode : i # f => u[i] = file_table[i]
      BY <1>1, <3>2, <3>4 DEF NewEntry, EmptyEntry, ShellName
    <3>6. \A i \in Inode : IsFile(u, i) => u[i].name # "other"
      BY <3>5 DEF SavedText, IsFile, Live
    <3>7. \A i \in Inode : written'[i] = <<>> \/ written'[i] \in TextBuffer
      BY <1>1, <2>3, <3>2 DEF SavedText
    <3> QED
      BY <3>3, <3>6, <3>7 DEF SavedText
  <2> QED
    BY <1>6, <2>1, <2>2, <2>3 DEF Create
<1>7. ASSUME NEW name \in ShellName, bdfs_delete_file(name)
      PROVE  SavedText'
  <2>1. PICK i : i = find_entry_in_dir(file_table, name, current_dir_inode)
    OBVIOUS
  <2>2. CASE \E code : Refuse(code)
    BY <1>4, <2>2
  <2>3. CASE i # -1 /\ file_table' = [file_table EXCEPT ![i].name = ""] /\ written' = written
    <3>0. i # -1
      BY <2>3
    <3>1. i \in Inode
      BY <2>1, <3>0, FindEntryResult
    <3>2. PICK u : u = file_table'
      OBVIOUS
    <3>3. u = [file_table EXCEPT ![i].name = ""]
      BY <2>3, <3>2
    <3>4. u[i].name = "" /\ \A j \in Inode : j # i => u[j] = file_table[j]
      <4>1. u[i] = [file_table[i] EXCEPT !.name = ""] /\ file_table[i] \in Entry
            /\ \A j \in Inode : j # i => u[j] = file_table[j]
        BY <1>1, <3>1, <3>3
      <4> QED
        BY <4>1 DEF Entry
    <3>5. \A j \in Inode : IsFile(u, j) => u[j].name # "other"
      BY <3>4 DEF SavedText, IsFile, Live
    <3> QED
      BY <1>2, <2>3, <3>2, <3>5
  <2> QED
    BY <1>7, <2>1, <2>2, <2>3 DEF bdfs_delete_file
<1>8. ASSUME NEW name \in ShellName, NEW new \in ShellName, bdfs_rename_file(name, new)
      PROVE  SavedText'
  <2>1. PICK i : i = find_entry_in_dir(file_table, name, current_dir_inode)
    OBVIOUS
  <2>2. CASE \E code : Refuse(code)
    BY <1>4, <2>2
  <2>3. CASE /\ RenameError(name, new) = 0
             /\ file_table' = [file_table EXCEPT ![i].name = new] /\ written' = written
    <3>0. i # -1
      BY <2>1, <2>3 DEF RenameError
    <3>1. i \in Inode
      BY <2>1, <3>0, FindEntryResult
    <3>2. PICK u : u = file_table'
      OBVIOUS
    <3>3. u = [file_table EXCEPT ![i].name = new]
      BY <2>3, <3>2
    <3>4. u[i].name = new /\ \A j \in Inode : j # i => u[j] = file_table[j]
      BY <1>1, <3>1, <3>3 DEF Entry
    <3>5. \A j \in Inode : IsFile(u, j) => u[j].name # "other"
      BY <3>4 DEF SavedText, IsFile, Live, ShellName
    <3> QED
      BY <1>2, <2>3, <3>2, <3>5
  <2> QED
    BY <1>8, <2>1, <2>2, <2>3 DEF bdfs_rename_file
<1>9. ASSUME NEW name \in ShellName, NEW buffer \in TextBuffer, bdfs_write_file(name, buffer)
      PROVE  SavedText'
  <2>1. PICK i : i = find_entry_in_dir(file_table, name, current_dir_inode)
    OBVIOUS
  <2>2. CASE \E code : Refuse(code)
    BY <1>4, <2>2
  <2>3. CASE /\ WriteError(i, buffer) = 0
             /\ file_table' = [file_table EXCEPT ![i].start_sector = WriteStart(i),
                                                 ![i].length = Len(buffer)]
             /\ written' = [written EXCEPT ![i] = buffer]
    <3>0. i # -1
      BY <2>3 DEF WriteError
    <3>1. i \in Inode
      BY <2>1, <3>0, FindEntryResult
    <3>2. PICK u, s, l : u = file_table' /\ s = WriteStart(i) /\ l = Len(buffer)
      OBVIOUS
    <3>3. u = [file_table EXCEPT ![i].start_sector = s, ![i].length = l]
      BY <2>3, <3>2
    <3>4. \A j \in Inode : u[j].name = file_table[j].name /\ u[j].type = file_table[j].type
      BY <1>1, <3>1, <3>3 DEF Entry
    <3>5. \A j \in Inode : IsFile(u, j) => u[j].name # "other"
      BY <3>4 DEF SavedText, IsFile, Live
    <3>6. \A j \in Inode : written'[j] = <<>> \/ written'[j] \in TextBuffer
      BY <1>1, <2>3, <3>1 DEF SavedText
    <3> QED
      BY <3>2, <3>5, <3>6 DEF SavedText
  <2> QED
    BY <1>9, <2>1, <2>2, <2>3 DEF bdfs_write_file
<1>10. ASSUME NEW name, bdfs_chdir(name) \/ bdfs_read_file(name)
       PROVE  SavedText'
  <2>1. written' = written /\ file_table' = file_table
    BY <1>10 DEF bdfs_chdir, bdfs_read_file, Refuse
  <2> QED
    BY <1>3, <2>1
<1>11. ASSUME NEW kept, Reset(kept)
       PROVE  SavedText'
  BY <1>3, <1>11 DEF Reset
<1>12. CASE UNCHANGED vars
  BY <1>3, <1>12 DEF vars
<1>13. CASE ShellCall
  BY <1>6, <1>7, <1>8, <1>9, <1>10, <1>13 DEF ShellCall, bdfs_create_file, bdfs_mkdir
<1> QED
  BY <1>5, <1>11, <1>12, <1>13 DEF ShellNext

\* Whatever is entered, the shell is where it should be and the files are
\* sound.
THEOREM ShellInvariance == CommandsSpec => [](ShellInv /\ FilesSound /\ SavedText)
<1>1. CommandsInit => ShellInv /\ FilesSound /\ SavedText
  <2> SUFFICES ASSUME CommandsInit PROVE ShellInv /\ FilesSound /\ SavedText
    OBVIOUS
  <2>1. Init /\ pc = "boot" /\ command = <<>> /\ up = FALSE
    BY DEF CommandsInit, Init
  <2>2. ShellInv
    BY <2>1 DEF ShellInv
  <2>3. \A i \in Inode : file_table[i].name = ""
    BY <2>1 DEF Init, EmptyEntry
  <2>4. UniqueNames
    BY <2>3 DEF UniqueNames, Live
  <2>5. SavedText
    BY <2>1, <2>3 DEF SavedText, IsFile, Live, Init
  <2> QED
    BY <2>1, <2>2, <2>4, <2>5, InitInv DEF FilesSound
<1>2. ShellInv /\ FilesSound /\ SavedText /\ [CommandsNext]_cmdvars =>
        ShellInv' /\ FilesSound' /\ SavedText'
  <2> SUFFICES ASSUME ShellInv, FilesSound, SavedText, [CommandsNext]_cmdvars
               PROVE  ShellInv' /\ FilesSound' /\ SavedText'
    OBVIOUS
  <2>1. Inv /\ UniqueNames /\ TypeOK
    BY DEF FilesSound, Inv
  <2>2. ShellInv' /\ [ShellNext]_vars
    BY <2>1, ShellStep
  <2>3. [Next]_vars
    BY <2>2, ShellCalls DEF ShellNext, Next
  <2>4. SavedText'
    BY <2>2, TextStep
  <2> QED
    BY <2>1, <2>2, <2>3, <2>4, InvStep, UniqueNamesStep DEF FilesSound
<1> QED
  BY <1>1, <1>2, PTL DEF CommandsSpec

\* The shell uses the file system only through its calls and with the
\* arguments it is written for: whatever is proved of Bdfs holds under the
\* shell.
THEOREM ShellUsesBdfs == CommandsSpec => ShellKeepsToBdfs
<1>1. CommandsInit => Init
  BY DEF CommandsInit
<1>2. ShellInv /\ FilesSound /\ [CommandsNext]_cmdvars => [Next]_vars
  <2> SUFFICES ASSUME ShellInv, FilesSound, [CommandsNext]_cmdvars
               PROVE  [Next]_vars
    OBVIOUS
  <2>1. TypeOK
    BY DEF FilesSound, Inv
  <2>2. [ShellNext]_vars
    BY <2>1, ShellStep
  <2> QED
    BY <2>2, ShellCalls DEF ShellNext, Next
<1> QED
  BY <1>1, <1>2, ShellInvariance, PTL DEF CommandsSpec, ShellKeepsToBdfs, Spec

-----------------------------------------------------------------------------
(* What a command's message says of the directory                          *)

\* A name is in a directory when find_entry_in_dir() finds it.
LEMMA NamedResult ==
  ASSUME NEW t, NEW dir, NEW name
  PROVE  Named(t, dir, name) = {} <=> find_entry_in_dir(t, name, dir) = -1
<1>1. PICK i : i = find_entry_in_dir(t, name, dir)
  OBVIOUS
<1>2. \/ /\ i \in Inode /\ i # -1
         /\ Live(t, i) /\ t[i].parent_inode = dir /\ t[i].name = name
      \/ /\ i = -1
         /\ \A j \in Inode : ~(Live(t, j) /\ t[j].parent_inode = dir /\ t[j].name = name)
  BY <1>1, FindEntryResult
<1>3. CASE i \in Inode /\ i # -1 /\ Live(t, i) /\ t[i].parent_inode = dir /\ t[i].name = name
  <2>1. [name |-> t[i].name, type |-> t[i].type] \in Named(t, dir, name)
    BY <1>3 DEF Named, Here
  <2> QED
    BY <1>1, <1>3, <2>1
<1>4. CASE /\ i = -1
           /\ \A j \in Inode : ~(Live(t, j) /\ t[j].parent_inode = dir /\ t[j].name = name)
  BY <1>1, <1>4 DEF Named, Here
<1> QED
  BY <1>2, <1>3, <1>4

\* The entries of a directory are those of its live inodes.
LEMMA HereResult ==
  ASSUME NEW t, NEW dir, NEW e
  PROVE  e \in Here(t, dir) <=>
           \E j \in Inode : /\ Live(t, j) /\ t[j].parent_inode = dir
                            /\ e = [name |-> t[j].name, type |-> t[j].type]
BY DEF Here

\* The two tables differ at entry i at most.
OthersKept(t, u, i) == \A j \in Inode : j # i => u[j] = t[j]

\* What a directory shows after a creation, and after a rename or deletion.
Gains(t, u, dir, new, kind) == Here(u, dir) = Here(t, dir) \cup {[name |-> new, type |-> kind]}
Trades(t, u, dir, old, new, kind) ==
  Here(u, dir) = (Here(t, dir) \ Named(t, dir, old))
                   \cup (IF new = "" THEN {} ELSE {[name |-> new, type |-> kind]})

\* A new entry in a directory.
LEMMA HereAdded ==
  ASSUME NEW t \in [Inode -> Entry], NEW dir \in Inode, NEW i \in Inode, ~Live(t, i),
         NEW new, new # "", NEW kind,
         NEW u, u[i] = NewEntry(new, kind, dir), OthersKept(t, u, i)
  PROVE  Gains(t, u, dir, new, kind)
<1>1. /\ u[i].name = new /\ u[i].type = kind /\ u[i].parent_inode = dir
      /\ Live(u, i)
  BY DEF NewEntry, EmptyEntry, Live
<1>2. \A j \in Inode : j # i => u[j] = t[j] /\ (Live(u, j) <=> Live(t, j))
  BY DEF Live, OthersKept
<1>3. ASSUME NEW e \in Here(u, dir)
      PROVE  e \in Here(t, dir) \cup {[name |-> new, type |-> kind]}
  <2>1. PICK j \in Inode : /\ Live(u, j) /\ u[j].parent_inode = dir
                           /\ e = [name |-> u[j].name, type |-> u[j].type]
    BY <1>3 DEF Here
  <2>2. CASE j = i
    BY <1>1, <2>1, <2>2
  <2>3. CASE j # i
    <3>1. Live(t, j) /\ t[j].parent_inode = dir /\ e = [name |-> t[j].name, type |-> t[j].type]
      BY <1>2, <2>1, <2>3
    <3>2. e \in Here(t, dir)
      BY <3>1, HereResult, Zenon
    <3> QED
      BY <3>2
  <2> QED
    BY <2>2, <2>3
<1>4. ASSUME NEW e \in Here(t, dir)
      PROVE  e \in Here(u, dir)
  <2>1. PICK j \in Inode : /\ Live(t, j) /\ t[j].parent_inode = dir
                           /\ e = [name |-> t[j].name, type |-> t[j].type]
    BY <1>4 DEF Here
  <2>2. u[j] = t[j] /\ Live(u, j)
    BY <1>2, <2>1
  <2> QED
    BY <2>1, <2>2, HereResult
<1>5. [name |-> new, type |-> kind] \in Here(u, dir)
  BY <1>1, HereResult
<1> QED
  BY <1>3, <1>4, <1>5 DEF Gains

\* The entry with a name, in a table where names are unique.
LEMMA OnlyEntry ==
  ASSUME NEW t \in [Inode -> Entry], Unambiguous(t), NEW dir \in Inode, NEW i \in Inode,
         Live(t, i), t[i].parent_inode = dir
  PROVE  Named(t, dir, t[i].name) = {[name |-> t[i].name, type |-> t[i].type]}
<1>1. [name |-> t[i].name, type |-> t[i].type] \in Named(t, dir, t[i].name)
  BY HereResult DEF Named
<1>2. ASSUME NEW e \in Named(t, dir, t[i].name)
      PROVE  e = [name |-> t[i].name, type |-> t[i].type]
  <2>1. e \in Here(t, dir) /\ e.name = t[i].name
    BY <1>2 DEF Named
  <2>2. PICK j \in Inode : /\ Live(t, j) /\ t[j].parent_inode = dir
                           /\ e = [name |-> t[j].name, type |-> t[j].type]
    BY <2>1, HereResult
  <2>3. t[j].name = t[i].name
    BY <2>1, <2>2
  <2>4. j = i
    BY <2>2, <2>3 DEF Unambiguous
  <2> QED
    BY <2>2, <2>4
<1> QED
  BY <1>1, <1>2

\* An entry that changes its name, or loses it.
LEMMA HereRenamed ==
  ASSUME NEW t \in [Inode -> Entry], Unambiguous(t), NEW dir \in Inode, NEW i \in Inode,
         Live(t, i), t[i].parent_inode = dir, NEW name,
         NEW u, u[i].name = name, u[i].type = t[i].type, u[i].parent_inode = dir,
         OthersKept(t, u, i)
  PROVE  Trades(t, u, dir, t[i].name, name, t[i].type)
<1>1. Live(u, i) <=> name # ""
  BY DEF Live
<1>2. \A j \in Inode : j # i => u[j] = t[j] /\ (Live(u, j) <=> Live(t, j))
  BY DEF Live, OthersKept
<1>3. Named(t, dir, t[i].name) = {[name |-> t[i].name, type |-> t[i].type]}
  BY OnlyEntry
<1>4. ASSUME NEW e \in Here(u, dir)
      PROVE  e \in (Here(t, dir) \ Named(t, dir, t[i].name))
                     \cup (IF name = "" THEN {} ELSE {[name |-> name, type |-> t[i].type]})
  <2>1. PICK j \in Inode : /\ Live(u, j) /\ u[j].parent_inode = dir
                           /\ e = [name |-> u[j].name, type |-> u[j].type]
    BY HereResult
  <2>2. CASE j = i
    BY <1>1, <2>1, <2>2
  <2>3. CASE j # i
    <3>1. Live(t, j) /\ t[j].parent_inode = dir /\ e = [name |-> t[j].name, type |-> t[j].type]
      BY <1>2, <2>1, <2>3
    <3>2. e \in Here(t, dir)
      BY <3>1, HereResult
    <3>3. t[j].name # t[i].name
      BY <2>3, <3>1 DEF Unambiguous
    <3>4. e.name # t[i].name
      BY <3>1, <3>3
    <3>5. e \notin Named(t, dir, t[i].name)
      BY <3>4 DEF Named
    <3> QED
      BY <3>2, <3>5
  <2> QED
    BY <2>2, <2>3
<1>5. ASSUME NEW e \in Here(t, dir) \ Named(t, dir, t[i].name)
      PROVE  e \in Here(u, dir)
  <2>1. PICK j \in Inode : /\ Live(t, j) /\ t[j].parent_inode = dir
                           /\ e = [name |-> t[j].name, type |-> t[j].type]
    BY HereResult
  <2>2. j # i
    BY <1>3, <2>1
  <2> QED
    BY <1>2, <2>1, <2>2, HereResult
<1>6. name # "" => [name |-> name, type |-> t[i].type] \in Here(u, dir)
  BY <1>1, HereResult
<1> QED
  BY <1>4, <1>5, <1>6 DEF Trades

\* Another length and start change nothing that ls would show.
LEMMA HereWritten ==
  ASSUME NEW t, NEW dir, NEW u,
         \A j \in Inode : u[j].name = t[j].name /\ u[j].type = t[j].type
                          /\ u[j].parent_inode = t[j].parent_inode
  PROVE  Here(u, dir) = Here(t, dir)
<1>1. \A j \in Inode : Live(u, j) <=> Live(t, j)
  BY DEF Live
<1>2. \A e : e \in Here(u, dir) <=> e \in Here(t, dir)
  BY <1>1, HereResult
<1> QED
  BY <1>2

\* What a message means when a command took the table t to u.
Truth(msg, one, two, t, u, dir) ==
  LET before == Here(t, dir)
      after == Here(u, dir)
  IN  CASE msg = "created" ->
             /\ Named(t, dir, one) = {}
             /\ after = before \cup {[name |-> one, type |-> "file"]}
        [] msg = "directory created" ->
             /\ Named(t, dir, one) = {}
             /\ after = before \cup {[name |-> one, type |-> "directory"]}
        [] msg = "deleted" ->
             /\ Named(t, dir, one) # {}
             /\ after = before \ Named(t, dir, one)
        [] msg = "renamed" ->
             /\ Named(t, dir, one) # {} /\ Named(t, dir, two) = {}
             /\ after = (before \ Named(t, dir, one))
                          \cup {[e EXCEPT !.name = two] : e \in Named(t, dir, one)}
        [] msg = "wrote" ->
             after = before /\ Named(t, dir, one) # {}
        [] OTHER ->
             /\ u = t
             /\ msg \in {"already exists"} => Named(t, dir, one) # {}
             /\ msg = "destination exists" => Named(t, dir, two) # {}
             /\ msg \in {"source not found", "directory not found"} =>
                  Named(t, dir, one) = {}
             /\ msg = "not a directory" => [name |-> one, type |-> "file"] \in before

\* Messages that only say that nothing changed.
QuietMessage ==
  {"", "usage", "report", "result", "content", "unknown command", "error creating",
   "error writing", "error reading", "error deleting", "error renaming",
   "error creating directory", "error executing"}

\* What a creation returns and does.
LEMMA CreateMessage ==
  ASSUME FilesSound, NEW name \in ArgName, NEW type, Create(name, type)
  PROVE  \/ /\ ret'.code = 0
            /\ Named(file_table, current_dir_inode, name) = {}
            /\ Here(file_table', current_dir_inode) =
                 Here(file_table, current_dir_inode) \cup {[name |-> name, type |-> type]}
         \/ /\ ret'.code # 0 /\ file_table' = file_table
            /\ ret'.code = -2 => Named(file_table, current_dir_inode, name) # {}
<1> DEFINE code == CreateError(file_table, name, current_dir_inode)
<1>0. file_table \in [Inode -> Entry] /\ current_dir_inode \in Inode /\ name # ""
  BY ArgumentsAssumption DEF FilesSound, Inv, TypeOK
<1>1. CASE code # 0 /\ Refuse(code)
  <2>1. ret'.code = code /\ file_table' = file_table
    BY <1>1 DEF Refuse, Return
  <2>2. code = -2 => find_entry_in_dir(file_table, name, current_dir_inode) # -1
    BY DEF CreateError
  <2> HIDE DEF code
  <2> QED
    BY <1>1, <2>1, <2>2, NamedResult
<1>2. CASE /\ code = 0 /\ Return(0)
           /\ file_table' = Created(file_table, name, type, current_dir_inode)
  <2>1. ret'.code = 0
    BY <1>2 DEF Return
  <2>2. find_entry_in_dir(file_table, name, current_dir_inode) = -1
        /\ find_free_entry(file_table) # -1
    BY <1>2 DEF CreateError
  <2>3. PICK f : f = find_free_entry(file_table)
    OBVIOUS
  <2>4. f \in Inode /\ ~Live(file_table, f)
    BY <2>2, <2>3, FreeEntryResult
  <2>5. PICK u : u = file_table'
    OBVIOUS
  <2>6. u = [file_table EXCEPT ![f] = NewEntry(name, type, current_dir_inode)]
    BY <1>2, <2>3, <2>5 DEF Created
  <2>8. /\ u[f] = NewEntry(name, type, current_dir_inode)
        /\ OthersKept(file_table, u, f)
    BY <1>0, <2>4, <2>6 DEF OthersKept
  <2>7. Gains(file_table, u, current_dir_inode, name, type)
    BY <1>0, <2>4, <2>8, HereAdded
  <2> QED
    BY <2>1, <2>2, <2>5, <2>7, NamedResult DEF Gains
<1> QED
  BY <1>1, <1>2 DEF Create

\* The other calls, seen by their return code.
LEMMA DeleteMessage ==
  ASSUME FilesSound, NEW name \in ArgName, bdfs_delete_file(name)
  PROVE  \/ /\ ret'.code = 0
            /\ Named(file_table, current_dir_inode, name) # {}
            /\ Here(file_table', current_dir_inode) =
                 Here(file_table, current_dir_inode) \ Named(file_table, current_dir_inode, name)
         \/ ret'.code # 0 /\ file_table' = file_table
<1>0. file_table \in [Inode -> Entry] /\ current_dir_inode \in Inode /\ Unambiguous(file_table)
  BY DEF FilesSound, Inv, TypeOK, UniqueNames, Unambiguous
<1>1. PICK i : i = find_entry_in_dir(file_table, name, current_dir_inode)
  OBVIOUS
<1>2. CASE i = -1 /\ Refuse(-1)
  BY <1>2 DEF Refuse, Return
<1>3. CASE i # -1 /\ file_table' = [file_table EXCEPT ![i].name = ""] /\ Return(0)
  <2>0. i # -1
    BY <1>3
  <2>1. i \in Inode /\ Live(file_table, i) /\ file_table[i].parent_inode = current_dir_inode
        /\ file_table[i].name = name
    BY <1>1, <2>0, FindEntryResult
  <2>5. PICK u, no : u = file_table' /\ no = ""
    OBVIOUS
  <2>6. u = [file_table EXCEPT ![i].name = no]
    BY <1>3, <2>5
  <2>7. /\ u[i].name = no /\ u[i].type = file_table[i].type
        /\ u[i].parent_inode = current_dir_inode
        /\ OthersKept(file_table, u, i)
    <3>1. u[i] = [file_table[i] EXCEPT !.name = no] /\ file_table[i] \in Entry
      BY <1>0, <2>1, <2>6
    <3>2. u[i].name = no /\ u[i].type = file_table[i].type
          /\ u[i].parent_inode = file_table[i].parent_inode
      BY <3>1 DEF Entry
    <3>3. OthersKept(file_table, u, i)
      BY <1>0, <2>1, <2>6 DEF OthersKept
    <3> QED
      BY <2>1, <3>2, <3>3
  <2>2. Trades(file_table, u, current_dir_inode, file_table[i].name, no, file_table[i].type)
    BY <1>0, <2>1, <2>7, HereRenamed
  <2>3. Named(file_table, current_dir_inode, name) # {}
    BY <1>1, <1>3, NamedResult
  <2>4. ret'.code = 0
    BY <1>3 DEF Return
  <2> QED
    BY <2>1, <2>2, <2>3, <2>4, <2>5 DEF Trades
<1> QED
  BY <1>1, <1>2, <1>3 DEF bdfs_delete_file

\* bdfs_rename_file(): an entry of the old name goes and one of the new name
\* comes, or the code says which of the two names was the trouble.
LEMMA RenameResult ==
  ASSUME FilesSound, NEW old \in ArgName, NEW new \in ArgName, bdfs_rename_file(old, new)
  PROVE  \/ /\ ret'.code = 0
            /\ Named(file_table, current_dir_inode, old) # {}
            /\ Named(file_table, current_dir_inode, new) = {}
            /\ Here(file_table', current_dir_inode) =
                 (Here(file_table, current_dir_inode) \ Named(file_table, current_dir_inode, old))
                   \cup {[e EXCEPT !.name = new] : e \in Named(file_table, current_dir_inode, old)}
         \/ /\ ret'.code # 0 /\ file_table' = file_table
            /\ ret'.code = -2 => Named(file_table, current_dir_inode, old) = {}
            /\ ret'.code = -3 => Named(file_table, current_dir_inode, new) # {}
<1> DEFINE code == RenameError(old, new)
<1>0. file_table \in [Inode -> Entry] /\ current_dir_inode \in Inode /\ Unambiguous(file_table)
      /\ new # ""
  BY ArgumentsAssumption DEF FilesSound, Inv, TypeOK, UniqueNames, Unambiguous
<1>1. PICK i : i = find_entry_in_dir(file_table, old, current_dir_inode)
  OBVIOUS
<1>2. CASE code # 0 /\ Refuse(code)
  <2>1. ret'.code = code /\ file_table' = file_table
    BY <1>2 DEF Refuse, Return
  <2>2. /\ code = -2 => find_entry_in_dir(file_table, old, current_dir_inode) = -1
        /\ code = -3 => find_entry_in_dir(file_table, new, current_dir_inode) # -1
    BY DEF RenameError
  <2> HIDE DEF code
  <2> QED
    BY <1>2, <2>1, <2>2, NamedResult
<1>3. CASE code = 0 /\ file_table' = [file_table EXCEPT ![i].name = new] /\ Return(0)
  <2>1. i # -1 /\ find_entry_in_dir(file_table, new, current_dir_inode) = -1
    BY <1>1, <1>3 DEF RenameError
  <2>2. i \in Inode /\ Live(file_table, i) /\ file_table[i].parent_inode = current_dir_inode
        /\ file_table[i].name = old
    BY <1>1, <2>1, FindEntryResult
  <2>9. PICK u : u = file_table'
    OBVIOUS
  <2>10. u = [file_table EXCEPT ![i].name = new]
    BY <1>3, <2>9
  <2>11. /\ u[i].name = new /\ u[i].type = file_table[i].type
        /\ u[i].parent_inode = current_dir_inode
        /\ OthersKept(file_table, u, i)
    <3>1. u[i] = [file_table[i] EXCEPT !.name = new] /\ file_table[i] \in Entry
      BY <1>0, <2>2, <2>10
    <3>2. u[i].name = new /\ u[i].type = file_table[i].type
          /\ u[i].parent_inode = file_table[i].parent_inode
      BY <3>1 DEF Entry
    <3>3. OthersKept(file_table, u, i)
      BY <1>0, <2>2, <2>10 DEF OthersKept
    <3> QED
      BY <2>2, <3>2, <3>3
  <2>3. Trades(file_table, u, current_dir_inode, file_table[i].name, new, file_table[i].type)
    BY <1>0, <2>2, <2>11, HereRenamed
  <2>4. Named(file_table, current_dir_inode, old) =
          {[name |-> file_table[i].name, type |-> file_table[i].type]}
    <3>1. Named(file_table, current_dir_inode, file_table[i].name) =
            {[name |-> file_table[i].name, type |-> file_table[i].type]}
      BY <1>0, <2>2, OnlyEntry, Zenon
    <3> QED
      BY <2>2, <3>1
  <2>5. {[e EXCEPT !.name = new] : e \in Named(file_table, current_dir_inode, old)} =
          {[name |-> new, type |-> file_table[i].type]}
    BY <2>4
  <2>6. ret'.code = 0
    BY <1>3 DEF Return
  <2>7. /\ Named(file_table, current_dir_inode, old) # {}
        /\ Named(file_table, current_dir_inode, new) = {}
    BY <1>1, <2>1, NamedResult
  <2>8. Here(file_table', current_dir_inode) =
          (Here(file_table, current_dir_inode) \ Named(file_table, current_dir_inode, old))
            \cup {[e EXCEPT !.name = new] : e \in Named(file_table, current_dir_inode, old)}
    BY <1>0, <2>2, <2>3, <2>5, <2>9, Zenon DEF Trades
  <2> QED
    BY <2>6, <2>7, <2>8
<1> QED
  BY <1>1, <1>2, <1>3 DEF bdfs_rename_file

\* bdfs_write_file() changes no name, and returns the length or an error.
LEMMA WriteMessage ==
  ASSUME FilesSound, NEW name \in ArgName, NEW buffer \in Buffer, Len(buffer) \in Nat \ {0},
         bdfs_write_file(name, buffer)
  PROVE  \/ /\ ret'.code = Len(buffer)
            /\ Named(file_table, current_dir_inode, name) # {}
            /\ Here(file_table', current_dir_inode) = Here(file_table, current_dir_inode)
         \/ ret'.code \in {-1, -2, -3} /\ file_table' = file_table
<1>0. file_table \in [Inode -> Entry] /\ current_dir_inode \in Inode
  BY DEF FilesSound, Inv, TypeOK
<1>1. PICK i : i = find_entry_in_dir(file_table, name, current_dir_inode)
  OBVIOUS
<1> DEFINE code == WriteError(i, buffer)
<1>2. CASE code # 0 /\ Refuse(code)
  <2>1. code \in {-1, -2, -3}
    BY <1>2 DEF WriteError
  <2> HIDE DEF code
  <2> QED
    BY <1>2, <2>1 DEF Refuse, Return
<1>3. CASE /\ code = 0 /\ Return(Len(buffer))
           /\ file_table' = [file_table EXCEPT ![i].start_sector = WriteStart(i),
                                               ![i].length = Len(buffer)]
  <2>1. i # -1
    BY <1>3 DEF WriteError
  <2>2. i \in Inode
    BY <1>1, <2>1, FindEntryResult
  <2>3. Here(file_table', current_dir_inode) = Here(file_table, current_dir_inode)
    <3>1. PICK u, s, l : u = file_table' /\ s = WriteStart(i) /\ l = Len(buffer)
      OBVIOUS
    <3>2. u = [file_table EXCEPT ![i].start_sector = s, ![i].length = l]
      BY <1>3, <3>1
    <3>4. \A j \in Inode : /\ u[j].name = file_table[j].name /\ u[j].type = file_table[j].type
                           /\ u[j].parent_inode = file_table[j].parent_inode
      BY <1>0, <2>2, <3>2 DEF Entry
    <3>3. Here(u, current_dir_inode) = Here(file_table, current_dir_inode)
      BY <3>4, HereWritten
    <3> QED
      BY <3>1, <3>3
  <2>4. Named(file_table, current_dir_inode, name) # {}
    BY <1>1, <2>1, NamedResult
  <2>5. ret'.code = Len(buffer)
    BY <1>3 DEF Return
  <2> QED
    BY <1>3, <2>3, <2>4, <2>5
<1> QED
  BY <1>1, <1>2, <1>3 DEF bdfs_write_file

\* bdfs_chdir() changes no file, and its error codes mean what they say.
LEMMA ChdirMessage ==
  ASSUME FilesSound, NEW name \in ArgName, bdfs_chdir(name)
  PROVE  /\ file_table' = file_table
         /\ ret'.code = -1 => Named(file_table, current_dir_inode, name) = {}
         /\ ret'.code = -2 =>
              [name |-> name, type |-> "file"] \in Here(file_table, current_dir_inode)
<1>0. file_table \in [Inode -> Entry] /\ current_dir_inode \in Inode
      /\ \A i \in Inode : i \in Nat
  BY SizesAssumption DEF FilesSound, Inv, TypeOK, Inode
<1>1. PICK i : i = find_entry_in_dir(file_table, name, current_dir_inode)
  OBVIOUS
<1> DEFINE d == ChdirTarget(name)
<1>2. d \in {-1, -2} => d = IF i = -1 THEN -1 ELSE IF file_table[i].type # "directory" THEN -2 ELSE i
  <2>1. file_table[current_dir_inode].parent_inode \in Nat /\ current_dir_inode \in Nat
    BY <1>0 DEF Entry
  <2> QED
    BY <1>1, <2>1 DEF ChdirTarget
<1>3. d = -1 => Named(file_table, current_dir_inode, name) = {}
  <2>1. i = -1 \/ i \in Nat
    BY <1>0, <1>1, FindEntryResult
  <2> HIDE DEF d
  <2>2. d = -1 => i = -1
    BY <1>2, <2>1
  <2> QED
    BY <1>1, <2>2, NamedResult
<1>4. ASSUME d = -2
      PROVE  [name |-> name, type |-> "file"] \in Here(file_table, current_dir_inode)
  <2>1. i = -1 \/ /\ i \in Inode /\ Live(file_table, i)
                  /\ file_table[i].parent_inode = current_dir_inode /\ file_table[i].name = name
    BY <1>1, FindEntryResult
  <2> HIDE DEF d
  <2>2. i # -1 /\ file_table[i].type # "directory"
    BY <1>0, <1>2, <1>4, <2>1
  <2>3. file_table[i].type = "file"
    BY <1>0, <2>1, <2>2 DEF Entry
  <2> QED
    BY <2>1, <2>2, <2>3, HereResult
<1>5. file_table' = file_table /\ (ret'.code = d \/ ret'.code = 0)
  <2>1. CASE d < 0 /\ Refuse(d)
    BY <2>1 DEF Refuse, Return
  <2>2. CASE Return(0) /\ UNCHANGED <<up, file_table, storage, written>>
    BY <2>2 DEF Return
  <2> QED
    BY <2>1, <2>2 DEF bdfs_chdir
<1> HIDE DEF d
<1> QED
  BY <1>3, <1>4, <1>5

\* Every command that ends says the truth.
LEMMA MessageStep ==
  ASSUME ShellInv, FilesSound, CommandsNext, pc = "run", pc' = "done"
  PROVE  Truth(shown'.msg, TheWord(command, 2)[1], TheWord(command, 3)[1],
               file_table, file_table', current_dir_inode)
<1> DEFINE one == TheWord(command, 2)[1]
           two == TheWord(command, 3)[1]
           t == file_table
           u == file_table'
           dir == current_dir_inode
           Honest == Truth(shown'.msg, one, two, t, u, dir)
<1> SUFFICES Honest
  OBVIOUS
<1>1. ASSUME NEW msg \in QuietMessage, shown'.msg = msg, file_table' = file_table
      PROVE  Honest
  BY <1>1 DEF Truth, QuietMessage
<1>2. ASSUME NEW msg \in QuietMessage, NEW text, Say(msg, text), NoCall
      PROVE  Honest
  <2>1. file_table' = file_table
    BY <1>2 DEF NoCall, vars
  <2>2. shown'.msg = msg
    BY <1>2 DEF Say
  <2> QED
    BY <1>1, <2>1, <2>2
<1>3. Usage => Honest
  BY <1>2 DEF Usage, QuietMessage
<1>4. command \in Lines
  BY DEF ShellInv
<1>5. ASSUME NEW word \in FileWord, Run(word), Second.token # Null
      PROVE  NameOf(Second.token) \in ArgName /\ NameOf(Second.token) = one
  BY <1>4, <1>5, FirstName DEF Run
<1> HIDE DEF one, two, t, u, dir, Honest
<1>6. CASE Touch
  <2>1. CASE Usage
    BY <1>3, <2>1
  <2>2. CASE ~Usage
    <3>1. /\ Run("touch") /\ Second.token # Null /\ bdfs_create_file(NameOf(Second.token))
          /\ Say(IF ret'.code = 0 THEN "created" ELSE "error creating", <<>>)
      BY <1>6, <2>2 DEF Touch
    <3>2. one \in ArgName /\ Create(one, "file")
      BY <1>5, <3>1 DEF FileWord, bdfs_create_file
    <3>3. \/ /\ ret'.code = 0 /\ Named(t, dir, one) = {}
             /\ Here(u, dir) = Here(t, dir) \cup {[name |-> one, type |-> "file"]}
          \/ ret'.code # 0 /\ u = t
      BY <3>2, CreateMessage DEF t, u, dir
    <3>4. shown'.msg = IF ret'.code = 0 THEN "created" ELSE "error creating"
      BY <3>1 DEF Say
    <3> QED
      BY <3>3, <3>4 DEF Honest, Truth
  <2> QED
    BY <2>1, <2>2
<1>7. CASE Write
  <2>1. CASE Usage
    BY <1>3, <2>1
  <2>2. CASE ~Usage
    <3>1. /\ Run("write") /\ Second.token # Null /\ RestAfterSecond # Null
          /\ bdfs_write_file(NameOf(Second.token), CellsOf(RestAfterSecond))
          /\ Say(IF ret'.code > 0 THEN "wrote" ELSE "error writing", <<>>)
      BY <1>7, <2>2 DEF Write
    <3>2. PICK data : data = CellsOf(RestAfterSecond)
      OBVIOUS
    <3>3. data \in Buffer /\ Len(data) \in Nat \ {0}
      <4>1. data \in Buffer /\ Len(data) \in 1..BufferSize
        BY <1>4, <3>1, <3>2, WrittenData DEF Run
      <4> QED
        BY <4>1, SavesFitBuffers
    <3>4. one \in ArgName /\ bdfs_write_file(one, data)
      BY <1>5, <3>1, <3>2 DEF FileWord
    <3>5. \/ ret'.code = Len(data) /\ Named(t, dir, one) # {} /\ Here(u, dir) = Here(t, dir)
          \/ ret'.code \in {-1, -2, -3} /\ u = t
      BY <3>3, <3>4, WriteMessage DEF t, u, dir
    <3>6. shown'.msg = IF ret'.code > 0 THEN "wrote" ELSE "error writing"
      BY <3>1 DEF Say
    <3>7. PICK code : code = ret'.code
      OBVIOUS
    <3>8. \/ shown'.msg = "wrote" /\ Named(t, dir, one) # {} /\ Here(u, dir) = Here(t, dir)
          \/ shown'.msg = "error writing" /\ u = t
      <4>1. CASE code = Len(data) /\ Named(t, dir, one) # {} /\ Here(u, dir) = Here(t, dir)
        <5>1. code > 0
          BY <3>3, <4>1
        <5> QED
          BY <3>6, <3>7, <4>1, <5>1
      <4>2. CASE code \in {-1, -2, -3} /\ u = t
        <5>1. ~(code > 0)
          BY <4>2
        <5> QED
          BY <3>6, <3>7, <4>2, <5>1
      <4> QED
        BY <3>5, <3>7, <4>1, <4>2
    <3> QED
      BY <3>8 DEF Honest, Truth
  <2> QED
    BY <2>1, <2>2
<1>8. CASE Cat
  <2>1. CASE Usage
    BY <1>3, <2>1
  <2>2. CASE ~Usage
    <3>1. /\ bdfs_read_file(NameOf(Second.token))
          /\ Say(IF ret'.code = 0 THEN "content" ELSE "error reading", ret'.bytes)
      BY <1>8, <2>2 DEF Cat
    <3>2. file_table' = file_table
      BY <3>1 DEF bdfs_read_file, Refuse
    <3>3. shown'.msg = "content" \/ shown'.msg = "error reading"
      BY <3>1 DEF Say
    <3> QED
      BY <1>1, <3>2, <3>3 DEF QuietMessage
  <2> QED
    BY <2>1, <2>2
<1>9. CASE Rm
  <2>1. CASE Usage
    BY <1>3, <2>1
  <2>2. CASE ~Usage
    <3>1. /\ Run("rm") /\ Second.token # Null /\ bdfs_delete_file(NameOf(Second.token))
          /\ Say(IF ret'.code = 0 THEN "deleted" ELSE "error deleting", <<>>)
      BY <1>9, <2>2 DEF Rm
    <3>2. one \in ArgName /\ bdfs_delete_file(one)
      BY <1>5, <3>1 DEF FileWord
    <3>3. \/ /\ ret'.code = 0 /\ Named(t, dir, one) # {}
             /\ Here(u, dir) = Here(t, dir) \ Named(t, dir, one)
          \/ ret'.code # 0 /\ u = t
      BY <3>2, DeleteMessage DEF t, u, dir
    <3>4. shown'.msg = IF ret'.code = 0 THEN "deleted" ELSE "error deleting"
      BY <3>1 DEF Say
    <3> QED
      BY <3>3, <3>4 DEF Honest, Truth
  <2> QED
    BY <2>1, <2>2
<1>10. CASE Mv
  <2>1. CASE Usage
    BY <1>3, <2>1
  <2>2. CASE ~Usage
    <3>1. /\ Run("mv") /\ Second.token # Null /\ Third.token # Null
          /\ bdfs_rename_file(NameOf(Second.token), NameOf(Third.token))
          /\ Say(RenameMessage(ret'.code), <<>>)
      BY <1>10, <2>2 DEF Mv
    <3>2. one \in ArgName /\ NameOf(Second.token) = one
      BY <1>5, <3>1 DEF FileWord
    <3>3. two \in ArgName /\ NameOf(Third.token) = two
      BY <1>4, <3>1, SecondName DEF Run, two
    <3>4. bdfs_rename_file(one, two)
      BY <3>1, <3>2, <3>3
    <3>5. \/ /\ ret'.code = 0 /\ Named(t, dir, one) # {} /\ Named(t, dir, two) = {}
             /\ Here(u, dir) =
                  (Here(t, dir) \ Named(t, dir, one))
                    \cup {[e EXCEPT !.name = two] : e \in Named(t, dir, one)}
          \/ /\ ret'.code # 0 /\ u = t
             /\ ret'.code = -2 => Named(t, dir, one) = {}
             /\ ret'.code = -3 => Named(t, dir, two) # {}
      BY <3>2, <3>3, <3>4, RenameResult DEF t, u, dir
    <3>6. shown'.msg = RenameMessage(ret'.code)
      BY <3>1 DEF Say
    <3>7. \/ ret'.code = 0 /\ shown'.msg = "renamed"
          \/ ret'.code = -2 /\ shown'.msg = "source not found"
          \/ ret'.code = -3 /\ shown'.msg = "destination exists"
          \/ ret'.code # 0 /\ shown'.msg = "error renaming"
      BY <3>6 DEF RenameMessage
    <3>8. CASE ret'.code = 0 /\ shown'.msg = "renamed"
      BY <3>5, <3>8 DEF Honest, Truth
    <3>9. CASE ret'.code = -2 /\ shown'.msg = "source not found"
      <4>0. PICK code : code = ret'.code
        OBVIOUS
      <4>3. code = -2
        BY <3>9, <4>0, Zenon
      <4>1. code # 0
        BY <4>3
      <4>2. u = t /\ Named(t, dir, one) = {}
        BY <3>5, <3>9, <4>0, <4>1
      <4> QED
        BY <3>9, <4>2 DEF Honest, Truth
    <3>10. CASE ret'.code = -3 /\ shown'.msg = "destination exists"
      <4>0. PICK code : code = ret'.code
        OBVIOUS
      <4>3. code = -3
        BY <3>10, <4>0, Zenon
      <4>1. code # 0
        BY <4>3
      <4>2. u = t /\ Named(t, dir, two) # {}
        BY <3>5, <3>10, <4>0, <4>1
      <4> QED
        BY <3>10, <4>2 DEF Honest, Truth
    <3>11. CASE ret'.code # 0 /\ shown'.msg = "error renaming"
      BY <3>5, <3>11 DEF Honest, Truth
    <3> QED
      BY <3>7, <3>8, <3>9, <3>10, <3>11
  <2> QED
    BY <2>1, <2>2
<1>11. CASE Mkdir
  <2>1. CASE Usage
    BY <1>3, <2>1
  <2>2. CASE ~Usage
    <3>1. /\ Run("mkdir") /\ Second.token # Null /\ bdfs_mkdir(NameOf(Second.token))
          /\ Say(MkdirMessage(ret'.code), <<>>)
      BY <1>11, <2>2 DEF Mkdir
    <3>2. one \in ArgName /\ Create(one, "directory")
      BY <1>5, <3>1 DEF FileWord, bdfs_mkdir
    <3>3. \/ /\ ret'.code = 0 /\ Named(t, dir, one) = {}
             /\ Here(u, dir) = Here(t, dir) \cup {[name |-> one, type |-> "directory"]}
          \/ /\ ret'.code # 0 /\ u = t
             /\ ret'.code = -2 => Named(t, dir, one) # {}
      BY <3>2, CreateMessage DEF t, u, dir
    <3>4. shown'.msg = MkdirMessage(ret'.code)
      BY <3>1 DEF Say
    <3>5. \/ ret'.code = 0 /\ shown'.msg = "directory created"
          \/ ret'.code = -2 /\ shown'.msg = "already exists"
          \/ ret'.code # 0 /\ shown'.msg = "error creating directory"
      BY <3>4 DEF MkdirMessage
    <3>6. CASE ret'.code = 0 /\ shown'.msg = "directory created"
      BY <3>3, <3>6 DEF Honest, Truth
    <3>7. CASE ret'.code = -2 /\ shown'.msg = "already exists"
      <4>0. PICK code : code = ret'.code
        OBVIOUS
      <4>3. code = -2
        BY <3>7, <4>0, Zenon
      <4>1. code # 0
        BY <4>3
      <4>2. u = t /\ Named(t, dir, one) # {}
        BY <3>3, <3>7, <4>0, <4>1
      <4> QED
        BY <3>7, <4>2 DEF Honest, Truth
    <3>8. CASE ret'.code # 0 /\ shown'.msg = "error creating directory"
      BY <3>3, <3>8 DEF Honest, Truth
    <3> QED
      BY <3>5, <3>6, <3>7, <3>8
  <2> QED
    BY <2>1, <2>2
<1>12. CASE Cd
  <2>1. CASE Usage
    BY <1>3, <2>1
  <2>2. CASE ~Usage
    <3>1. /\ Run("cd") /\ Second.token # Null /\ bdfs_chdir(NameOf(Second.token))
          /\ Say(CdMessage(ret'.code), <<>>)
      BY <1>12, <2>2 DEF Cd
    <3>2. one \in ArgName /\ bdfs_chdir(one)
      BY <1>5, <3>1 DEF FileWord
    <3>3. /\ u = t
          /\ ret'.code = -1 => Named(t, dir, one) = {}
          /\ ret'.code = -2 => [name |-> one, type |-> "file"] \in Here(t, dir)
      BY <3>2, ChdirMessage DEF t, u, dir
    <3>4. shown'.msg = CdMessage(ret'.code)
      BY <3>1 DEF Say
    <3>5. \/ ret'.code = -1 /\ shown'.msg = "directory not found"
          \/ ret'.code = -2 /\ shown'.msg = "not a directory"
          \/ shown'.msg = ""
      BY <3>4 DEF CdMessage
    <3> QED
      BY <3>3, <3>5 DEF Honest, Truth
  <2> QED
    BY <2>1, <2>2
<1>13. CASE Echo
  BY <1>2, <1>13 DEF Echo, QuietMessage
<1>14. CASE Calc
  <2>1. CASE Usage
    BY <1>3, <2>1
  <2>2. CASE ~Usage
    BY <1>2, <1>14, <2>2 DEF Calc, QuietMessage
  <2> QED
    BY <2>1, <2>2
<1>15. CASE Report
  BY <1>2, <1>15 DEF Report, QuietMessage
<1>16. CASE OpenEditor
  BY <1>3, <1>16 DEF OpenEditor
<1>17. CASE RunProgram
  <2>1. file_table' = file_table
    BY <1>17 DEF RunProgram, bdfs_read_file, Refuse
  <2>2. shown'.msg = "error executing" \/ shown'.msg = ""
    <3>1. Say("error executing", <<>>) \/ shown' = Nothing
      BY <1>17 DEF RunProgram
    <3> QED
      <4>1. CASE Say("error executing", <<>>)
        BY <4>1 DEF Say
      <4>2. CASE shown' = Nothing
        BY <4>2 DEF Nothing
      <4> QED
        BY <3>1, <4>1, <4>2
  <2> QED
    BY <1>1, <2>1, <2>2 DEF QuietMessage
<1>18. CASE Unknown
  <2>1. file_table' = file_table
    BY <1>18 DEF Unknown, NoCall, vars
  <2>2. shown'.msg = "unknown command" \/ shown'.msg = ""
    BY <1>18 DEF Unknown, Say
  <2> QED
    BY <1>1, <2>1, <2>2 DEF QuietMessage
<1>19. CASE Shutdown
  BY <1>2, <1>19 DEF Shutdown, Restart, QuietMessage
<1>20. ~Boot /\ ~Enter /\ ~NextPrompt /\ ~Save /\ ~Quit /\ ~Reboot /\ ~PowerSwitch
  BY DEF Boot, Enter, NextPrompt, Save, Quit, Reboot, PowerSwitch, Restart
<1> QED
  BY <1>6, <1>7, <1>8, <1>9, <1>10, <1>11, <1>12, <1>13, <1>14, <1>15, <1>16, <1>17, <1>18,
     <1>19, <1>20 DEF CommandsNext

\* What a command's message says has happened has happened, to the names the
\* user entered, whatever the directory held before: for every line, every
\* table and every limit of the file system.
THEOREM MessagesHold == CommandsSpec => MessagesAreTrue
<1> DEFINE Step == pc = "run" /\ pc' = "done" =>
                     Truth(shown'.msg, TheWord(command, 2)[1], TheWord(command, 3)[1],
                           file_table, file_table', current_dir_inode)
<1>1. ShellInv /\ FilesSound /\ [CommandsNext]_cmdvars => [Step]_cmdvars
  BY MessageStep
<1>2. CommandsSpec => [][Step]_cmdvars
  BY <1>1, ShellInvariance, PTL DEF CommandsSpec
<1> QED
  BY <1>2, PTL DEF Truth, MessagesAreTrue

\* No command but write says that it wrote.
LEMMA OnlyWriteWrites ==
  ASSUME CommandsNext, pc = "run", shown'.msg = "wrote"
  PROVE  /\ Run("write") /\ Second.token # Null /\ RestAfterSecond # Null
         /\ bdfs_write_file(NameOf(Second.token), CellsOf(RestAfterSecond))
         /\ ret'.code > 0
<1>1. ASSUME NEW msg, NEW text, Say(msg, text)
      PROVE  msg = "wrote"
  BY <1>1 DEF Say
<1>2. ASSUME shown' = Nothing
      PROVE  FALSE
  BY <1>2 DEF Nothing
<1>3. ~Usage
  BY <1>1 DEF Usage
<1>4. ~Touch
  BY <1>1, <1>3 DEF Touch
<1>5. ~Cat
  BY <1>1, <1>3 DEF Cat
<1>6. ~Rm
  BY <1>1, <1>3 DEF Rm
<1>7. ~Mv
  <2>1. \A code : RenameMessage(code) # "wrote"
    BY DEF RenameMessage
  <2> QED
    BY <1>1, <1>3, <2>1 DEF Mv
<1>8. ~Mkdir
  <2>1. \A code : MkdirMessage(code) # "wrote"
    BY DEF MkdirMessage
  <2> QED
    BY <1>1, <1>3, <2>1 DEF Mkdir
<1>9. ~Cd
  <2>1. \A code : CdMessage(code) # "wrote"
    BY DEF CdMessage
  <2> QED
    BY <1>1, <1>3, <2>1 DEF Cd
<1>10. ~Echo /\ ~Calc /\ ~Report
  BY <1>1, <1>3 DEF Echo, Calc, Report
<1>11. ~OpenEditor
  BY <1>2, <1>3 DEF OpenEditor
<1>12. ~RunProgram
  BY <1>1, <1>2 DEF RunProgram
<1>13. ~Unknown
  BY <1>1 DEF Unknown
<1>14. \A kept : ~Restart(kept)
  BY <1>2 DEF Restart
<1>15. ~Reboot /\ ~Shutdown
  BY <1>1, <1>14 DEF Reboot, Shutdown
<1>16. ~Boot /\ ~Enter /\ ~NextPrompt /\ ~Save /\ ~Quit /\ ~PowerSwitch
  BY DEF Boot, Enter, NextPrompt, Save, Quit, PowerSwitch
<1>17. Write
  BY <1>4, <1>5, <1>6, <1>7, <1>8, <1>9, <1>10, <1>11, <1>12, <1>13, <1>15, <1>16
     DEF CommandsNext
<1>18. /\ Run("write") /\ Second.token # Null /\ RestAfterSecond # Null
       /\ bdfs_write_file(NameOf(Second.token), CellsOf(RestAfterSecond))
       /\ Say(IF ret'.code > 0 THEN "wrote" ELSE "error writing", <<>>)
  BY <1>3, <1>17 DEF Write
<1>19. (IF ret'.code > 0 THEN "wrote" ELSE "error writing") = "wrote"
  BY <1>1, <1>18
<1>20. ret'.code > 0
  BY <1>19
<1> QED
  BY <1>18, <1>20

\* What the file holds that the line is written to.
Holds(name, dir, data, t, d) ==
  LET i == find_entry_in_dir(t, name, dir)
  IN  /\ i # -1 /\ t[i].length = Len(data)
      /\ \A k \in 1..Len(data) :
           LET p == t[i].start_sector * SectorSize + k - 1
           IN  p # 0 => d[p] = data[k]

\* A table that agrees on names, liveness and parents has its entries where
\* they were.
LEMMA FoundAgain ==
  ASSUME NEW t, NEW u, NEW name, NEW dir,
         \A j \in Inode : u[j].name = t[j].name /\ u[j].parent_inode = t[j].parent_inode
  PROVE  find_entry_in_dir(u, name, dir) = find_entry_in_dir(t, name, dir)
<1> DEFINE S(v) == {i \in Inode : Live(v, i) /\ v[i].parent_inode = dir /\ v[i].name = name}
<1>1. \A i \in Inode : i \in S(u) <=> i \in S(t)
  BY DEF Live
<1>2. S(u) = S(t)
  BY <1>1
<1> QED
  BY <1>2 DEF find_entry_in_dir

\* After a write that succeeded the file holds the buffer.
LEMMA WriteHolds ==
  ASSUME FilesSound, FilesSound', NEW name \in ArgName, NEW data \in Buffer,
         bdfs_write_file(name, data), ret'.code > 0
  PROVE  Holds(name, current_dir_inode, data, file_table', stored_data')
<1>0. file_table \in [Inode -> Entry] /\ written \in [Inode -> Seq(Nat)]
  BY DEF FilesSound, Inv, TypeOK
<1>1. PICK i : i = find_entry_in_dir(file_table, name, current_dir_inode)
  OBVIOUS
<1>2. PICK code : code = WriteError(i, data)
  OBVIOUS
<1>3. ~(code # 0 /\ Refuse(code))
  <2> SUFFICES ASSUME code # 0, Refuse(code) PROVE FALSE
    OBVIOUS
  <2>1. code \in {-1, -2, -3}
    BY <1>2 DEF WriteError
  <2>2. ~(code > 0)
    BY <2>1
  <2>3. ret'.code = code
    BY DEF Refuse, Return
  <2> QED
    BY <2>2, <2>3
<1>4. /\ code = 0
      /\ file_table' = [file_table EXCEPT ![i].start_sector = WriteStart(i),
                                          ![i].length = Len(data)]
      /\ written' = [written EXCEPT ![i] = data]
  BY <1>1, <1>2, <1>3 DEF bdfs_write_file
<1>5. i \in Inode /\ i # -1 /\ Live(file_table, i) /\ file_table[i].type = "file"
  <2>1. i # -1 /\ file_table[i].type = "file"
    BY <1>2, <1>4 DEF WriteError
  <2> QED
    BY <1>1, <2>1, FindEntryResult
<1>6. PICK u, s, l : u = file_table' /\ s = WriteStart(i) /\ l = Len(data)
  OBVIOUS
<1>7. u = [file_table EXCEPT ![i].start_sector = s, ![i].length = l]
  BY <1>4, <1>6
<1>8. \A j \in Inode : /\ u[j].name = file_table[j].name /\ u[j].type = file_table[j].type
                       /\ u[j].parent_inode = file_table[j].parent_inode
  BY <1>0, <1>5, <1>7 DEF Entry
<1>9. find_entry_in_dir(u, name, current_dir_inode) = i
  BY <1>1, <1>8, FoundAgain
<1>10. IsFile(u, i)
  BY <1>5, <1>8 DEF IsFile, Live
<1>11. ContentIntegrity'
  BY DEF FilesSound, Inv
<1>12. PICK w, d : w = written' /\ d = stored_data'
  OBVIOUS
<1>13. w[i] = data
  BY <1>0, <1>4, <1>5, <1>12
<1>14. /\ u[i].length = Len(w[i])
       /\ \A k \in 1..u[i].length :
            LET p == u[i].start_sector * SectorSize + k - 1
            IN  p # 0 => d[p] = w[i][k]
  BY <1>5, <1>6, <1>10, <1>11, <1>12 DEF ContentIntegrity
<1>15. Holds(name, current_dir_inode, data, u, d)
  BY <1>5, <1>9, <1>13, <1>14 DEF Holds
<1> QED
  BY <1>6, <1>12, <1>15

\* After `Wrote to file' the file holds the line from behind its name on, for
\* every line, every name and every state of the disk.
THEOREM WritesHold == CommandsSpec => WritesTheRest
<1> DEFINE Step == pc = "run" /\ shown'.msg = "wrote" =>
                     Holds(TheWord(command, 2)[1], current_dir_inode,
                           CellsOf(BehindWord(command, 2)), file_table', stored_data')
<1>1. ShellInv /\ FilesSound /\ FilesSound' /\ [CommandsNext]_cmdvars => [Step]_cmdvars
  <2> SUFFICES ASSUME ShellInv, FilesSound, FilesSound', CommandsNext,
                      pc = "run", shown'.msg = "wrote"
               PROVE  Holds(TheWord(command, 2)[1], current_dir_inode,
                            CellsOf(BehindWord(command, 2)), file_table', stored_data')
    OBVIOUS
  <2>1. /\ First.token = <<"write">> /\ Second.token # Null /\ RestAfterSecond # Null
        /\ bdfs_write_file(NameOf(Second.token), CellsOf(RestAfterSecond))
        /\ ret'.code > 0
    BY OnlyWriteWrites DEF Run
  <2>2. command \in Lines
    BY DEF ShellInv
  <2>3. PICK name, data : name = NameOf(Second.token) /\ data = CellsOf(RestAfterSecond)
    OBVIOUS
  <2>4. name \in ArgName /\ name = TheWord(command, 2)[1]
    BY <2>1, <2>2, <2>3, FirstName DEF FileWord
  <2>5. data \in Buffer /\ data = CellsOf(BehindWord(command, 2))
    BY <2>1, <2>2, <2>3, WrittenData
  <2>6. Holds(name, current_dir_inode, data, file_table', stored_data')
    BY <2>1, <2>3, <2>4, <2>5, WriteHolds
  <2> QED
    BY <2>4, <2>5, <2>6
<1>2. CommandsSpec => [][Step]_cmdvars
  BY <1>1, ShellInvariance, PTL DEF CommandsSpec
<1> QED
  BY <1>2, PTL DEF Holds, WritesTheRest

-----------------------------------------------------------------------------
(* Recursion over 0..n                                                     *)

\* Induction over 0..n, a property given as the set of numbers that have it.
LEMMA UpTo ==
  ASSUME NEW n \in Nat, NEW T, 0 \in T,
         \A i \in 0..n : i \in T /\ i < n => i + 1 \in T
  PROVE  \A i \in 0..n : i \in T
<1> DEFINE S == {i \in 0..n : i \notin T}
<1> SUFFICES ASSUME S # {}
             PROVE  FALSE
  OBVIOUS
<1>1. S \in SUBSET Nat
  OBVIOUS
<1>2. PICK i \in S : \A j \in S : i <= j
  <2> HIDE DEF S
  <2> QED
    BY <1>1, LeastNat
<1>3. i \in 0..n /\ i # 0 /\ i \notin T
  OBVIOUS
<1>4. PICK j \in Nat : j + 1 = i /\ j \in 0..n /\ j < n
  <2>1. i - 1 \in Nat /\ (i - 1) + 1 = i /\ i - 1 \in 0..n /\ i - 1 < n
    BY <1>3
  <2> QED
    BY <2>1
<1>5. j \in T
  BY <1>2, <1>4
<1> QED
  BY <1>3, <1>4, <1>5

\* f is what a loop of n steps computes, its body given as a function of the
\* state and the counter.
IsLoop(f, n, base, step) == f[0] = base /\ \A i \in 1..n : f[i] = step[<<f[i - 1], i>>]

\* A step function from a set of states to itself can be run from 0 to n.
LEMMA RecursionExists ==
  ASSUME NEW n \in Nat, NEW S, NEW base \in S, NEW step \in [S \X (1..n) -> S]
  PROVE  \E f \in [0..n -> S] : IsLoop(f, n, base, step)
<1> DEFINE Right(f, m) == f[0] = base /\ \A i \in 1..m : f[i] = step[<<f[i - 1], i>>]
           T == {m \in 0..n : \E f \in [0..n -> S] : Right(f, m)}
<1>1. 0 \in T
  <2> DEFINE f == [i \in 0..n |-> base]
  <2>1. f \in [0..n -> S] /\ f[0] = base /\ 1..0 = {}
    OBVIOUS
  <2> HIDE DEF f
  <2>2. Right(f, 0)
    BY <2>1
  <2> QED
    BY <2>1, <2>2
<1>2. ASSUME NEW m \in 0..n, m \in T, m < n
      PROVE  m + 1 \in T
  <2>1. PICK f \in [0..n -> S] : Right(f, m)
    BY <1>2
  <2>2. PICK k \in Nat : k = m + 1
    OBVIOUS
  <2>3. k \in 1..n /\ k \in 0..n /\ k - 1 = m /\ k # 0
    BY <1>2, <2>2
  <2>4. f[m] \in S /\ <<f[m], k>> \in S \X (1..n)
    BY <2>3
  <2>5. step[<<f[m], k>>] \in S
    BY <2>4
  <2> DEFINE g == [f EXCEPT ![k] = step[<<f[m], k>>]]
  <2>6. g \in [0..n -> S] /\ g[k] = step[<<f[m], k>>] /\ \A i \in 0..n : i # k => g[i] = f[i]
    BY <2>3, <2>5
  <2> HIDE DEF g
  <2>7. g[0] = base
    BY <2>1, <2>3, <2>6
  <2>8. ASSUME NEW i \in 1..k
        PROVE  g[i] = step[<<g[i - 1], i>>]
    <3>1. PICK h \in Nat : h = i - 1
      OBVIOUS
    <3>2. h \in 0..n /\ h # k /\ i \in 0..n
      BY <2>3, <3>1
    <3>3. g[h] = f[h]
      BY <2>6, <3>2
    <3>4. CASE i = k
      BY <2>3, <2>6, <3>1, <3>3, <3>4
    <3>5. CASE i # k
      <4>1. i \in 1..m
        BY <2>2, <3>5
      <4>2. f[i] = step[<<f[i - 1], i>>] /\ g[i] = f[i]
        BY <2>1, <2>6, <3>2, <3>5, <4>1
      <4> QED
        BY <3>1, <3>3, <4>2
    <3> QED
      BY <3>4, <3>5
  <2>9. Right(g, k)
    BY <2>7, <2>8
  <2> QED
    BY <2>2, <2>3, <2>6, <2>9
<1> HIDE DEF T
<1>3. n \in T
  BY <1>1, <1>2, UpTo
<1> QED
  BY <1>3 DEF T, IsLoop

\* And a run stays in the set.
LEMMA RecursionTyped ==
  ASSUME NEW n \in Nat, NEW S, NEW g, g[0] \in S,
         \A i \in 1..n : g[i - 1] \in S => g[i] \in S
  PROVE  \A i \in 0..n : g[i] \in S
<1> DEFINE T == {i \in 0..n : g[i] \in S}
<1>1. 0 \in T
  OBVIOUS
<1>2. ASSUME NEW i \in 0..n, i \in T, i < n
      PROVE  i + 1 \in T
  <2>1. PICK k \in Nat : k = i + 1
    OBVIOUS
  <2>2. k \in 1..n /\ k \in 0..n /\ k - 1 = i
    BY <1>2, <2>1
  <2>3. g[k] \in S
    BY <1>2, <2>2
  <2> QED
    BY <2>1, <2>2, <2>3
<1> HIDE DEF T
<1>3. \A i \in 0..n : i \in T
  BY <1>1, <1>2, UpTo
<1> QED
  BY <1>3 DEF T

-----------------------------------------------------------------------------
(* The calculator: what is popped off the stack of operators               *)

\* What an entry of the stack leaves in the postfix text.
Unit(op) == IF op = "(" THEN <<>> ELSE <<op, Space>>

\* Popped(), entry by entry.
LEMMA PoppedResult ==
  ASSUME NEW C, Space \in C, NEW stack \in Seq(C)
  PROVE  /\ Popped(stack, Len(stack)) = <<>>
         /\ \A keep \in 0..Len(stack) :
              /\ Popped(stack, keep) \in Seq(C)
              /\ keep < Len(stack) =>
                   Popped(stack, keep) = Popped(stack, keep + 1) \o Unit(stack[keep + 1])
<1> DEFINE n == Len(stack)
           Rec(f) == [k \in 0..n |->
                        IF k = 0 THEN <<>> ELSE f[k - 1] \o Unit(stack[n + 1 - k])]
           g == CHOOSE h : h = Rec(h)
           step == [p \in Seq(C) \X (1..n) |-> p[1] \o Unit(stack[n + 1 - p[2]])]
<1>1. \A keep : Popped(stack, keep) = g[n - keep]
  BY DEF Popped, Unit
<1>2. n \in Nat
  OBVIOUS
<1>3. ASSUME NEW k \in 1..n
      PROVE  Unit(stack[n + 1 - k]) \in Seq(C)
  <2>1. n + 1 - k \in 1..n
    BY <1>2
  <2>2. stack[n + 1 - k] \in C
    BY <2>1, ElementOfSeq
  <2>3. \A c \in C : <<c, Space>> \in Seq(C) /\ <<>> \in Seq(C)
    OBVIOUS
  <2> QED
    BY <2>2, <2>3 DEF Unit
<1> HIDE DEF n
<1>4. ASSUME NEW s \in Seq(C), NEW k \in 1..n
      PROVE  s \o Unit(stack[n + 1 - k]) \in Seq(C)
  BY <1>3, ConcatProperties
<1>5. step \in [Seq(C) \X (1..n) -> Seq(C)]
  BY <1>4
<1>6. \A s \in Seq(C), k \in 1..n : step[<<s, k>>] = s \o Unit(stack[n + 1 - k])
  OBVIOUS
<1>7. PICK f \in [0..n -> Seq(C)] :
        f[0] = <<>> /\ \A k \in 1..n : f[k] = step[<<f[k - 1], k>>]
  <2>1. PICK S, base : S = Seq(C) /\ base = <<>> /\ base \in S
    <3>1. <<>> \in Seq(C)
      OBVIOUS
    <3> QED
      BY <3>1
  <2> HIDE DEF step
  <2>2. step \in [S \X (1..n) -> S]
    BY <1>5, <2>1
  <2>3. \E f \in [0..n -> S] : IsLoop(f, n, base, step)
    BY <1>2, <2>1, <2>2, RecursionExists
  <2> QED
    BY <2>1, <2>3 DEF IsLoop
<1> HIDE DEF step
<1>8. f = Rec(f)
  <2>1. ASSUME NEW k \in 1..n
        PROVE  f[k] = f[k - 1] \o Unit(stack[n + 1 - k])
    <3>1. f[k - 1] \in Seq(C)
      BY <1>2
    <3> QED
      BY <1>6, <1>7, <3>1
  <2>2. ASSUME NEW k \in 0..n
        PROVE  f[k] = IF k = 0 THEN <<>> ELSE f[k - 1] \o Unit(stack[n + 1 - k])
    <3>1. CASE k = 0
      BY <1>7, <3>1
    <3>2. CASE k # 0
      <4>1. k \in 1..n
        BY <1>2, <3>2
      <4> QED
        BY <2>1, <3>2, <4>1
    <3> QED
      BY <3>1, <3>2
  <2> QED
    BY <2>2
<1>9. g = Rec(g)
  <2> HIDE DEF Rec
  <2> QED
    BY <1>8
<1> HIDE DEF g
<1>10. g[0] = <<>> /\ \A k \in 1..n : g[k] = g[k - 1] \o Unit(stack[n + 1 - k])
  <2>1. \A k \in 0..n : Rec(g)[k] = IF k = 0 THEN <<>> ELSE g[k - 1] \o Unit(stack[n + 1 - k])
    OBVIOUS
  <2>2. \A k \in 0..n : g[k] = IF k = 0 THEN <<>> ELSE g[k - 1] \o Unit(stack[n + 1 - k])
    <3> HIDE DEF Rec
    <3> QED
      BY <1>9, <2>1
  <2>3. 0 \in 0..n /\ \A k \in 1..n : k \in 0..n /\ k # 0
    BY <1>2
  <2>4. g[0] = <<>>
    BY <2>2, <2>3
  <2>5. ASSUME NEW k \in 1..n
        PROVE  g[k] = g[k - 1] \o Unit(stack[n + 1 - k])
    BY <2>2, <2>3
  <2> QED
    BY <2>4, <2>5
<1>11. \A k \in 0..n : g[k] \in Seq(C)
  <2>1. g[0] \in Seq(C)
    BY <1>10
  <2>2. \A k \in 1..n : g[k - 1] \in Seq(C) => g[k] \in Seq(C)
    BY <1>4, <1>10
  <2> QED
    BY <1>2, <2>1, <2>2, RecursionTyped
<1>12. Popped(stack, n) = <<>>
  BY <1>1, <1>2, <1>10
<1>13. ASSUME NEW keep \in 0..n
       PROVE  Popped(stack, keep) \in Seq(C)
  <2>1. n - keep \in 0..n
    BY <1>2
  <2> QED
    BY <1>1, <1>11, <2>1
<1>14. ASSUME NEW keep \in 0..n, keep < n
       PROVE  Popped(stack, keep) = Popped(stack, keep + 1) \o Unit(stack[keep + 1])
  <2>1. PICK k \in Nat : k = n - keep
    BY <1>2
  <2>2. k \in 1..n /\ k - 1 = n - (keep + 1) /\ n + 1 - k = keep + 1
    BY <1>2, <1>14, <2>1
  <2>3. g[k] = g[k - 1] \o Unit(stack[n + 1 - k])
    BY <1>10, <2>2
  <2> QED
    BY <1>1, <2>1, <2>2, <2>3
<1> QED
  BY <1>12, <1>13, <1>14 DEF n

-----------------------------------------------------------------------------
(* The calculator: characters, and how much of a stack stays               *)

DigitChar == {"0", "1", "2", "3", "4", "5", "6", "7", "8", "9"}

\* The digits are ten characters, none of them a space, a parenthesis or an
\* operator.
LEMMA DigitsAre ==
  /\ \A c : IsDigit(c) <=> c \in DigitChar
  /\ DigitChar \cap {" ", "(", ")", "+", "-", "*", "/"} = {}
<1>1. 1..10 = {1, 2, 3, 4, 5, 6, 7, 8, 9, 10}
  OBVIOUS
<1>2. \A c : IsDigit(c) <=> c \in DigitChar
  BY <1>1 DEF IsDigit, Digits, DigitChar
<1>3. DigitChar \cap {" ", "(", ")", "+", "-", "*", "/"} = {}
  BY DEF DigitChar
<1> QED
  BY <1>2, <1>3

\* The larger of two numbers.
LEMMA MaxOfTwo ==
  ASSUME NEW a \in Nat, NEW b \in Nat
  PROVE  /\ Max({a, b}) \in Nat
         /\ a <= Max({a, b}) /\ b <= Max({a, b})
         /\ \A m \in Nat : a <= m /\ b <= m => Max({a, b}) <= m
<1>1. PICK S : S = {a, b}
  OBVIOUS
<1>2. PICK m \in S : \A y \in S : y <= m
  BY <1>1
<1>3. Max(S) = m
  BY <1>1, <1>2, MaxIs
<1> QED
  BY <1>1, <1>2, <1>3

\* The largest of 0 and a set of positions.
LEMMA MaxPosition ==
  ASSUME NEW n \in Nat, NEW P \in SUBSET (1..n)
  PROVE  /\ Max({0} \cup P) \in 0..n
         /\ Max({0} \cup P) = 0 \/ Max({0} \cup P) \in P
         /\ \A k \in P : k <= Max({0} \cup P)
<1>1. PICK S : S = {0} \cup P
  OBVIOUS
<1>2. S \in SUBSET Int /\ S \in SUBSET (0..n) /\ 0 \in S
  BY <1>1
<1> DEFINE W == {w \in Nat : \A y \in S : y <= w}
<1>3. n \in W
  BY <1>2
<1>4. PICK w \in W : \A v \in W : w <= v
  <2>1. W \in SUBSET Nat /\ W # {}
    BY <1>3
  <2> HIDE DEF W
  <2> QED
    BY <2>1, LeastNat
<1>5. w \in S
  <2> SUFFICES ASSUME w \notin S
               PROVE  FALSE
    OBVIOUS
  <2>1. w # 0 /\ w \in Nat
    BY <1>2, <1>4
  <2>2. PICK v \in Nat : v + 1 = w
    <3>1. w - 1 \in Nat /\ (w - 1) + 1 = w
      BY <2>1
    <3> QED
      BY <3>1
  <2>3. \A y \in S : y <= v
    BY <1>2, <1>4, <2>2
  <2> QED
    BY <1>4, <2>2, <2>3
<1>6. Max(S) = w
  BY <1>2, <1>4, <1>5, MaxIs
<1> QED
  BY <1>1, <1>2, <1>4, <1>5, <1>6

\* How much of the stack an operator or a parenthesis leaves.
LEMMA KeptIs ==
  ASSUME NEW C, NEW stack \in Seq(C), NEW op
  PROVE  /\ KeptBelow(stack, op) \in 0..Len(stack)
         /\ OpenParen(stack) \in 0..Len(stack)
         /\ KeptBelow(stack, op) > 0 =>
              \/ stack[KeptBelow(stack, op)] = "("
              \/ precedence(stack[KeptBelow(stack, op)]) < precedence(op)
         /\ OpenParen(stack) > 0 => stack[OpenParen(stack)] = "("
         /\ \A k \in 1..Len(stack) :
              stack[k] = "(" \/ precedence(stack[k]) < precedence(op) =>
                k <= KeptBelow(stack, op)
         /\ \A k \in 1..Len(stack) : stack[k] = "(" => k <= OpenParen(stack)
<1> DEFINE P == {i \in 1..Len(stack) :
                   stack[i] = "(" \/ precedence(stack[i]) < precedence(op)}
           Q == {i \in 1..Len(stack) : stack[i] = "("}
<1>1. KeptBelow(stack, op) = Max({0} \cup P) /\ OpenParen(stack) = Max({0} \cup Q)
  BY DEF KeptBelow, OpenParen
<1>2. PICK n \in Nat : n = Len(stack)
  OBVIOUS
<1>3. P \in SUBSET (1..n) /\ Q \in SUBSET (1..n)
  BY <1>2
<1> HIDE DEF P, Q
<1>4. /\ Max({0} \cup P) \in 0..n
      /\ Max({0} \cup P) = 0 \/ Max({0} \cup P) \in P
      /\ \A k \in P : k <= Max({0} \cup P)
  BY <1>3, MaxPosition
<1>5. /\ Max({0} \cup Q) \in 0..n
      /\ Max({0} \cup Q) = 0 \/ Max({0} \cup Q) \in Q
      /\ \A k \in Q : k <= Max({0} \cup Q)
  BY <1>3, MaxPosition
<1> QED
  BY <1>1, <1>2, <1>4, <1>5 DEF P, Q

-----------------------------------------------------------------------------
(* The calculator: infix_to_postfix()                                      *)

\* The variables of the loop, over a set of characters.
InfixState(C) == [out : Seq(C), stack : Seq(C), high : Nat]

\* A state of the loop by its variables.
InfixAt(out, stack, high) == [out |-> out, stack |-> stack, high |-> high]

\* What a digit leaves behind: itself, and a space when no digit follows.
DigitPart(text, i) ==
  IF i = Len(text) \/ ~IsDigit(text[i + 1]) THEN <<text[i], Space>> ELSE <<text[i]>>

\* What the loop's body does for a space,
LEMMA InfixSpace ==
  ASSUME NEW text, NEW i, NEW s, text[i] = Space
  PROVE  InfixStep(text, s, i) = s
<1>1. ~IsDigit(Space)
  BY DigitsAre DEF Space
<1> QED
  BY <1>1 DEF InfixStep, Space

\* for a digit,
LEMMA InfixDigit ==
  ASSUME NEW text, NEW i, NEW out, NEW stack, NEW high, IsDigit(text[i])
  PROVE  InfixStep(text, InfixAt(out, stack, high), i) =
           InfixAt(out \o DigitPart(text, i), stack, high)
<1>1. ~IsDigit(Space) /\ ~IsDigit("(") /\ ~IsDigit(")")
  BY DigitsAre DEF Space
<1> QED
  BY <1>1 DEF InfixStep, InfixAt, DigitPart

\* for an opening parenthesis,
LEMMA InfixOpen ==
  ASSUME NEW text, NEW i, NEW out, NEW stack, NEW high, text[i] = "("
  PROVE  InfixStep(text, InfixAt(out, stack, high), i) =
           InfixAt(out, Append(stack, "("), Max({high, Len(stack) + 1}))
<1>1. ~IsDigit("(")
  BY DigitsAre
<1> QED
  BY <1>1 DEF InfixStep, InfixAt, Space

\* What a closing parenthesis leaves, the opening one at keep.
BelowParen(stack, keep) ==
  IF keep = 0 THEN SubSeq(stack, 1, keep) ELSE Front(SubSeq(stack, 1, keep))

\* for a closing one,
LEMMA InfixClose ==
  ASSUME NEW text, NEW i, NEW out, NEW stack, NEW high, text[i] = ")"
  PROVE  InfixStep(text, InfixAt(out, stack, high), i) =
           InfixAt(out \o Popped(stack, OpenParen(stack)),
                   BelowParen(stack, OpenParen(stack)), high)
<1>1. ~IsDigit(")")
  BY DigitsAre
<1> QED
  BY <1>1 DEF InfixStep, InfixAt, Space, BelowParen

\* What an operator does that keeps keep entries of the stack.
OperatorStep(out, stack, high, c, keep) ==
  InfixAt(out \o Popped(stack, keep), Append(SubSeq(stack, 1, keep), c), Max({high, keep + 1}))

\* and for an operator.
LEMMA InfixOperator ==
  ASSUME NEW text, NEW i, NEW out, NEW stack, NEW high,
         text[i] \notin {Space, "(", ")"}, ~IsDigit(text[i])
  PROVE  InfixStep(text, InfixAt(out, stack, high), i) =
           OperatorStep(out, stack, high, text[i], KeptBelow(stack, text[i]))
BY DEF InfixStep, InfixAt, OperatorStep

\* The lower part of a stack.
LEMMA PrefixIs ==
  ASSUME NEW C, NEW stack \in Seq(C), NEW keep \in 0..Len(stack)
  PROVE  /\ SubSeq(stack, 1, keep) \in Seq(C)
         /\ Len(SubSeq(stack, 1, keep)) = keep
         /\ \A i \in 1..keep : SubSeq(stack, 1, keep)[i] = stack[i]
         /\ keep = 0 => SubSeq(stack, 1, keep) = <<>>
         /\ keep > 0 => Front(SubSeq(stack, 1, keep)) = SubSeq(stack, 1, keep - 1)
<1>0. Len(stack) \in Nat /\ keep \in Int /\ keep >= 0
  OBVIOUS
<1>1. \A i \in 1..keep : stack[i] \in C
  BY <1>0, ElementOfSeq
<1>2. /\ SubSeq(stack, 1, keep) \in Seq(C)
      /\ Len(SubSeq(stack, 1, keep)) = IF 1 <= keep THEN keep - 1 + 1 ELSE 0
      /\ \A i \in 1..(keep - 1 + 1) : SubSeq(stack, 1, keep)[i] = stack[1 + i - 1]
  BY <1>0, <1>1, SubSeqProperties
<1>3. Len(SubSeq(stack, 1, keep)) = keep
  BY <1>0, <1>2
<1>4. \A i \in 1..keep : SubSeq(stack, 1, keep)[i] = stack[i]
  BY <1>0, <1>2
<1>5. ASSUME keep > 0
      PROVE  Front(SubSeq(stack, 1, keep)) = SubSeq(stack, 1, keep - 1)
  <2>1. PICK p, q, r : /\ p = SubSeq(stack, 1, keep)
                       /\ q = SubSeq(p, 1, keep - 1) /\ r = SubSeq(stack, 1, keep - 1)
    OBVIOUS
  <2>2. PICK m \in Nat : m = keep - 1
    BY <1>0, <1>5
  <2>3. p \in Seq(C) /\ Len(p) = keep
    BY <1>2, <1>3, <2>1
  <2>4. /\ \A i \in 1..m : p[i] \in C
        /\ \A i \in 1..m : stack[i] \in C
        /\ \A i \in 1..m : p[i] = stack[i]
    BY <1>0, <1>1, <1>4, <2>1, <2>2
  <2>5. /\ q \in Seq(C) /\ Len(q) = IF 1 <= m THEN m - 1 + 1 ELSE 0
        /\ \A i \in 1..(m - 1 + 1) : q[i] = p[1 + i - 1]
    BY <2>1, <2>2, <2>4, SubSeqProperties
  <2>6. /\ r \in Seq(C) /\ Len(r) = IF 1 <= m THEN m - 1 + 1 ELSE 0
        /\ \A i \in 1..(m - 1 + 1) : r[i] = stack[1 + i - 1]
    BY <2>1, <2>2, <2>4, SubSeqProperties
  <2>7. Len(q) = m /\ Len(r) = m /\ \A i \in 1..m : q[i] = r[i]
    BY <2>2, <2>4, <2>5, <2>6
  <2>8. q = r
    BY <2>5, <2>6, <2>7, SeqEqual
  <2> QED
    BY <2>1, <2>3, <2>8 DEF Front
<1>6. keep = 0 => SubSeq(stack, 1, keep) = <<>>
  BY <1>2, <1>3, EmptySeq
<1> QED
  BY <1>2, <1>3, <1>4, <1>5, <1>6

\* No entry leaves more than two characters behind.
LEMMA PoppedLength ==
  ASSUME NEW C, Space \in C, NEW stack \in Seq(C)
  PROVE  \A keep \in 0..Len(stack) :
           Popped(stack, keep) \in Seq(C) /\ Len(Popped(stack, keep)) <= 2 * (Len(stack) - keep)
<1> DEFINE n == Len(stack)
           T == {k \in 0..n : Len(Popped(stack, n - k)) <= 2 * k}
<1>0. n \in Nat
  OBVIOUS
<1>1. /\ Popped(stack, n) = <<>>
      /\ \A keep \in 0..n : Popped(stack, keep) \in Seq(C)
      /\ \A keep \in 0..n : keep < n =>
           Popped(stack, keep) = Popped(stack, keep + 1) \o Unit(stack[keep + 1])
  BY PoppedResult
<1>2. \A k \in 1..n : Unit(stack[k]) \in Seq(C) /\ Len(Unit(stack[k])) <= 2
  <2>1. \A c \in C : Unit(c) \in Seq(C) /\ Len(Unit(c)) <= 2
    BY DEF Unit
  <2>2. \A k \in 1..n : stack[k] \in C
    BY ElementOfSeq
  <2> QED
    BY <2>1, <2>2
<1> HIDE DEF n
<1>3. 0 \in T
  <2>1. n - 0 = n
    BY <1>0
  <2> QED
    BY <1>0, <1>1, <2>1
<1>4. ASSUME NEW k \in 0..n, k \in T, k < n
      PROVE  k + 1 \in T
  <2>1. PICK keep \in Nat : keep = n - (k + 1)
    BY <1>0, <1>4
  <2>2. keep \in 0..n /\ keep < n /\ keep + 1 = n - k /\ keep + 1 \in 1..n /\ keep + 1 \in 0..n
    BY <1>0, <1>4, <2>1
  <2>3. PICK p, q, u : p = Popped(stack, keep) /\ q = Popped(stack, keep + 1) /\ u = Unit(stack[keep + 1])
    OBVIOUS
  <2>4. p = q \o u /\ q \in Seq(C) /\ u \in Seq(C) /\ Len(u) <= 2
    BY <1>1, <1>2, <2>2, <2>3
  <2>5. Len(q) <= 2 * k
    BY <1>4, <2>2, <2>3
  <2>6. Len(p) = Len(q) + Len(u)
    BY <2>4, ConcatProperties
  <2>7. Len(p) <= 2 * (k + 1)
    BY <1>0, <2>4, <2>5, <2>6
  <2> QED
    BY <1>0, <1>4, <2>1, <2>3, <2>7
<1>5. \A k \in 0..n : k \in T
  <2> HIDE DEF T
  <2> QED
    BY <1>0, <1>3, <1>4, UpTo
<1>6. ASSUME NEW keep \in 0..n
      PROVE  Len(Popped(stack, keep)) <= 2 * (n - keep)
  <2>1. PICK k \in 0..n : keep = n - k /\ k = n - keep
    BY <1>0
  <2> QED
    BY <1>5, <2>1
<1> QED
  BY <1>1, <1>6 DEF n

\* A character adds at most one entry to the stack of operators, and two
\* characters to the postfix text and what is still to be popped.
LEMMA InfixStepBound ==
  ASSUME NEW C, Space \in C, NEW text \in Seq(C), NEW i \in 1..Len(text),
         NEW s \in InfixState(C)
  PROVE  LET t == InfixStep(text, s, i)
         IN  /\ t \in InfixState(C)
             /\ Len(t.out) + 2 * Len(t.stack) <= Len(s.out) + 2 * Len(s.stack) + 2
             /\ Len(t.stack) <= Len(s.stack) + 1
             /\ \A k \in Nat : s.high <= k /\ Len(s.stack) + 1 <= k => t.high <= k
<1>1. PICK t : t = InfixStep(text, s, i)
  OBVIOUS
<1>2. PICK out \in Seq(C), stack \in Seq(C), high \in Nat :
        /\ s = InfixAt(out, stack, high)
        /\ s.out = out /\ s.stack = stack /\ s.high = high
  BY DEF InfixState, InfixAt
<1>3. Len(out) \in Nat /\ Len(stack) \in Nat /\ text[i] \in C
  BY ElementOfSeq
<1>4. PICK c \in C : c = text[i]
  BY <1>3
<1> SUFFICES /\ t \in InfixState(C)
             /\ Len(t.out) + 2 * Len(t.stack) <= Len(out) + 2 * Len(stack) + 2
             /\ Len(t.stack) <= Len(stack) + 1
             /\ \A k \in Nat : high <= k /\ Len(stack) + 1 <= k => t.high <= k
  BY <1>1, <1>2
<1>5. CASE c = Space
  <2>1. t = s
    BY <1>1, <1>4, <1>5, InfixSpace
  <2>2. t \in InfixState(C) /\ t.out = out /\ t.stack = stack /\ t.high = high
    BY <1>2, <2>1
  <2> QED
    BY <1>3, <2>2
<1>6. CASE IsDigit(c)
  <2>1. PICK tail : tail = DigitPart(text, i)
    OBVIOUS
  <2>2. tail \in Seq(C) /\ Len(tail) <= 2
    BY <1>4, <2>1 DEF DigitPart
  <2>3. t = InfixAt(out \o tail, stack, high)
    BY <1>1, <1>2, <1>4, <1>6, <2>1, InfixDigit
  <2>4. out \o tail \in Seq(C) /\ Len(out \o tail) = Len(out) + Len(tail)
    BY <2>2, ConcatProperties
  <2>5. t \in InfixState(C) /\ t.out = out \o tail /\ t.stack = stack /\ t.high = high
    BY <2>3, <2>4 DEF InfixState, InfixAt
  <2> QED
    BY <1>3, <2>2, <2>4, <2>5
<1>7. CASE c = "("
  <2>1. PICK m \in Nat : /\ m = Max({high, Len(stack) + 1})
                         /\ \A k \in Nat : high <= k /\ Len(stack) + 1 <= k => m <= k
    <3>1. PICK l \in Nat : l = Len(stack) + 1
      BY <1>3
    <3>2. Max({high, l}) \in Nat /\ \A k \in Nat : high <= k /\ l <= k => Max({high, l}) <= k
      BY MaxOfTwo
    <3> QED
      BY <3>1, <3>2
  <2>2. t = InfixAt(out, Append(stack, c), m)
    <3>1. InfixStep(text, InfixAt(out, stack, high), i) =
            InfixAt(out, Append(stack, "("), Max({high, Len(stack) + 1}))
      <4>1. text[i] = "("
        BY <1>4, <1>7
      <4> QED
        BY <4>1, InfixOpen
    <3> QED
      BY <1>1, <1>2, <1>7, <2>1, <3>1
  <2>3. Append(stack, c) \in Seq(C) /\ Len(Append(stack, c)) = Len(stack) + 1
    BY AppendProperties
  <2>4. t \in InfixState(C) /\ t.out = out /\ t.stack = Append(stack, c) /\ t.high = m
    BY <2>2, <2>3 DEF InfixState, InfixAt
  <2>5. \A k \in Nat : high <= k /\ Len(stack) + 1 <= k => t.high <= k
    BY <2>1, <2>4
  <2>6. Len(t.out) + 2 * Len(t.stack) <= Len(out) + 2 * Len(stack) + 2
    BY <1>3, <2>3, <2>4
  <2>7. Len(t.stack) <= Len(stack) + 1
    BY <1>3, <2>3, <2>4
  <2> QED
    BY <2>4, <2>5, <2>6, <2>7
<1>8. CASE c = ")"
  <2>1. PICK keep \in 0..Len(stack) : keep = OpenParen(stack)
    BY KeptIs
  <2>2. PICK p \in Seq(C) : p = Popped(stack, keep) /\ Len(p) <= 2 * (Len(stack) - keep)
    BY PoppedLength
  <2>3. PICK left : left = BelowParen(stack, keep)
    OBVIOUS
  <2>4. left \in Seq(C) /\ Len(left) <= keep
    <3>1. CASE keep = 0
      BY <2>3, <3>1, PrefixIs DEF BelowParen
    <3>2. CASE keep # 0
      <4>1. PICK m \in 0..Len(stack) : m = keep - 1
        BY <1>3, <3>2
      <4>2. left = SubSeq(stack, 1, m)
        BY <2>3, <3>2, <4>1, PrefixIs DEF BelowParen
      <4>3. left \in Seq(C) /\ Len(left) = m
        BY <4>2, PrefixIs
      <4> QED
        BY <1>3, <4>1, <4>3
    <3> QED
      BY <3>1, <3>2
  <2>5. t = InfixAt(out \o p, left, high)
    <3>1. text[i] = ")"
      BY <1>4, <1>8
    <3>2. InfixStep(text, InfixAt(out, stack, high), i) =
            InfixAt(out \o Popped(stack, OpenParen(stack)),
                    BelowParen(stack, OpenParen(stack)), high)
      BY <3>1, InfixClose
    <3> QED
      BY <1>1, <1>2, <2>1, <2>2, <2>3, <3>2
  <2>6. out \o p \in Seq(C) /\ Len(out \o p) = Len(out) + Len(p)
    BY ConcatProperties
  <2>7. t \in InfixState(C) /\ t.out = out \o p /\ t.stack = left /\ t.high = high
    BY <2>4, <2>5, <2>6 DEF InfixState, InfixAt
  <2>8. Len(p) \in Nat /\ Len(left) \in Nat
    BY <2>4
  <2> QED
    BY <1>3, <2>2, <2>4, <2>6, <2>7, <2>8
<1>9. CASE c \notin {Space, "(", ")"} /\ ~IsDigit(c)
  <2>1. PICK keep \in 0..Len(stack) : keep = KeptBelow(stack, c)
    BY KeptIs
  <2>2. PICK p \in Seq(C) : p = Popped(stack, keep) /\ Len(p) <= 2 * (Len(stack) - keep)
    BY PoppedLength
  <2>3. PICK left \in Seq(C) : left = SubSeq(stack, 1, keep) /\ Len(left) = keep
    <3>1. SubSeq(stack, 1, keep) \in Seq(C) /\ Len(SubSeq(stack, 1, keep)) = keep
      BY PrefixIs
    <3> QED
      BY <3>1
  <2>4. PICK m \in Nat : /\ m = Max({high, keep + 1})
                         /\ \A k \in Nat : high <= k /\ Len(stack) + 1 <= k => m <= k
    <3>1. PICK l \in Nat : l = keep + 1
      BY <1>3
    <3>2. \A k \in Nat : Len(stack) + 1 <= k => l <= k
      BY <1>3, <3>1
    <3>3. Max({high, l}) \in Nat /\ \A k \in Nat : high <= k /\ l <= k => Max({high, l}) <= k
      BY MaxOfTwo
    <3> QED
      BY <3>1, <3>2, <3>3
  <2>5. t = InfixAt(out \o p, Append(left, c), m)
    <3>1. text[i] \notin {Space, "(", ")"} /\ ~IsDigit(text[i])
      BY <1>4, <1>9
    <3>2. InfixStep(text, InfixAt(out, stack, high), i) =
            OperatorStep(out, stack, high, text[i], KeptBelow(stack, text[i]))
      BY <3>1, InfixOperator
    <3>3. t = OperatorStep(out, stack, high, c, keep)
      BY <1>1, <1>2, <1>4, <2>1, <3>2
    <3> QED
      BY <2>2, <2>3, <2>4, <3>3 DEF OperatorStep
  <2>6. out \o p \in Seq(C) /\ Len(out \o p) = Len(out) + Len(p)
    BY ConcatProperties
  <2>7. Append(left, c) \in Seq(C) /\ Len(Append(left, c)) = keep + 1
    BY <2>3, AppendProperties
  <2>8. t \in InfixState(C) /\ t.out = out \o p /\ t.stack = Append(left, c) /\ t.high = m
    BY <2>5, <2>6, <2>7 DEF InfixState, InfixAt
  <2>9. Len(p) \in Nat
    OBVIOUS
  <2>10. \A k \in Nat : high <= k /\ Len(stack) + 1 <= k => t.high <= k
    BY <2>4, <2>8
  <2>11. Len(t.out) + 2 * Len(t.stack) <= Len(out) + 2 * Len(stack) + 2
    BY <1>3, <2>2, <2>6, <2>7, <2>8, <2>9
  <2>12. Len(t.stack) <= Len(stack) + 1
    BY <1>3, <2>7, <2>8
  <2> QED
    BY <2>8, <2>10, <2>11, <2>12
<1> QED
  BY <1>5, <1>6, <1>7, <1>8, <1>9

\* The states of the loop, and what is made of the last one.
InfixRun(f, text) ==
  /\ f[0] = InfixAt(<<>>, <<>>, 0)
  /\ \A i \in 1..Len(text) : f[i] = InfixStep(text, f[i - 1], i)
AllOut(s) == s.out \o Popped(s.stack, 0)
InfixEnd(s) ==
  [text |-> IF AllOut(s) = <<>> THEN AllOut(s) ELSE Front(AllOut(s)), high |-> s.high]

\* infix_to_postfix() is such a loop.
LEMMA InfixIs ==
  ASSUME NEW C, Space \in C, NEW text \in Seq(C)
  PROVE  \E f \in [0..Len(text) -> InfixState(C)] :
           InfixRun(f, text) /\ infix_to_postfix(text) = InfixEnd(f[Len(text)])
<1> DEFINE n == Len(text)
           Rec(f) == [i \in 0..n |-> IF i = 0 THEN [out |-> <<>>, stack |-> <<>>, high |-> 0]
                                     ELSE InfixStep(text, f[i - 1], i)]
           g == CHOOSE h : h = Rec(h)
<1>1. infix_to_postfix(text) = InfixEnd(g[n])
  BY DEF infix_to_postfix, InfixEnd, AllOut
<1>2. n \in Nat
  OBVIOUS
<1>3. PICK S, base : S = InfixState(C) /\ base = InfixAt(<<>>, <<>>, 0) /\ base \in S
  <2>1. <<>> \in Seq(C)
    OBVIOUS
  <2>2. InfixAt(<<>>, <<>>, 0) \in InfixState(C)
    BY <2>1 DEF InfixState, InfixAt
  <2> QED
    BY <2>2
<1>4. \A s \in S, i \in 1..n : InfixStep(text, s, i) \in S
  BY <1>3, InfixStepBound
<1>5. PICK step : /\ step \in [S \X (1..n) -> S]
                  /\ \A s \in S, i \in 1..n : step[<<s, i>>] = InfixStep(text, s, i)
  <2> DEFINE st == [p \in S \X (1..n) |-> InfixStep(text, p[1], p[2])]
  <2>1. \A p \in S \X (1..n) : p[1] \in S /\ p[2] \in 1..n
    OBVIOUS
  <2>2. st \in [S \X (1..n) -> S]
    BY <1>4, <2>1
  <2>3. \A s \in S, i \in 1..n : st[<<s, i>>] = InfixStep(text, s, i)
    OBVIOUS
  <2> QED
    BY <2>2, <2>3
<1> HIDE DEF n
<1>6. PICK f \in [0..n -> S] : IsLoop(f, n, base, step)
  BY <1>2, <1>3, <1>5, RecursionExists
<1>7. f[0] = base /\ \A i \in 1..n : f[i] = step[<<f[i - 1], i>>]
  BY <1>6 DEF IsLoop
<1>8. ASSUME NEW i \in 1..n
      PROVE  f[i] = InfixStep(text, f[i - 1], i)
  <2>1. f[i - 1] \in S
    BY <1>2
  <2> QED
    BY <1>5, <1>7, <2>1
<1>9. f = Rec(f)
  <2>1. ASSUME NEW i \in 0..n
        PROVE  f[i] = IF i = 0 THEN [out |-> <<>>, stack |-> <<>>, high |-> 0]
                      ELSE InfixStep(text, f[i - 1], i)
    <3>1. CASE i = 0
      BY <1>3, <1>7, <3>1 DEF InfixAt
    <3>2. CASE i # 0
      <4>1. i \in 1..n
        BY <1>2, <3>2
      <4> QED
        BY <1>8, <3>2, <4>1
    <3> QED
      BY <3>1, <3>2
  <2> QED
    BY <2>1
<1>10. g = Rec(g)
  <2> HIDE DEF Rec
  <2> QED
    BY <1>9
<1> HIDE DEF g
<1>11. ASSUME NEW i \in 0..n
       PROVE  g[i] = IF i = 0 THEN [out |-> <<>>, stack |-> <<>>, high |-> 0]
                     ELSE InfixStep(text, g[i - 1], i)
  <2>1. Rec(g)[i] = IF i = 0 THEN [out |-> <<>>, stack |-> <<>>, high |-> 0]
                    ELSE InfixStep(text, g[i - 1], i)
    OBVIOUS
  <2> HIDE DEF Rec
  <2> QED
    BY <1>10, <2>1
<1>12. g[0] = InfixAt(<<>>, <<>>, 0)
  <2>1. 0 \in 0..n
    BY <1>2
  <2> QED
    BY <1>11, <2>1 DEF InfixAt
<1>13. ASSUME NEW i \in 1..n
       PROVE  g[i] = InfixStep(text, g[i - 1], i)
  <2>1. i \in 0..n /\ i # 0
    BY <1>2
  <2> QED
    BY <1>11, <2>1
<1>14. \A i \in 0..n : g[i] \in S
  <2>1. g[0] \in S
    BY <1>3, <1>12
  <2>2. \A i \in 1..n : g[i - 1] \in S => g[i] \in S
    BY <1>4, <1>13
  <2> QED
    BY <1>2, <2>1, <2>2, RecursionTyped
<1>15. g \in [0..n -> S]
  <2>1. g = [i \in 0..n |-> g[i]]
    <3>1. \E F : g = [i \in 0..n |-> F[i]]
      <4> DEFINE F == [i \in 0..n |-> IF i = 0 THEN [out |-> <<>>, stack |-> <<>>, high |-> 0]
                                      ELSE InfixStep(text, g[i - 1], i)]
      <4>1. F = [i \in 0..n |-> F[i]]
        OBVIOUS
      <4>2. g = F
        BY <1>10
      <4> HIDE DEF F
      <4> QED
        BY <4>1, <4>2
    <3> QED
      BY <3>1
  <2> QED
    BY <1>14, <2>1
<1>16. InfixRun(g, text)
  BY <1>12, <1>13 DEF InfixRun, n
<1> QED
  BY <1>1, <1>3, <1>15, <1>16 DEF n

\* A text of n characters needs at most n entries of the stack of operators
\* and 2 * n bytes of postfix.
LEMMA InfixFits ==
  ASSUME NEW C, Space \in C, NEW text \in Seq(C), text # <<>>
  PROVE  /\ infix_to_postfix(text).text \in Seq(C)
         /\ infix_to_postfix(text).high \in Nat
         /\ infix_to_postfix(text).high <= Len(text)
         /\ Len(infix_to_postfix(text).text) + 1 <= 2 * Len(text)
<1>1. PICK n \in Nat : n = Len(text)
  OBVIOUS
<1>2. PICK f \in [0..n -> InfixState(C)] :
        InfixRun(f, text) /\ infix_to_postfix(text) = InfixEnd(f[n])
  BY <1>1, InfixIs
<1> DEFINE Bounded(s, k) == /\ Len(s.out) + 2 * Len(s.stack) <= 2 * k
                            /\ Len(s.stack) <= k /\ s.high <= k
           T == {i \in 0..n : Bounded(f[i], i)}
<1>3. 0 \in T
  <2>1. f[0].out = <<>> /\ f[0].stack = <<>> /\ f[0].high = 0
    BY <1>2 DEF InfixRun, InfixAt
  <2>2. Len(<<>>) = 0
    OBVIOUS
  <2>3. Bounded(f[0], 0)
    BY <2>1, <2>2
  <2> QED
    BY <2>3
<1>4. ASSUME NEW j \in 0..n, j \in T, j < n
      PROVE  j + 1 \in T
  <2>1. PICK i \in 1..Len(text) : i = j + 1 /\ i - 1 = j /\ i \in 0..n
    BY <1>1, <1>4
  <2>2. PICK s, t : s \in InfixState(C) /\ s = f[j] /\ t = f[i]
    BY <1>4
  <2>3. t = InfixStep(text, s, i)
    BY <1>2, <2>1, <2>2 DEF InfixRun
  <2>4. /\ t \in InfixState(C)
        /\ Len(t.out) + 2 * Len(t.stack) <= Len(s.out) + 2 * Len(s.stack) + 2
        /\ Len(t.stack) <= Len(s.stack) + 1
        /\ \A k \in Nat : s.high <= k /\ Len(s.stack) + 1 <= k => t.high <= k
    BY <2>3, InfixStepBound
  <2>5. Bounded(s, j)
    BY <1>4, <2>2
  <2>0. \A r \in InfixState(C) : Len(r.out) \in Nat /\ Len(r.stack) \in Nat /\ r.high \in Nat
    <3>1. \A r \in InfixState(C) : r.out \in Seq(C) /\ r.stack \in Seq(C) /\ r.high \in Nat
      BY DEF InfixState
    <3> QED
      BY <3>1
  <2>6. PICK a \in Nat, b \in Nat, h \in Nat : a = Len(s.out) /\ b = Len(s.stack) /\ h = s.high
    BY <2>0, <2>2
  <2>7. PICK c \in Nat, d \in Nat, e \in Nat : c = Len(t.out) /\ d = Len(t.stack) /\ e = t.high
    BY <2>0, <2>4
  <2>8. c + 2 * d <= 2 * i /\ d <= i
    <3>1. c + 2 * d <= a + 2 * b + 2 /\ d <= b + 1
      BY <2>4, <2>6, <2>7
    <3>2. a + 2 * b <= 2 * j /\ b <= j
      BY <2>5, <2>6
    <3> QED
      BY <2>1, <3>1, <3>2
  <2>9. h <= i /\ b + 1 <= i /\ i \in Nat
    BY <2>1, <2>5, <2>6
  <2>10. e <= i
    BY <2>4, <2>6, <2>7, <2>9
  <2> QED
    BY <2>1, <2>2, <2>7, <2>8, <2>10
<1>5. Bounded(f[n], n)
  <2>1. \A i \in 0..n : i \in T
    <3> HIDE DEF T
    <3> QED
      BY <1>3, <1>4, UpTo
  <2> QED
    BY <2>1
<1>6. PICK s \in InfixState(C) : s = f[n]
  OBVIOUS
<1>7. PICK out \in Seq(C), stack \in Seq(C), high \in Nat :
        s.out = out /\ s.stack = stack /\ s.high = high
  BY DEF InfixState
<1>8. PICK p \in Seq(C) : p = Popped(stack, 0) /\ Len(p) <= 2 * Len(stack)
  <2>1. 0 \in 0..Len(stack) /\ Len(stack) - 0 = Len(stack)
    OBVIOUS
  <2>2. Popped(stack, 0) \in Seq(C) /\ Len(Popped(stack, 0)) <= 2 * (Len(stack) - 0)
    BY <2>1, PoppedLength
  <2> QED
    BY <2>1, <2>2
<1>9. PICK all \in Seq(C) : all = AllOut(s) /\ Len(all) = Len(out) + Len(p)
  BY <1>7, <1>8, ConcatProperties DEF AllOut
<1>10. PICK x \in Nat, y \in Nat, z \in Nat : x = Len(out) /\ y = Len(stack) /\ z = Len(p)
  OBVIOUS
<1>11. Len(all) <= 2 * n /\ high <= n
  BY <1>5, <1>6, <1>7, <1>8, <1>9, <1>10
<1>12. n > 0
  BY <1>1, EmptySeq
<1>13. /\ infix_to_postfix(text).high = high
       /\ infix_to_postfix(text).text = IF all = <<>> THEN all ELSE Front(all)
  BY <1>2, <1>6, <1>7, <1>9 DEF InfixEnd
<1>14. CASE all = <<>>
  BY <1>1, <1>11, <1>12, <1>13, <1>14
<1>15. CASE all # <<>>
  <2>1. PICK m \in 0..Len(all) : m = Len(all) - 1
    <3>1. PICK l \in Nat : l = Len(all) /\ l # 0
      BY <1>15, EmptySeq
    <3>2. l - 1 \in 0..l
      BY <3>1
    <3> QED
      BY <3>1, <3>2
  <2>2. Front(all) = SubSeq(all, 1, m)
    BY <2>1 DEF Front
  <2>3. Front(all) \in Seq(C) /\ Len(Front(all)) = m
    BY <2>2, PrefixIs
  <2> QED
    BY <1>1, <1>11, <1>13, <1>15, <2>1, <2>3
<1> QED
  BY <1>14, <1>15

-----------------------------------------------------------------------------
(* The calculator: evaluate_postfix()                                      *)

EvalState == [stack : Seq(Int), high : Nat, end : {"value", "malformed", "exception"}]

\* A state of the loop by its variables.
EvalAt(stack, high, end) == [stack |-> stack, high |-> high, end |-> end]

\* The arithmetic gives integers, unless the processor refuses a division.
LEMMA ArithmeticTyped ==
  /\ \A n \in Int : Int32(n) \in Int
  /\ \A c : IsDigit(c) => DigitValue(c) \in 0..9
  /\ \A a \in Int, b \in Int : \A op : ~Traps(a, b, op) => apply_op(a, b, op) \in Int
<1>1. ASSUME NEW n \in Int
      PROVE  Int32(n) \in Int
  <2>1. PICK l \in Nat \ {0} : l = IntLimit
    BY CalculatorSizes
  <2>2. ((n + l) % (2 * l)) - l \in Int
    <3>1. PICK m \in Int, d \in Nat \ {0} : m = n + l /\ d = 2 * l
      BY <2>1
    <3>2. m % d \in Int
      BY <3>1
    <3> QED
      BY <2>1, <3>1, <3>2
  <2> QED
    BY <2>1, <2>2 DEF Int32
<1>2. \A c : IsDigit(c) => DigitValue(c) \in 0..9
  <2>1. ASSUME NEW c, IsDigit(c)
        PROVE  DigitValue(c) \in 0..9
    <3>1. \E d \in 1..10 : Digits[d] = c
      BY <2>1 DEF IsDigit
    <3>2. PICK d : d = CHOOSE e \in 1..10 : Digits[e] = c
      OBVIOUS
    <3>3. d \in 1..10
      BY <3>1, <3>2
    <3> QED
      BY <3>2, <3>3 DEF DigitValue
  <2> QED
    BY <2>1
<1>3. ASSUME NEW a \in Int, NEW b \in Int, NEW op, ~Traps(a, b, op)
      PROVE  apply_op(a, b, op) \in Int
  <2>1. CASE op = "+"
    BY <1>1, <2>1 DEF apply_op
  <2>2. CASE op = "-"
    BY <1>1, <2>2 DEF apply_op
  <2>3. CASE op = "*"
    <3>1. a * b \in Int
      OBVIOUS
    <3> QED
      BY <1>1, <2>3, <3>1 DEF apply_op
  <2>4. CASE op = "/"
    <3>1. b # 0
      BY <1>3, <2>4 DEF Traps
    <3>2. PICK x \in Nat, y \in Nat \ {0} : x = Abs(a) /\ y = Abs(b)
      BY <3>1 DEF Abs
    <3>3. PICK q \in Int : q = x \div y
      OBVIOUS
    <3>4. PICK u \in Int, v \in Int : u = Sign(a) /\ v = Sign(b)
      BY DEF Sign
    <3>5. u * v * q \in Int
      OBVIOUS
    <3> QED
      BY <2>4, <3>2, <3>3, <3>4, <3>5 DEF apply_op
  <2>5. CASE op \notin {"+", "-", "*", "/"}
    BY <2>5 DEF apply_op
  <2> QED
    BY <2>1, <2>2, <2>3, <2>4, <2>5
<1> QED
  BY <1>1, <1>2, <1>3

\* A digit goes on with the number of the character before it.
GoesOnAt(postfix, i) == i > 1 /\ IsDigit(postfix[i - 1])

\* What the loop's body does for a space, or after an end,
LEMMA PostfixNothing ==
  ASSUME NEW postfix, NEW i, NEW s, s.end # "value" \/ postfix[i] = Space
  PROVE  PostfixStep(postfix, s, i) = s
BY DEF PostfixStep

\* for a digit that goes on,
LEMMA PostfixGoesOn ==
  ASSUME NEW postfix, NEW i, NEW stack, NEW high,
         IsDigit(postfix[i]), GoesOnAt(postfix, i)
  PROVE  PostfixStep(postfix, EvalAt(stack, high, "value"), i) =
           EvalAt([stack EXCEPT ![Len(stack)] = Int32(10 * @ + DigitValue(postfix[i]))],
                  high, "value")
<1>1. postfix[i] # Space
  BY DigitsAre DEF Space
<1> QED
  BY <1>1 DEF PostfixStep, EvalAt, GoesOnAt

\* for a digit that starts a number,
LEMMA PostfixStarts ==
  ASSUME NEW postfix, NEW i, NEW stack, NEW high,
         IsDigit(postfix[i]), ~GoesOnAt(postfix, i)
  PROVE  PostfixStep(postfix, EvalAt(stack, high, "value"), i) =
           EvalAt(Append(stack, DigitValue(postfix[i])), Max({high, Len(stack) + 1}), "value")
<1>1. postfix[i] # Space
  BY DigitsAre DEF Space
<1> QED
  BY <1>1 DEF PostfixStep, EvalAt, GoesOnAt

\* for an operator without its operands, or one the processor refuses,
LEMMA PostfixFails ==
  ASSUME NEW postfix, NEW i, NEW stack \in Seq(Int), NEW high,
         ~IsDigit(postfix[i]), postfix[i] # Space,
         Len(stack) < 2 \/ Traps(stack[Len(stack) - 1], stack[Len(stack)], postfix[i])
  PROVE  \E end \in {"malformed", "exception"} :
           PostfixStep(postfix, EvalAt(stack, high, "value"), i) = EvalAt(stack, high, end)
<1>1. PICK end : end = IF Len(stack) < 2 THEN "malformed" ELSE "exception"
  OBVIOUS
<1>2. PICK n \in Nat : n = Len(stack)
  OBVIOUS
<1>3. PostfixStep(postfix, EvalAt(stack, high, "value"), i) = EvalAt(stack, high, end)
  BY <1>1, <1>2 DEF PostfixStep, EvalAt
<1> QED
  BY <1>1, <1>3

\* and for an operator that is applied.
LEMMA PostfixApplies ==
  ASSUME NEW postfix, NEW i, NEW stack \in Seq(Int), NEW high,
         ~IsDigit(postfix[i]), postfix[i] # Space, Len(stack) >= 2,
         ~Traps(stack[Len(stack) - 1], stack[Len(stack)], postfix[i])
  PROVE  PostfixStep(postfix, EvalAt(stack, high, "value"), i) =
           EvalAt(Append(SubSeq(stack, 1, Len(stack) - 2),
                         apply_op(stack[Len(stack) - 1], stack[Len(stack)], postfix[i])),
                  high, "value")
<1>1. PICK n \in Nat : n = Len(stack) /\ n >= 2
  OBVIOUS
<1>2. PICK s : s = EvalAt(stack, high, "value")
  OBVIOUS
<1>3. s.end = "value" /\ s.stack = stack
  BY <1>2 DEF EvalAt
<1>4. PICK new : new = Append(SubSeq(stack, 1, Len(stack) - 2),
                              apply_op(stack[Len(stack) - 1], stack[Len(stack)], postfix[i]))
  OBVIOUS
<1>5. [s EXCEPT !.stack = new] = EvalAt(new, high, "value")
  BY <1>2 DEF EvalAt
<1>6. ~(n < 2)
  BY <1>1
<1>7. PostfixStep(postfix, s, i) =
        [s EXCEPT !.stack = Append(SubSeq(@, 1, Len(stack) - 2),
                               apply_op(stack[Len(stack) - 1], stack[Len(stack)], postfix[i]))]
  BY <1>1, <1>3, <1>6 DEF PostfixStep
<1>8. PostfixStep(postfix, s, i) = [s EXCEPT !.stack = new]
  BY <1>3, <1>4, <1>7
<1> QED
  BY <1>2, <1>4, <1>5, <1>8

\* A number on the stack needs a digit and a character that is none: what the
\* stack can have held after i characters.
Stacked(postfix, s, i) ==
  /\ 2 * Len(s.stack) <= i + 1
  /\ 2 * Len(s.stack) <= i \/ (i > 0 /\ IsDigit(postfix[i]))
  /\ 2 * s.high <= i + 1

\* The loop's body keeps the types and that bound.
LEMMA EvalStepBound ==
  ASSUME NEW C, NEW postfix \in Seq(C), NEW i \in 1..Len(postfix), NEW s \in EvalState
  PROVE  /\ PostfixStep(postfix, s, i) \in EvalState
         /\ Stacked(postfix, s, i - 1) => Stacked(postfix, PostfixStep(postfix, s, i), i)
<1>1. PICK t : t = PostfixStep(postfix, s, i)
  OBVIOUS
<1>2. PICK stack \in Seq(Int), high \in Nat, end \in {"value", "malformed", "exception"} :
        /\ s = EvalAt(stack, high, end)
        /\ s.stack = stack /\ s.high = high /\ s.end = end
  BY DEF EvalState, EvalAt
<1>3. PICK n \in Nat : n = Len(stack)
  OBVIOUS
<1>4. i \in Nat /\ i >= 1
  OBVIOUS
<1>5. Stacked(postfix, s, i - 1) =>
        2 * n <= i /\ 2 * high <= i /\ (2 * n <= i - 1 \/ (i > 1 /\ IsDigit(postfix[i - 1])))
  <2> SUFFICES ASSUME Stacked(postfix, s, i - 1)
               PROVE  2 * n <= i /\ 2 * high <= i /\ (2 * n <= i - 1 \/ (i > 1 /\ IsDigit(postfix[i - 1])))
    OBVIOUS
  <2>1. PICK j \in Nat : j = i - 1
    BY <1>4
  <2>2. /\ 2 * n <= j + 1
        /\ 2 * n <= j \/ (j > 0 /\ IsDigit(postfix[j]))
        /\ 2 * high <= j + 1
    BY <1>2, <1>3, <2>1 DEF Stacked
  <2> QED
    BY <1>4, <2>1, <2>2
<1>6. ASSUME t.stack = stack, t.high = high
      PROVE  Stacked(postfix, s, i - 1) => Stacked(postfix, t, i)
  BY <1>3, <1>4, <1>5, <1>6 DEF Stacked
<1> SUFFICES t \in EvalState /\ (Stacked(postfix, s, i - 1) => Stacked(postfix, t, i))
  BY <1>1
<1>7. CASE end # "value" \/ postfix[i] = Space
  <2>1. t = s
    BY <1>1, <1>2, <1>7, PostfixNothing
  <2> QED
    BY <1>2, <1>6, <2>1
<1>8. CASE end = "value" /\ IsDigit(postfix[i]) /\ GoesOnAt(postfix, i)
  <2>1. PICK new : new = [stack EXCEPT ![Len(stack)] = Int32(10 * @ + DigitValue(postfix[i]))]
    OBVIOUS
  <2>2. PostfixStep(postfix, EvalAt(stack, high, "value"), i) = EvalAt(new, high, "value")
    BY <1>8, <2>1, PostfixGoesOn
  <2>3. t = EvalAt(new, high, "value")
    BY <1>1, <1>2, <1>8, <2>2
  <2>4. new \in Seq(Int) /\ Len(new) = n
    <3>1. CASE n = 0
      <4>1. stack = <<>>
        BY <1>3, <3>1, EmptySeq
      <4>2. new = <<>>
        BY <2>1, <4>1
      <4> QED
        BY <3>1, <4>2
    <3>2. CASE n > 0
      <4>1. n \in 1..Len(stack) /\ stack[n] \in Int
        BY <1>3, <3>2, ElementOfSeq
      <4>2. DigitValue(postfix[i]) \in Int
        <5>1. DigitValue(postfix[i]) \in 0..9
          BY <1>8, ArithmeticTyped
        <5> QED
          BY <5>1
      <4>3. PICK v \in Int : v = Int32(10 * stack[n] + DigitValue(postfix[i]))
        <5>1. 10 * stack[n] + DigitValue(postfix[i]) \in Int
          BY <4>1, <4>2
        <5> QED
          BY <5>1, ArithmeticTyped
      <4>4. new = [stack EXCEPT ![n] = v]
        BY <1>3, <2>1, <4>3
      <4> QED
        BY <1>3, <4>1, <4>4, ExceptSeq
    <3> QED
      BY <3>1, <3>2
  <2>5. t \in EvalState /\ t.stack = new /\ t.high = high
    BY <2>3, <2>4 DEF EvalState, EvalAt
  <2>6. Stacked(postfix, s, i - 1) => Stacked(postfix, t, i)
    BY <1>4, <1>5, <2>4, <2>5 DEF Stacked
  <2> QED
    BY <2>5, <2>6
<1>9. CASE end = "value" /\ IsDigit(postfix[i]) /\ ~GoesOnAt(postfix, i)
  <2>1. PICK d \in Int : d = DigitValue(postfix[i])
    <3>1. DigitValue(postfix[i]) \in 0..9
      BY <1>9, ArithmeticTyped
    <3> QED
      BY <3>1
  <2>2. PICK new \in Seq(Int) : new = Append(stack, d) /\ Len(new) = n + 1
    BY <1>3, AppendProperties
  <2>3. PICK m \in Nat : /\ m = Max({high, n + 1})
                         /\ \A k \in Nat : high <= k /\ n + 1 <= k => m <= k
    <3>1. PICK l \in Nat : l = n + 1
      OBVIOUS
    <3>2. Max({high, l}) \in Nat /\ \A k \in Nat : high <= k /\ l <= k => Max({high, l}) <= k
      BY MaxOfTwo
    <3> QED
      BY <3>1, <3>2
  <2>4. PostfixStep(postfix, EvalAt(stack, high, "value"), i) =
          EvalAt(Append(stack, DigitValue(postfix[i])), Max({high, Len(stack) + 1}), "value")
    BY <1>9, PostfixStarts
  <2>5. t = EvalAt(new, m, "value")
    BY <1>1, <1>2, <1>3, <1>9, <2>1, <2>2, <2>3, <2>4
  <2>6. t \in EvalState /\ t.stack = new /\ t.high = m
    BY <2>5 DEF EvalState, EvalAt
  <2>7. ASSUME Stacked(postfix, s, i - 1)
        PROVE  Stacked(postfix, t, i)
    <3>1. 2 * n <= i - 1 /\ 2 * high <= i
      BY <1>5, <1>9, <2>7 DEF GoesOnAt
    <3>2. 2 * (n + 1) <= i + 1
      BY <1>4, <3>1
    <3>3. PICK k \in Nat : n + 1 <= k /\ high <= k /\ 2 * k <= i + 1
      <4>1. CASE high <= n + 1
        BY <3>2, <4>1
      <4>2. CASE high > n + 1
        BY <1>4, <3>1, <4>2
      <4> QED
        BY <4>1, <4>2
    <3>4. m <= k
      BY <2>3, <3>3
    <3>5. 2 * m <= i + 1
      BY <1>4, <3>3, <3>4
    <3> QED
      BY <1>4, <1>9, <2>2, <2>6, <3>2, <3>5 DEF Stacked
  <2> QED
    BY <2>6, <2>7
<1>10. CASE /\ end = "value" /\ ~IsDigit(postfix[i]) /\ postfix[i] # Space
            /\ Len(stack) < 2 \/ Traps(stack[Len(stack) - 1], stack[Len(stack)], postfix[i])
  <2>1. PICK e \in {"malformed", "exception"} :
          PostfixStep(postfix, EvalAt(stack, high, "value"), i) = EvalAt(stack, high, e)
    BY <1>10, PostfixFails
  <2>2. t = EvalAt(stack, high, e)
    BY <1>1, <1>2, <1>10, <2>1
  <2>3. t \in EvalState /\ t.stack = stack /\ t.high = high
    BY <2>2 DEF EvalState, EvalAt
  <2> QED
    BY <1>6, <2>3
<1>11. CASE /\ end = "value" /\ ~IsDigit(postfix[i]) /\ postfix[i] # Space
            /\ Len(stack) >= 2
            /\ ~Traps(stack[Len(stack) - 1], stack[Len(stack)], postfix[i])
  <2>1. PICK v : v = apply_op(stack[Len(stack) - 1], stack[Len(stack)], postfix[i])
    OBVIOUS
  <2>2. PICK left : left = SubSeq(stack, 1, Len(stack) - 2)
    OBVIOUS
  <2>3. PostfixStep(postfix, EvalAt(stack, high, "value"), i) = EvalAt(Append(left, v), high, "value")
    BY <1>11, <2>1, <2>2, PostfixApplies
  <2>4. t = EvalAt(Append(left, v), high, "value")
    BY <1>1, <1>2, <1>11, <2>3
  <2>5. v \in Int
    <3>1. n - 1 \in 1..Len(stack) /\ n \in 1..Len(stack)
      BY <1>3, <1>11
    <3>2. PICK a \in Int, b \in Int : a = stack[n - 1] /\ b = stack[n]
      BY <3>1, ElementOfSeq
    <3> QED
      BY <1>3, <1>11, <2>1, <3>2, ArithmeticTyped
  <2>6. left \in Seq(Int) /\ Len(left) = n - 2
    <3>1. PICK k \in 0..Len(stack) : k = n - 2
      <4>1. n - 2 \in 0..n
        BY <1>3, <1>11
      <4> QED
        BY <1>3, <4>1
    <3>2. left = SubSeq(stack, 1, k)
      BY <1>3, <2>2, <3>1
    <3> QED
      BY <3>1, <3>2, PrefixIs
  <2>7. PICK new \in Seq(Int) : new = Append(left, v) /\ Len(new) = n - 1
    <3>1. Append(left, v) \in Seq(Int) /\ Len(Append(left, v)) = Len(left) + 1
      BY <2>5, <2>6, AppendProperties
    <3>2. Len(Append(left, v)) = n - 1
      BY <1>3, <2>6, <3>1
    <3> QED
      BY <3>1, <3>2
  <2>8. t \in EvalState /\ t.stack = new /\ t.high = high
    BY <2>4, <2>7 DEF EvalState, EvalAt
  <2>9. Stacked(postfix, s, i - 1) => Stacked(postfix, t, i)
    BY <1>4, <1>5, <2>7, <2>8 DEF Stacked
  <2> QED
    BY <2>8, <2>9
<1>12. Len(stack) < 2 \/ Len(stack) >= 2
  BY <1>3
<1> QED
  BY <1>2, <1>7, <1>8, <1>9, <1>10, <1>11, <1>12

\* The states of the loop, and what is made of the last one.
EvalRun(f, postfix) ==
  /\ f[0] = EvalAt(<<>>, 0, "value")
  /\ \A i \in 1..Len(postfix) : f[i] = PostfixStep(postfix, f[i - 1], i)
EvalEnd(s) ==
  [end |-> IF s.high > StackSize THEN "astray"
           ELSE IF s.end = "exception" THEN s.end ELSE "value",
   value |-> IF s.end = "value" /\ Len(s.stack) = 1 THEN s.stack[1] ELSE 0]

\* evaluate_postfix() is such a loop.
LEMMA EvalIs ==
  ASSUME NEW C, NEW text \in Seq(C)
  PROVE  \E f \in [0..Len(text) -> EvalState] :
           EvalRun(f, text) /\ evaluate_postfix(text) = EvalEnd(f[Len(text)])
<1> DEFINE n == Len(text)
           Rec(f) == [i \in 0..n |-> IF i = 0 THEN [stack |-> <<>>, high |-> 0, end |-> "value"]
                                     ELSE PostfixStep(text, f[i - 1], i)]
           g == CHOOSE h : h = Rec(h)
<1>1. evaluate_postfix(text) = EvalEnd(g[n])
  BY DEF evaluate_postfix, EvalEnd
<1>2. n \in Nat
  OBVIOUS
<1>3. PICK S, base : S = EvalState /\ base = EvalAt(<<>>, 0, "value") /\ base \in S
  <2>1. <<>> \in Seq(Int)
    OBVIOUS
  <2>2. EvalAt(<<>>, 0, "value") \in EvalState
    BY <2>1 DEF EvalState, EvalAt
  <2> QED
    BY <2>2
<1>4. \A s \in S, i \in 1..n : PostfixStep(text, s, i) \in S
  BY <1>3, EvalStepBound
<1>5. PICK step : /\ step \in [S \X (1..n) -> S]
                  /\ \A s \in S, i \in 1..n : step[<<s, i>>] = PostfixStep(text, s, i)
  <2> DEFINE st == [p \in S \X (1..n) |-> PostfixStep(text, p[1], p[2])]
  <2>1. \A p \in S \X (1..n) : p[1] \in S /\ p[2] \in 1..n
    OBVIOUS
  <2>2. st \in [S \X (1..n) -> S]
    BY <1>4, <2>1
  <2>3. \A s \in S, i \in 1..n : st[<<s, i>>] = PostfixStep(text, s, i)
    OBVIOUS
  <2> QED
    BY <2>2, <2>3
<1> HIDE DEF n
<1>6. PICK f \in [0..n -> S] : IsLoop(f, n, base, step)
  BY <1>2, <1>3, <1>5, RecursionExists
<1>7. f[0] = base /\ \A i \in 1..n : f[i] = step[<<f[i - 1], i>>]
  BY <1>6 DEF IsLoop
<1>8. ASSUME NEW i \in 1..n
      PROVE  f[i] = PostfixStep(text, f[i - 1], i)
  <2>1. f[i - 1] \in S
    BY <1>2
  <2> QED
    BY <1>5, <1>7, <2>1
<1>9. f = Rec(f)
  <2>1. ASSUME NEW i \in 0..n
        PROVE  f[i] = IF i = 0 THEN [stack |-> <<>>, high |-> 0, end |-> "value"]
                      ELSE PostfixStep(text, f[i - 1], i)
    <3>1. CASE i = 0
      BY <1>3, <1>7, <3>1 DEF EvalAt
    <3>2. CASE i # 0
      <4>1. i \in 1..n
        BY <1>2, <3>2
      <4> QED
        BY <1>8, <3>2, <4>1
    <3> QED
      BY <3>1, <3>2
  <2> QED
    BY <2>1
<1>10. g = Rec(g)
  <2> HIDE DEF Rec
  <2> QED
    BY <1>9
<1> HIDE DEF g
<1>11. ASSUME NEW i \in 0..n
       PROVE  g[i] = IF i = 0 THEN [stack |-> <<>>, high |-> 0, end |-> "value"]
                     ELSE PostfixStep(text, g[i - 1], i)
  <2>1. Rec(g)[i] = IF i = 0 THEN [stack |-> <<>>, high |-> 0, end |-> "value"]
                    ELSE PostfixStep(text, g[i - 1], i)
    OBVIOUS
  <2> HIDE DEF Rec
  <2> QED
    BY <1>10, <2>1
<1>12. g[0] = EvalAt(<<>>, 0, "value")
  <2>1. 0 \in 0..n
    BY <1>2
  <2> QED
    BY <1>11, <2>1 DEF EvalAt
<1>13. ASSUME NEW i \in 1..n
       PROVE  g[i] = PostfixStep(text, g[i - 1], i)
  <2>1. i \in 0..n /\ i # 0
    BY <1>2
  <2> QED
    BY <1>11, <2>1
<1>14. \A i \in 0..n : g[i] \in S
  <2>1. g[0] \in S
    BY <1>3, <1>12
  <2>2. \A i \in 1..n : g[i - 1] \in S => g[i] \in S
    BY <1>4, <1>13
  <2> QED
    BY <1>2, <2>1, <2>2, RecursionTyped
<1>15. g \in [0..n -> S]
  <2>1. g = [i \in 0..n |-> g[i]]
    <3>1. \E F : g = [i \in 0..n |-> F[i]]
      <4> DEFINE F == [i \in 0..n |-> IF i = 0 THEN [stack |-> <<>>, high |-> 0, end |-> "value"]
                                      ELSE PostfixStep(text, g[i - 1], i)]
      <4>1. F = [i \in 0..n |-> F[i]]
        OBVIOUS
      <4>2. g = F
        BY <1>10
      <4> HIDE DEF F
      <4> QED
        BY <4>1, <4>2
    <3> QED
      BY <3>1
  <2> QED
    BY <1>14, <2>1
<1>16. EvalRun(g, text)
  BY <1>12, <1>13 DEF EvalRun, n
<1> QED
  BY <1>1, <1>3, <1>15, <1>16 DEF n

\* A postfix text of m characters needs at most half as many entries of the
\* stack of numbers, rounded up.
LEMMA EvalFits ==
  ASSUME NEW C, NEW text \in Seq(C), Len(text) + 1 <= 2 * StackSize
  PROVE  evaluate_postfix(text).end # "astray"
<1>1. PICK n \in Nat : n = Len(text)
  OBVIOUS
<1>2. PICK f \in [0..n -> EvalState] :
        EvalRun(f, text) /\ evaluate_postfix(text) = EvalEnd(f[n])
  BY <1>1, EvalIs
<1> DEFINE T == {i \in 0..n : Stacked(text, f[i], i)}
<1>3. 0 \in T
  <2>1. f[0].stack = <<>> /\ f[0].high = 0
    BY <1>2 DEF EvalRun, EvalAt
  <2>2. Len(<<>>) = 0
    OBVIOUS
  <2>3. Stacked(text, f[0], 0)
    BY <2>1, <2>2 DEF Stacked
  <2> QED
    BY <2>3
<1>4. ASSUME NEW j \in 0..n, j \in T, j < n
      PROVE  j + 1 \in T
  <2>1. PICK i \in 1..Len(text) : i = j + 1 /\ i - 1 = j /\ i \in 0..n
    BY <1>1, <1>4
  <2>2. PICK s, t : s \in EvalState /\ s = f[j] /\ t = f[i]
    BY <1>4
  <2>3. t = PostfixStep(text, s, i)
    BY <1>2, <2>1, <2>2 DEF EvalRun
  <2>4. Stacked(text, s, i - 1)
    BY <1>4, <2>1, <2>2
  <2>5. Stacked(text, t, i)
    BY <2>3, <2>4, EvalStepBound
  <2> QED
    BY <2>1, <2>2, <2>5
<1>5. Stacked(text, f[n], n)
  <2>1. \A i \in 0..n : i \in T
    <3> HIDE DEF T
    <3> QED
      BY <1>3, <1>4, UpTo
  <2> QED
    BY <2>1
<1>6. PICK s \in EvalState, high \in Nat : s = f[n] /\ s.high = high
  BY DEF EvalState
<1>7. high <= StackSize
  BY <1>1, <1>5, <1>6, CalculatorSizes DEF Stacked
<1>8. s.end \in {"value", "malformed", "exception"}
  BY DEF EvalState
<1>9. ~(high > StackSize)
  BY <1>7, CalculatorSizes
<1>10. evaluate_postfix(text).end = IF s.end = "exception" THEN s.end ELSE "value"
  BY <1>2, <1>6, <1>9 DEF EvalEnd
<1> QED
  BY <1>8, <1>10

\* calc overruns its arrays only for a text longer than a stack has entries.
LEMMA CalcFits ==
  ASSUME NEW C, Space \in C, NEW text \in Seq(C), text # <<>>, Len(text) <= StackSize
  PROVE  calculator_main(text).end # "astray"
<1>1. PICK p, high : infix_to_postfix(text).text = p /\ infix_to_postfix(text).high = high
  OBVIOUS
<1>2. p \in Seq(C) /\ high \in Nat /\ high <= Len(text) /\ Len(p) + 1 <= 2 * Len(text)
  BY <1>1, InfixFits
<1>3. PICK l \in Nat, m \in Nat : l = Len(text) /\ m = Len(p)
  BY <1>2
<1>4. high <= StackSize /\ m + 1 <= 2 * StackSize /\ m + 1 <= PostfixSize
  BY <1>2, <1>3, CalculatorSizes
<1>5. evaluate_postfix(p).end # "astray"
  BY <1>2, <1>3, <1>4, EvalFits
<1>6. ~(high > StackSize \/ Len(p) + 1 > PostfixSize)
  BY <1>2, <1>3, <1>4, CalculatorSizes
<1>7. calculator_main(text).end = evaluate_postfix(p).end
  BY <1>1, <1>6 DEF calculator_main
<1> QED
  BY <1>5, <1>7

-----------------------------------------------------------------------------
(* The calculator: what a postfix text evaluates to                        *)

\* The loop of evaluate_postfix() over p ends in the state s.
EndsIn(p, s) ==
  \E f \in [0..Len(p) -> EvalState] : EvalRun(f, p) /\ f[Len(p)] = s

\* It ends without an error, with these numbers on the stack.
Evaluates(p, numbers) == \E high \in Nat : EndsIn(p, EvalAt(numbers, high, "value"))

\* The body looks at a character and the one before it.
LEMMA PostfixSame ==
  ASSUME NEW p, NEW q, NEW s, NEW i, p[i] = q[i], GoesOnAt(p, i) = GoesOnAt(q, i)
  PROVE  PostfixStep(p, s, i) = PostfixStep(q, s, i)
BY DEF PostfixStep, GoesOnAt

\* One more character, one more step.
LEMMA EvalAppend ==
  ASSUME NEW C, NEW p \in Seq(C), NEW c \in C, NEW s, EndsIn(p, s),
         NEW q, q = Append(p, c)
  PROVE  EndsIn(q, PostfixStep(q, s, Len(q))) /\ s \in EvalState
<1>1. PICK n \in Nat : n = Len(p)
  OBVIOUS
<1>2. /\ q \in Seq(C) /\ Len(q) = n + 1
      /\ \A i \in 1..n : q[i] = p[i]
      /\ q[n + 1] = c
  BY <1>1, AppendProperties
<1>3. PICK f \in [0..n -> EvalState] : EvalRun(f, p) /\ f[n] = s
  BY <1>1 DEF EndsIn
<1>4. s \in EvalState
  BY <1>3
<1>5. PICK m \in Nat : m = n + 1
  OBVIOUS
<1>6. m \in 1..Len(q) /\ Len(q) = m
  BY <1>2, <1>5
<1>7. PICK t \in EvalState : t = PostfixStep(q, s, m)
  BY <1>2, <1>4, <1>6, EvalStepBound
<1> DEFINE g == [i \in 0..m |-> IF i = m THEN t ELSE f[i]]
<1>8. g \in [0..m -> EvalState] /\ g[m] = t /\ \A i \in 0..n : g[i] = f[i]
  BY <1>5
<1> HIDE DEF g
<1>9. g[0] = EvalAt(<<>>, 0, "value")
  BY <1>3, <1>8 DEF EvalRun
<1>10. ASSUME NEW i \in 1..m
       PROVE  g[i] = PostfixStep(q, g[i - 1], i)
  <2>1. i - 1 \in 0..n
    BY <1>5
  <2>2. CASE i = m
    <3>1. i - 1 = n
      BY <1>5, <2>2
    <3>2. g[i - 1] = s
      BY <1>3, <1>8, <2>1, <3>1
    <3> QED
      BY <1>7, <1>8, <2>2, <3>2
  <2>3. CASE i # m
    <3>1. i \in 1..n /\ i \in 0..n
      BY <1>5, <2>3
    <3>2. f[i] = PostfixStep(p, f[i - 1], i)
      BY <1>1, <1>3, <3>1 DEF EvalRun
    <3>3. GoesOnAt(p, i) = GoesOnAt(q, i)
      <4>1. CASE i > 1
        <5>1. i - 1 \in 1..n
          BY <3>1, <4>1
        <5> QED
          BY <1>2, <5>1 DEF GoesOnAt
      <4>2. CASE ~(i > 1)
        BY <4>2 DEF GoesOnAt
      <4> QED
        BY <4>1, <4>2
    <3>4. PICK r : r = f[i - 1]
      OBVIOUS
    <3>5. p[i] = q[i]
      BY <1>2, <3>1
    <3>6. PostfixStep(p, r, i) = PostfixStep(q, r, i)
      BY <3>3, <3>5, PostfixSame
    <3> QED
      BY <1>8, <2>1, <3>1, <3>2, <3>4, <3>6
  <2> QED
    BY <2>2, <2>3
<1>11. EvalRun(g, q)
  BY <1>6, <1>9, <1>10 DEF EvalRun
<1>12. EndsIn(q, t)
  BY <1>6, <1>8, <1>11 DEF EndsIn
<1> QED
  BY <1>4, <1>6, <1>7, <1>12

\* The loop is deterministic.
LEMMA EvalUnique ==
  ASSUME NEW C, NEW p \in Seq(C), NEW s, NEW t, EndsIn(p, s), EndsIn(p, t)
  PROVE  s = t
<1>1. PICK n \in Nat : n = Len(p)
  OBVIOUS
<1>2. PICK f \in [0..n -> EvalState] : EvalRun(f, p) /\ f[n] = s
  BY <1>1 DEF EndsIn
<1>3. PICK g \in [0..n -> EvalState] : EvalRun(g, p) /\ g[n] = t
  BY <1>1 DEF EndsIn
<1> DEFINE T == {i \in 0..n : f[i] = g[i]}
<1>4. 0 \in T
  BY <1>2, <1>3 DEF EvalRun
<1>5. ASSUME NEW j \in 0..n, j \in T, j < n
      PROVE  j + 1 \in T
  <2>1. PICK i \in 1..n : i = j + 1 /\ i - 1 = j /\ i \in 0..n
    BY <1>5
  <2>2. f[i] = PostfixStep(p, f[i - 1], i) /\ g[i] = PostfixStep(p, g[i - 1], i)
    BY <1>1, <1>2, <1>3 DEF EvalRun
  <2> QED
    BY <1>5, <2>1, <2>2
<1>6. \A i \in 0..n : i \in T
  <2> HIDE DEF T
  <2> QED
    BY <1>4, <1>5, UpTo
<1> QED
  BY <1>2, <1>3, <1>6

\* evaluate_postfix() returns the number a text evaluates to.
LEMMA EvaluatesTo ==
  ASSUME NEW C, NEW p \in Seq(C), NEW v, Evaluates(p, <<v>>)
  PROVE  /\ evaluate_postfix(p).end \in {"value", "astray"}
         /\ evaluate_postfix(p).value = v
<1>1. PICK high \in Nat : EndsIn(p, EvalAt(<<v>>, high, "value"))
  BY DEF Evaluates
<1>2. PICK f \in [0..Len(p) -> EvalState] :
        EvalRun(f, p) /\ evaluate_postfix(p) = EvalEnd(f[Len(p)])
  BY EvalIs
<1>3. EndsIn(p, f[Len(p)])
  BY <1>2 DEF EndsIn
<1>4. f[Len(p)] = EvalAt(<<v>>, high, "value")
  BY <1>1, <1>3, EvalUnique
<1>5. evaluate_postfix(p) = EvalEnd(EvalAt(<<v>>, high, "value"))
  BY <1>2, <1>4
<1>6. Len(<<v>>) = 1 /\ <<v>>[1] = v
  OBVIOUS
<1> QED
  BY <1>5, <1>6 DEF EvalEnd, EvalAt

\* A space changes nothing, nor does leaving one out at the end.
LEMMA EvalSpace ==
  ASSUME NEW C, Space \in C, NEW p \in Seq(C), NEW numbers
  PROVE  Evaluates(p, numbers) <=> Evaluates(Append(p, Space), numbers)
<1>1. PICK q : q = Append(p, Space)
  OBVIOUS
<1>2. q \in Seq(C) /\ Len(q) = Len(p) + 1 /\ q[Len(q)] = Space
  BY <1>1, AppendProperties
<1>3. ASSUME NEW s, EndsIn(p, s)
      PROVE  EndsIn(q, s)
  <2>1. EndsIn(q, PostfixStep(q, s, Len(q)))
    BY <1>1, <1>3, EvalAppend
  <2>2. PostfixStep(q, s, Len(q)) = s
    BY <1>2, PostfixNothing
  <2> QED
    BY <2>1, <2>2
<1>4. ASSUME NEW t, EndsIn(q, t)
      PROVE  EndsIn(p, t)
  <2>1. PICK s : EndsIn(p, s)
    <3>1. PICK f \in [0..Len(p) -> EvalState] : EvalRun(f, p)
      BY EvalIs
    <3> QED
      BY <3>1 DEF EndsIn
  <2>2. EndsIn(q, s)
    BY <1>3, <2>1
  <2>3. s = t
    BY <1>2, <1>4, <2>2, EvalUnique
  <2> QED
    BY <2>1, <2>3
<1> QED
  BY <1>1, <1>3, <1>4 DEF Evaluates

\* A text behind which a digit starts a number.
Apart(p) == p = <<>> \/ ~IsDigit(p[Len(p)])

\* The empty text leaves the stack empty.
LEMMA EvalNothing == Evaluates(<<>>, <<>>)
<1> DEFINE f == [i \in 0..0 |-> EvalAt(<<>>, 0, "value")]
<1>1. Len(<<>>) = 0 /\ 1..0 = {}
  OBVIOUS
<1>2. EvalAt(<<>>, 0, "value") \in EvalState
  BY DEF EvalAt, EvalState
<1>3. f \in [0..0 -> EvalState] /\ f[0] = EvalAt(<<>>, 0, "value")
  BY <1>2
<1> HIDE DEF f
<1>4. EvalRun(f, <<>>)
  BY <1>1, <1>3 DEF EvalRun
<1>5. EndsIn(<<>>, EvalAt(<<>>, 0, "value"))
  BY <1>1, <1>3, <1>4 DEF EndsIn
<1> QED
  BY <1>5 DEF Evaluates

\* The last character of q leads from one stack of numbers to another.
Moves(q, numbers, after) ==
  \A high \in Nat : \E h \in Nat :
    PostfixStep(q, EvalAt(numbers, high, "value"), Len(q)) = EvalAt(after, h, "value")

\* A character whose step leads from one stack to another does so at the end
\* of a text.
LEMMA EvalMoves ==
  ASSUME NEW C, NEW p \in Seq(C), NEW c \in C, NEW numbers, NEW after,
         Evaluates(p, numbers),
         Moves(Append(p, c), numbers, after)
  PROVE  Evaluates(Append(p, c), after)
<1>0. PICK q : q = Append(p, c)
  OBVIOUS
<1>1. PICK high \in Nat : EndsIn(p, EvalAt(numbers, high, "value"))
  BY DEF Evaluates
<1>2. PICK h \in Nat :
        PostfixStep(q, EvalAt(numbers, high, "value"), Len(q)) = EvalAt(after, h, "value")
  BY <1>0 DEF Moves
<1>3. EndsIn(q, PostfixStep(q, EvalAt(numbers, high, "value"), Len(q)))
  BY <1>0, <1>1, EvalAppend
<1>4. EndsIn(q, EvalAt(after, h, "value"))
  BY <1>2, <1>3
<1> QED
  BY <1>0, <1>4 DEF Evaluates

\* The last two characters of a longer text.
LEMMA LongerText ==
  ASSUME NEW C, NEW p \in Seq(C), NEW c \in C
  PROVE  /\ Append(p, c) \in Seq(C)
         /\ Append(p, c)[Len(Append(p, c))] = c
         /\ GoesOnAt(Append(p, c), Len(Append(p, c))) <=> ~Apart(p)
<1>1. PICK n \in Nat : n = Len(p)
  OBVIOUS
<1>2. PICK q : q = Append(p, c)
  OBVIOUS
<1>3. q \in Seq(C) /\ Len(q) = n + 1 /\ q[n + 1] = c /\ \A i \in 1..n : q[i] = p[i]
  BY <1>1, <1>2, AppendProperties
<1>4. p = <<>> <=> n = 0
  BY <1>1, EmptySeq
<1>5. CASE n = 0
  BY <1>2, <1>3, <1>4, <1>5 DEF GoesOnAt, Apart
<1>6. CASE n > 0
  <2>1. n + 1 > 1 /\ (n + 1) - 1 = n /\ n \in 1..n
    BY <1>6
  <2>2. GoesOnAt(q, n + 1) <=> IsDigit(p[n])
    BY <1>3, <2>1 DEF GoesOnAt
  <2> QED
    BY <1>1, <1>2, <1>3, <1>4, <1>6, <2>2 DEF Apart
<1> QED
  BY <1>5, <1>6

\* A digit that starts a number.
LEMMA EvalStarts ==
  ASSUME NEW C, NEW p \in Seq(C), NEW c \in C, IsDigit(c), Apart(p),
         NEW V \in Seq(Int), Evaluates(p, V)
  PROVE  Evaluates(Append(p, c), Append(V, DigitValue(c)))
<1>1. PICK q : q = Append(p, c)
  OBVIOUS
<1>2. PICK m : m = Len(q)
  OBVIOUS
<1>3. IsDigit(q[m]) /\ ~GoesOnAt(q, m) /\ q[m] = c
  BY <1>1, <1>2, LongerText
<1>4. ASSUME NEW high \in Nat
      PROVE  \E h \in Nat : PostfixStep(q, EvalAt(V, high, "value"), m) =
                              EvalAt(Append(V, DigitValue(c)), h, "value")
  <2>1. PostfixStep(q, EvalAt(V, high, "value"), m) =
          EvalAt(Append(V, DigitValue(q[m])), Max({high, Len(V) + 1}), "value")
    BY <1>3, PostfixStarts
  <2>2. Len(V) + 1 \in Nat
    OBVIOUS
  <2>3. Max({high, Len(V) + 1}) \in Nat
    BY <2>2, MaxOfTwo
  <2> QED
    BY <1>3, <2>1, <2>3
<1>5. PICK W : W = Append(V, DigitValue(c))
  OBVIOUS
<1>6. Evaluates(q, W)
  <2>1. Moves(q, V, W)
    BY <1>2, <1>4, <1>5 DEF Moves
  <2> QED
    BY <1>1, <2>1, EvalMoves
<1> QED
  BY <1>1, <1>5, <1>6

\* A digit that goes on with the number on top.
LEMMA EvalGoesOn ==
  ASSUME NEW C, NEW p \in Seq(C), NEW c \in C, IsDigit(c), ~Apart(p),
         NEW V \in Seq(Int), NEW v \in Int, Evaluates(p, Append(V, v))
  PROVE  Evaluates(Append(p, c), Append(V, Int32(10 * v + DigitValue(c))))
<1>1. PICK q : q = Append(p, c)
  OBVIOUS
<1>2. PICK m : m = Len(q)
  OBVIOUS
<1>3. IsDigit(q[m]) /\ GoesOnAt(q, m) /\ q[m] = c
  BY <1>1, <1>2, LongerText
<1>4. PICK W : W = Append(V, v)
  OBVIOUS
<1>5. PICK k \in Nat : k = Len(V) + 1
  OBVIOUS
<1>6. W \in Seq(Int) /\ Len(W) = k /\ W[k] = v /\ \A i \in 1..Len(V) : W[i] = V[i]
  BY <1>4, <1>5, AppendProperties
<1>7. PICK w \in Int : w = Int32(10 * v + DigitValue(c))
  <2>1. DigitValue(c) \in 0..9
    BY ArithmeticTyped
  <2>2. PICK x \in Int : x = 10 * v + DigitValue(c)
    BY <2>1
  <2> QED
    BY <2>2, ArithmeticTyped
<1>8. [W EXCEPT ![k] = w] = Append(V, w)
  <2>1. PICK X : X = [W EXCEPT ![k] = w]
    OBVIOUS
  <2>2. PICK Y : Y = Append(V, w)
    OBVIOUS
  <2>3. Y \in Seq(Int) /\ Len(Y) = k /\ Y[k] = w /\ \A i \in 1..Len(V) : Y[i] = V[i]
    BY <1>5, <2>2, AppendProperties
  <2>4. k \in 1..Len(W)
    BY <1>5, <1>6
  <2>5. X \in Seq(Int) /\ Len(X) = k /\ \A i \in 1..k : X[i] = IF i = k THEN w ELSE W[i]
    BY <1>6, <2>1, <2>4, ExceptSeq
  <2>6. \A i \in 1..k : i = k \/ i \in 1..Len(V)
    BY <1>5
  <2>7. \A i \in 1..k : X[i] = Y[i]
    BY <1>6, <2>3, <2>5, <2>6
  <2>8. X = Y
    BY <2>3, <2>5, <2>7, SeqEqual
  <2> QED
    BY <2>1, <2>2, <2>8
<1>9. ASSUME NEW high \in Nat
      PROVE  \E h \in Nat : PostfixStep(q, EvalAt(W, high, "value"), m) =
                              EvalAt(Append(V, w), h, "value")
  <2>1. PostfixStep(q, EvalAt(W, high, "value"), m) =
          EvalAt([W EXCEPT ![Len(W)] = Int32(10 * @ + DigitValue(q[m]))], high, "value")
    BY <1>3, PostfixGoesOn
  <2>2. [W EXCEPT ![Len(W)] = Int32(10 * @ + DigitValue(q[m]))] = [W EXCEPT ![k] = w]
    BY <1>3, <1>6, <1>7
  <2> QED
    BY <1>8, <2>1, <2>2
<1>10. PICK Z : Z = Append(V, w)
  OBVIOUS
<1>11. Evaluates(q, Z)
  <2>1. Evaluates(p, W)
    BY <1>4
  <2>2. Moves(q, W, Z)
    BY <1>2, <1>9, <1>10 DEF Moves
  <2> QED
    BY <1>1, <2>1, <2>2, EvalMoves
<1> QED
  BY <1>1, <1>7, <1>10, <1>11

\* An operator takes the two numbers on top.
LEMMA EvalApplies ==
  ASSUME NEW C, NEW p \in Seq(C), NEW c \in C, ~IsDigit(c), c # Space,
         NEW V \in Seq(Int), NEW a \in Int, NEW b \in Int,
         Evaluates(p, Append(Append(V, a), b)), ~Traps(a, b, c)
  PROVE  Evaluates(Append(p, c), Append(V, apply_op(a, b, c)))
<1>1. PICK q : q = Append(p, c)
  OBVIOUS
<1>2. PICK m : m = Len(q)
  OBVIOUS
<1>3. ~IsDigit(q[m]) /\ q[m] # Space /\ q[m] = c
  BY <1>1, <1>2, LongerText
<1>4. PICK n \in Nat : n = Len(V)
  OBVIOUS
<1>5. PICK U : U = Append(V, a)
  OBVIOUS
<1>6. U \in Seq(Int) /\ Len(U) = n + 1 /\ U[n + 1] = a /\ \A i \in 1..n : U[i] = V[i]
  BY <1>4, <1>5, AppendProperties
<1>7. PICK W : W = Append(U, b)
  OBVIOUS
<1>8. W \in Seq(Int) /\ Len(W) = (n + 1) + 1 /\ W[(n + 1) + 1] = b /\ \A i \in 1..(n + 1) : W[i] = U[i]
  BY <1>6, <1>7, AppendProperties
<1>9. /\ Len(W) >= 2 /\ W[Len(W) - 1] = a /\ W[Len(W)] = b
      /\ Len(W) - 2 = n
      /\ \A i \in 1..n : W[i] = V[i]
  <2>1. Len(W) = n + 2 /\ Len(W) - 1 = n + 1 /\ (n + 1) + 1 = n + 2 /\ n + 1 \in 1..(n + 1)
    BY <1>8
  <2>2. \A i \in 1..n : i \in 1..(n + 1)
    OBVIOUS
  <2> QED
    BY <1>6, <1>8, <2>1, <2>2
<1>10. SubSeq(W, 1, n) = V
  <2>1. n \in 0..Len(W)
    BY <1>8
  <2>2. PICK X : X = SubSeq(W, 1, n)
    OBVIOUS
  <2>3. X \in Seq(Int) /\ Len(X) = n /\ \A i \in 1..n : X[i] = W[i]
    BY <1>8, <2>1, <2>2, PrefixIs
  <2>4. X = V
    BY <1>4, <1>9, <2>3, SeqEqual
  <2> QED
    BY <2>2, <2>4
<1>11. ASSUME NEW high \in Nat
       PROVE  \E h \in Nat : PostfixStep(q, EvalAt(W, high, "value"), m) =
                               EvalAt(Append(V, apply_op(a, b, c)), h, "value")
  <2>1. PostfixStep(q, EvalAt(W, high, "value"), m) =
          EvalAt(Append(SubSeq(W, 1, Len(W) - 2), apply_op(W[Len(W) - 1], W[Len(W)], q[m])),
                 high, "value")
    BY <1>3, <1>8, <1>9, PostfixApplies
  <2> QED
    BY <1>3, <1>9, <1>10, <2>1
<1>12. PICK Z : Z = Append(V, apply_op(a, b, c))
  OBVIOUS
<1>13. Evaluates(q, Z)
  <2>1. Evaluates(p, W)
    BY <1>5, <1>7
  <2>2. Moves(q, W, Z)
    BY <1>2, <1>11, <1>12 DEF Moves
  <2> QED
    BY <1>1, <2>1, <2>2, EvalMoves
<1> QED
  BY <1>1, <1>12, <1>13

-----------------------------------------------------------------------------
(* The calculator: numbers                                                 *)

\* The values of the prefixes of a text of digits.
NumberRun(f, digits) ==
  f[0] = 0 /\ \A k \in 1..Len(digits) : f[k] = 10 * f[k - 1] + DigitValue(digits[k])

\* NumberOf is such a run.
LEMMA NumberIs ==
  ASSUME NEW digits \in Seq(DigitChar)
  PROVE  \E f \in [0..Len(digits) -> Nat] :
           NumberRun(f, digits) /\ NumberOf(digits) = f[Len(digits)]
<1> DEFINE n == Len(digits)
           Rec(f) == [k \in 0..n |-> IF k = 0 THEN 0
                                     ELSE 10 * f[k - 1] + DigitValue(digits[k])]
           g == CHOOSE h : h = Rec(h)
<1>1. NumberOf(digits) = g[n]
  BY DEF NumberOf
<1>2. n \in Nat
  OBVIOUS
<1>3. \A k \in 1..n : DigitValue(digits[k]) \in Nat
  <2>1. ASSUME NEW k \in 1..n
        PROVE  DigitValue(digits[k]) \in 0..9
    <3>1. digits[k] \in DigitChar
      BY ElementOfSeq
    <3>2. IsDigit(digits[k])
      BY <3>1, DigitsAre
    <3> QED
      BY <3>2, ArithmeticTyped
  <2> QED
    BY <2>1
<1>4. \A s \in Nat, k \in 1..n : 10 * s + DigitValue(digits[k]) \in Nat
  BY <1>3
<1>5. PICK step : /\ step \in [Nat \X (1..n) -> Nat]
                  /\ \A s \in Nat, k \in 1..n :
                       step[<<s, k>>] = 10 * s + DigitValue(digits[k])
  <2> DEFINE st == [p \in Nat \X (1..n) |-> 10 * p[1] + DigitValue(digits[p[2]])]
  <2>1. \A p \in Nat \X (1..n) : p[1] \in Nat /\ p[2] \in 1..n
    OBVIOUS
  <2>2. st \in [Nat \X (1..n) -> Nat]
    BY <1>4, <2>1
  <2>3. \A s \in Nat, k \in 1..n : st[<<s, k>>] = 10 * s + DigitValue(digits[k])
    OBVIOUS
  <2> QED
    BY <2>2, <2>3
<1> HIDE DEF n
<1>6. PICK f \in [0..n -> Nat] : IsLoop(f, n, 0, step)
  BY <1>2, <1>5, RecursionExists
<1>7. f[0] = 0 /\ \A i \in 1..n : f[i] = step[<<f[i - 1], i>>]
  BY <1>6 DEF IsLoop
<1>8. ASSUME NEW i \in 1..n
      PROVE  f[i] = 10 * f[i - 1] + DigitValue(digits[i])
  <2>1. f[i - 1] \in Nat
    BY <1>2
  <2> QED
    BY <1>5, <1>7, <2>1
<1>9. f = Rec(f)
  <2>1. ASSUME NEW i \in 0..n
        PROVE  f[i] = IF i = 0 THEN 0 ELSE 10 * f[i - 1] + DigitValue(digits[i])
    <3>1. CASE i = 0
      BY <1>7, <3>1
    <3>2. CASE i # 0
      <4>1. i \in 1..n
        BY <1>2, <3>2
      <4> QED
        BY <1>8, <3>2, <4>1
    <3> QED
      BY <3>1, <3>2
  <2> QED
    BY <2>1
<1>10. g = Rec(g)
  <2> HIDE DEF Rec
  <2> QED
    BY <1>9
<1> HIDE DEF g
<1>11. ASSUME NEW i \in 0..n
       PROVE  g[i] = IF i = 0 THEN 0 ELSE 10 * g[i - 1] + DigitValue(digits[i])
  <2>1. Rec(g)[i] = IF i = 0 THEN 0 ELSE 10 * g[i - 1] + DigitValue(digits[i])
    OBVIOUS
  <2> HIDE DEF Rec
  <2> QED
    BY <1>10, <2>1
<1>12. g[0] = 0
  <2>1. 0 \in 0..n
    BY <1>2
  <2> QED
    BY <1>11, <2>1
<1>13. ASSUME NEW i \in 1..n
       PROVE  g[i] = 10 * g[i - 1] + DigitValue(digits[i])
  <2>1. i \in 0..n /\ i # 0
    BY <1>2
  <2> QED
    BY <1>11, <2>1
<1>14. \A i \in 0..n : g[i] \in Nat
  <2>1. g[0] \in Nat
    BY <1>12
  <2>2. \A i \in 1..n : g[i - 1] \in Nat => g[i] \in Nat
    BY <1>4, <1>13
  <2> QED
    BY <1>2, <2>1, <2>2, RecursionTyped
<1>15. g \in [0..n -> Nat]
  <2>1. g = [i \in 0..n |-> g[i]]
    <3>1. \E F : g = [i \in 0..n |-> F[i]]
      <4> DEFINE F == [i \in 0..n |-> IF i = 0 THEN 0 ELSE 10 * g[i - 1] + DigitValue(digits[i])]
      <4>1. F = [i \in 0..n |-> F[i]]
        OBVIOUS
      <4>2. g = F
        BY <1>10
      <4> HIDE DEF F
      <4> QED
        BY <4>1, <4>2
    <3> QED
      BY <3>1
  <2> QED
    BY <1>14, <2>1
<1>16. NumberRun(g, digits)
  BY <1>12, <1>13 DEF NumberRun, n
<1> QED
  BY <1>1, <1>15, <1>16 DEF n

\* Runs over texts that agree agree.
LEMMA NumberUnique ==
  ASSUME NEW C, NEW ds \in Seq(C), NEW es \in Seq(C), NEW f, NEW g,
         NumberRun(f, ds), NumberRun(g, es), Len(ds) <= Len(es),
         \A k \in 1..Len(ds) : ds[k] = es[k]
  PROVE  f[Len(ds)] = g[Len(ds)]
<1>0. PICK m \in Nat : m = Len(ds)
  OBVIOUS
<1> DEFINE T == {i \in 0..m : f[i] = g[i]}
<1>1. 0 \in T
  BY DEF NumberRun
<1>2. ASSUME NEW j \in 0..m, j \in T, j < m
      PROVE  j + 1 \in T
  <2>1. PICK i \in 1..m : i = j + 1 /\ i - 1 = j /\ i \in 0..m
    BY <1>2
  <2>2. f[i] = 10 * f[i - 1] + DigitValue(ds[i]) /\ g[i] = 10 * g[i - 1] + DigitValue(ds[i])
    BY <1>0 DEF NumberRun
  <2> QED
    BY <1>2, <2>1, <2>2
<1>3. \A i \in 0..m : i \in T
  <2> HIDE DEF T
  <2> QED
    BY <1>1, <1>2, UpTo
<1> QED
  BY <1>0, <1>3

\* What a number is, digit by digit.
LEMMA NumberGrows ==
  /\ NumberOf(<<>>) = 0
  /\ \A ds \in Seq(DigitChar) : NumberOf(ds) \in Nat
  /\ \A ds \in Seq(DigitChar), c \in DigitChar :
       NumberOf(Append(ds, c)) = 10 * NumberOf(ds) + DigitValue(c)
<1>1. NumberOf(<<>>) = 0
  <2>1. <<>> \in Seq(DigitChar) /\ Len(<<>>) = 0
    OBVIOUS
  <2>2. PICK f \in [0..0 -> Nat] : NumberRun(f, <<>>) /\ NumberOf(<<>>) = f[0]
    BY <2>1, NumberIs
  <2> QED
    BY <2>2 DEF NumberRun
<1>2. ASSUME NEW ds \in Seq(DigitChar)
      PROVE  NumberOf(ds) \in Nat
  <2>1. PICK f \in [0..Len(ds) -> Nat] : NumberOf(ds) = f[Len(ds)]
    BY NumberIs
  <2> QED
    BY <2>1
<1>3. ASSUME NEW ds \in Seq(DigitChar), NEW c \in DigitChar
      PROVE  NumberOf(Append(ds, c)) = 10 * NumberOf(ds) + DigitValue(c)
  <2>1. PICK n \in Nat : n = Len(ds)
    OBVIOUS
  <2>2. PICK es : es = Append(ds, c)
    OBVIOUS
  <2>3. PICK m \in Nat : m = n + 1
    OBVIOUS
  <2>4. /\ es \in Seq(DigitChar) /\ Len(es) = m /\ es[m] = c
        /\ \A i \in 1..n : es[i] = ds[i]
    BY <2>1, <2>2, <2>3, AppendProperties
  <2>5. PICK f \in [0..n -> Nat] : NumberRun(f, ds) /\ NumberOf(ds) = f[n]
    BY <2>1, NumberIs
  <2>6. PICK g \in [0..m -> Nat] : NumberRun(g, es) /\ NumberOf(es) = g[m]
    BY <2>4, NumberIs
  <2>7. g[m] = 10 * g[m - 1] + DigitValue(c) /\ m - 1 = n
    BY <2>3, <2>4, <2>6 DEF NumberRun
  <2>8. Len(ds) <= Len(es)
    BY <2>1, <2>3, <2>4
  <2>9. f[n] = g[n]
    BY <2>1, <2>4, <2>5, <2>6, <2>8, NumberUnique
  <2> QED
    BY <2>2, <2>5, <2>6, <2>7, <2>9
<1> QED
  BY <1>1, <1>2, <1>3

\* A number of the range is what it wraps around to.
LEMMA Int32Same ==
  ASSUME NEW n \in (-IntLimit)..(IntLimit - 1)
  PROVE  Int32(n) = n
<1>1. PICK l \in Nat \ {0} : l = IntLimit
  BY CalculatorSizes
<1>2. PICK m \in Nat, d \in Nat \ {0} : m = n + l /\ d = 2 * l /\ m < d /\ n = m - l
  BY <1>1
<1>3. m % d = m
  BY <1>2
<1> QED
  BY <1>1, <1>2, <1>3 DEF Int32

-----------------------------------------------------------------------------
(* The calculator: from infix to a number                                  *)

\* A text that ends in a space.
EndsSpaced(p) == p # <<>> /\ p[Len(p)] = Space

\* A character and a space behind a text.
LEMMA WithSpace ==
  ASSUME NEW C, Space \in C, NEW p \in Seq(C), NEW c \in C
  PROVE  /\ p \o <<c>> = Append(p, c)
         /\ p \o <<c, Space>> = Append(Append(p, c), Space)
         /\ p \o <<c, Space>> \in Seq(C)
         /\ EndsSpaced(p \o <<c, Space>>)
<1>1. Append(p, c) \in Seq(C) /\ Append(p, c) = p \o <<c>> /\ <<c>> \in Seq(C) /\ <<Space>> \in Seq(C)
  BY AppendProperties, AppendIsConcat
<1>2. Append(Append(p, c), Space) = (p \o <<c>>) \o <<Space>>
  BY <1>1, AppendIsConcat
<1>3. (p \o <<c>>) \o <<Space>> = p \o (<<c>> \o <<Space>>)
  BY <1>1, ConcatAssociative
<1>4. <<c>> \o <<Space>> = <<c, Space>>
  <2>1. PICK x, y, z : x = <<c>> /\ y = <<Space>> /\ z = <<c, Space>>
    OBVIOUS
  <2>2. /\ x \in Seq(C) /\ y \in Seq(C) /\ z \in Seq(C)
        /\ Len(x) = 1 /\ Len(y) = 1 /\ Len(z) = 2
        /\ x[1] = c /\ y[1] = Space /\ z[1] = c /\ z[2] = Space
    BY <2>1
  <2>3. PICK w : w = x \o y
    OBVIOUS
  <2>4. /\ w \in Seq(C) /\ Len(w) = Len(x) + Len(y)
        /\ \A i \in 1..(Len(x) + Len(y)) : w[i] = IF i <= Len(x) THEN x[i] ELSE y[i - Len(x)]
    BY <2>2, <2>3, ConcatProperties
  <2>5. Len(w) = 2 /\ w[1] = c /\ w[2] = Space
    BY <2>2, <2>4
  <2>6. \A i \in 1..2 : i = 1 \/ i = 2
    OBVIOUS
  <2>7. w = z
    BY <2>2, <2>4, <2>5, <2>6, SeqEqual
  <2> QED
    BY <2>1, <2>3, <2>7
<1>5. PICK q : q = Append(Append(p, c), Space)
  OBVIOUS
<1>6. q \in Seq(C) /\ q # <<>> /\ Len(q) = Len(Append(p, c)) + 1 /\ q[Len(Append(p, c)) + 1] = Space
  BY <1>1, <1>5, AppendProperties
<1>7. EndsSpaced(q)
  BY <1>6 DEF EndsSpaced
<1> QED
  BY <1>1, <1>2, <1>3, <1>4, <1>5, <1>6, <1>7

\* A space is no digit.
LEMMA SpacedApart ==
  ASSUME NEW p, EndsSpaced(p)
  PROVE  Apart(p)
<1>1. Space \notin DigitChar
  BY DigitsAre DEF Space
<1> QED
  BY <1>1, DigitsAre DEF EndsSpaced, Apart

\* f is the run of infix_to_postfix() over e.
Running(f, e, C) ==
  /\ Space \in C /\ e \in Seq(C)
  /\ f \in [0..Len(e) -> InfixState(C)]
  /\ InfixRun(f, e)

\* The states of the run, and its steps.
LEMMA RunAt ==
  ASSUME NEW C, NEW e, NEW f, Running(f, e, C), NEW i \in 0..Len(e)
  PROVE  /\ f[i].out \in Seq(C) /\ f[i].stack \in Seq(C) /\ f[i].high \in Nat
         /\ f[i] = InfixAt(f[i].out, f[i].stack, f[i].high)
<1>1. f[i] \in InfixState(C)
  BY DEF Running
<1> QED
  BY <1>1 DEF InfixState, InfixAt

\* A step of the run, by the variables.
LEMMA StepAt ==
  ASSUME NEW C, NEW e, NEW f, Running(f, e, C),
         NEW j \in 0..Len(e), NEW i \in 1..Len(e), j = i - 1
  PROVE  f[i] = InfixStep(e, InfixAt(f[j].out, f[j].stack, f[j].high), i)
<1>1. f[i] = InfixStep(e, f[j], i)
  BY DEF Running, InfixRun
<1>2. f[j] = InfixAt(f[j].out, f[j].stack, f[j].high)
  BY RunAt
<1> QED
  BY <1>1, <1>2

\* The step of a digit,
LEMMA DigitAt ==
  ASSUME NEW C, NEW e, NEW f, Running(f, e, C),
         NEW j \in 0..Len(e), NEW i \in 1..Len(e), j = i - 1, IsDigit(e[i])
  PROVE  f[i].out = f[j].out \o DigitPart(e, i) /\ f[i].stack = f[j].stack
<1>1. PICK out, stack, high : out = f[j].out /\ stack = f[j].stack /\ high = f[j].high
  OBVIOUS
<1>2. f[i] = InfixStep(e, InfixAt(out, stack, high), i)
  BY <1>1, StepAt
<1>3. f[i] = InfixAt(out \o DigitPart(e, i), stack, high)
  BY <1>2, InfixDigit
<1> QED
  BY <1>1, <1>3 DEF InfixAt

\* of an opening parenthesis,
LEMMA OpenAt ==
  ASSUME NEW C, NEW e, NEW f, Running(f, e, C),
         NEW j \in 0..Len(e), NEW i \in 1..Len(e), j = i - 1, e[i] = "("
  PROVE  f[i].out = f[j].out /\ f[i].stack = Append(f[j].stack, "(")
<1>1. PICK out, stack, high : out = f[j].out /\ stack = f[j].stack /\ high = f[j].high
  OBVIOUS
<1>2. f[i] = InfixStep(e, InfixAt(out, stack, high), i)
  BY <1>1, StepAt
<1>3. f[i] = InfixAt(out, Append(stack, "("), Max({high, Len(stack) + 1}))
  BY <1>2, InfixOpen
<1> QED
  BY <1>1, <1>3 DEF InfixAt

\* The states around a closing parenthesis, and around an operator.
Closes(s, t) ==
  /\ t.out = s.out \o Popped(s.stack, OpenParen(s.stack))
  /\ t.stack = BelowParen(s.stack, OpenParen(s.stack))
Replaces(s, t, op) ==
  /\ t.out = s.out \o Popped(s.stack, KeptBelow(s.stack, op))
  /\ t.stack = Append(SubSeq(s.stack, 1, KeptBelow(s.stack, op)), op)

\* of a closing one,
LEMMA CloseAt ==
  ASSUME NEW C, NEW e, NEW f, Running(f, e, C),
         NEW j \in 0..Len(e), NEW i \in 1..Len(e), j = i - 1, e[i] = ")"
  PROVE  Closes(f[j], f[i])
<1>1. PICK out, stack, high : out = f[j].out /\ stack = f[j].stack /\ high = f[j].high
  OBVIOUS
<1>2. f[i] = InfixStep(e, InfixAt(out, stack, high), i)
  BY <1>1, StepAt
<1>3. f[i] = InfixAt(out \o Popped(stack, OpenParen(stack)),
                     BelowParen(stack, OpenParen(stack)), high)
  BY <1>2, InfixClose
<1>4. PICK o, t : /\ o = out \o Popped(stack, OpenParen(stack))
                  /\ t = BelowParen(stack, OpenParen(stack))
  OBVIOUS
<1>5. f[i] = InfixAt(o, t, high)
  BY <1>3, <1>4
<1>6. f[i].out = o /\ f[i].stack = t
  BY <1>5 DEF InfixAt
<1> QED
  BY <1>1, <1>4, <1>6 DEF Closes

\* and of an operator.
LEMMA OperatorAt ==
  ASSUME NEW C, NEW e, NEW f, Running(f, e, C),
         NEW j \in 0..Len(e), NEW i \in 1..Len(e), j = i - 1, e[i] \in {"+", "-", "*", "/"}
  PROVE  Replaces(f[j], f[i], e[i])
<1>1. PICK out, stack, high : out = f[j].out /\ stack = f[j].stack /\ high = f[j].high
  OBVIOUS
<1>2. f[i] = InfixStep(e, InfixAt(out, stack, high), i)
  BY <1>1, StepAt
<1>3. e[i] \notin {Space, "(", ")"} /\ ~IsDigit(e[i])
  BY DigitsAre DEF Space
<1>4. f[i] = OperatorStep(out, stack, high, e[i], KeptBelow(stack, e[i]))
  BY <1>2, <1>3, InfixOperator
<1>5. PICK keep, c : keep = KeptBelow(stack, e[i]) /\ c = e[i]
  OBVIOUS
<1>6. PICK o, t, h : /\ o = out \o Popped(stack, keep)
                     /\ t = Append(SubSeq(stack, 1, keep), c)
                     /\ h = Max({high, keep + 1})
  OBVIOUS
<1>7. f[i] = InfixAt(o, t, h)
  BY <1>4, <1>5, <1>6 DEF OperatorStep
<1>8. f[i].out = o /\ f[i].stack = t
  BY <1>7 DEF InfixAt
<1> QED
  BY <1>1, <1>5, <1>6, <1>8 DEF Replaces

\* How tightly the operator binds that is applied last in e[i..j].
Low(e, i, j) ==
  IF Splits(e, i, j, {"+", "-"}) # {} THEN 1
  ELSE IF Splits(e, i, j, {"*", "/"}) # {} THEN 2
  ELSE 3

\* Before e[i..j] the postfix text evaluates to the numbers V, and the top of
\* the stack of operators binds less tightly than what follows.
Ready(f, e, i, j, V) ==
  /\ \/ f[i - 1].stack = <<>>
     \/ precedence(f[i - 1].stack[Len(f[i - 1].stack)]) < Low(e, i, j)
  /\ Apart(f[i - 1].out)
  /\ Evaluates(f[i - 1].out, V)
  /\ j = Len(e) \/ ~IsDigit(e[j + 1])

\* The stack t is s with operators above that bind at least as tightly as low.
Above(t, s, low) ==
  /\ Len(s) <= Len(t)
  /\ \A m \in 1..Len(s) : t[m] = s[m]
  /\ \A m \in (Len(s) + 1)..Len(t) : t[m] \in {"+", "-", "*", "/"} /\ low <= precedence(t[m])

\* Behind it, once the operators above are popped, it evaluates to the
\* number v on top of V.
Compiled(f, e, i, j, V, v) ==
  /\ Above(f[j].stack, f[i - 1].stack, Low(e, i, j))
  /\ EndsSpaced(f[j].out)
  /\ Evaluates(f[j].out \o Popped(f[j].stack, Len(f[i - 1].stack)), Append(V, v))

\* e[i..j] is translated rightly wherever it stands.
Translates(f, e, i, j, v) == \A V \in Seq(Int) : Ready(f, e, i, j, V) => Compiled(f, e, i, j, V, v)

\* The text from i on of a text of digits, one digit longer.
LEMMA NumberPart ==
  ASSUME NEW C, NEW e \in Seq(C), NEW i \in 1..Len(e), NEW j \in i..Len(e),
         \A q \in i..j : IsDigit(e[q]), NEW k \in i..j
  PROVE  /\ SubSeq(e, i, k) \in Seq(DigitChar) /\ NumberOf(SubSeq(e, i, k)) \in Nat
         /\ k = i => NumberOf(SubSeq(e, i, k)) = DigitValue(e[k])
         /\ i < k => /\ NumberOf(SubSeq(e, i, k - 1)) \in Nat
                     /\ NumberOf(SubSeq(e, i, k)) =
                          10 * NumberOf(SubSeq(e, i, k - 1)) + DigitValue(e[k])
<1>0. \A q \in i..j : e[q] \in DigitChar
  <2> TAKE q \in i..j
  <2>1. PICK c : c = e[q] /\ IsDigit(c)
    OBVIOUS
  <2> QED
    BY <2>1, DigitsAre
<1>1. k \in i..Len(e) /\ e[k] \in DigitChar /\ DigitValue(e[k]) \in 0..9
  <2>1. PICK c : c = e[k] /\ IsDigit(c)
    OBVIOUS
  <2>2. DigitValue(c) \in 0..9
    BY <2>1, ArithmeticTyped
  <2>3. k \in i..Len(e)
    OBVIOUS
  <2> QED
    BY <1>0, <2>1, <2>2, <2>3
<1>2. SubSeq(e, i, k) = SubSeq(e, i, k - 1) \o <<e[k]>>
  BY <1>1, SubSeqRecursiveSecond
<1>3. ASSUME NEW m \in Int, m <= j
      PROVE  SubSeq(e, i, m) \in Seq(DigitChar)
  <2>1. \A q \in i..m : e[q] \in DigitChar
    BY <1>0, <1>3
  <2> QED
    BY <2>1, SubSeqProperties
<1>4. PICK x, y : x = SubSeq(e, i, k - 1) /\ y = SubSeq(e, i, k)
  OBVIOUS
<1>5. x \in Seq(DigitChar) /\ y \in Seq(DigitChar)
  <2>1. PICK m \in Int : m = k - 1 /\ m <= j
    OBVIOUS
  <2>2. SubSeq(e, i, m) \in Seq(DigitChar)
    BY <1>3, <2>1
  <2>3. k \in Int /\ k <= j
    OBVIOUS
  <2>4. SubSeq(e, i, k) \in Seq(DigitChar)
    BY <1>3, <2>3
  <2> QED
    BY <1>4, <2>1, <2>2, <2>4
<1>6. y = Append(x, e[k])
  BY <1>1, <1>2, <1>4, <1>5, AppendIsConcat
<1>7. NumberOf(x) \in Nat /\ NumberOf(y) = 10 * NumberOf(x) + DigitValue(e[k])
  BY <1>1, <1>5, <1>6, NumberGrows
<1>8. NumberOf(y) \in Nat
  BY <1>5, NumberGrows
<1>9. ASSUME k = i
      PROVE  NumberOf(y) = DigitValue(e[k])
  <2>1. k - 1 \in Int /\ k - 1 < i
    BY <1>9
  <2>2. x = <<>>
    BY <1>4, <2>1, SubSeqEmpty
  <2> QED
    BY <1>1, <1>7, <2>2, NumberGrows
<1> QED
  BY <1>4, <1>5, <1>7, <1>8, <1>9

\* Behind a digit a text is not apart.
LEMMA DigitBehind ==
  ASSUME NEW C, NEW p \in Seq(C), NEW c \in C, IsDigit(c)
  PROVE  ~Apart(Append(p, c))
<1>1. PICK q : q = Append(p, c)
  OBVIOUS
<1>2. q # <<>> /\ q[Len(q)] = c
  BY <1>1, AppendProperties
<1> QED
  BY <1>1, <1>2 DEF Apart

\* No digit follows.
NumberEnds(e, k) == k = Len(e) \/ ~IsDigit(e[k + 1])

\* The state t is s with the digit e[k] written, and the space behind it
\* where the number ends.
WithDigit(t, s, e, k) ==
  /\ t.stack = s.stack
  /\ NumberEnds(e, k) => EndsSpaced(t.out) /\ t.out = Append(Append(s.out, e[k]), Space)
  /\ ~NumberEnds(e, k) => ~Apart(t.out) /\ t.out = Append(s.out, e[k])

\* A digit leaves the stack alone and ends in a space when no digit follows.
LEMMA DigitShape ==
  ASSUME NEW C, NEW e, NEW f, Running(f, e, C), NEW q \in 0..Len(e), NEW k \in 1..Len(e), q = k - 1,
         IsDigit(e[k])
  PROVE  WithDigit(f[k], f[q], e, k)
<1>1. PICK p, c : p = f[q].out /\ c = e[k]
  OBVIOUS
<1>2. Space \in C /\ e \in Seq(C)
  BY DEF Running
<1>3. p \in Seq(C) /\ c \in C
  BY <1>1, <1>2, RunAt, ElementOfSeq
<1>4. f[k].out = p \o DigitPart(e, k) /\ f[k].stack = f[q].stack
  <2>1. f[k].out = f[q].out \o DigitPart(e, k) /\ f[k].stack = f[q].stack
    BY DigitAt
  <2> QED
    BY <1>1, <2>1
<1>5. PICK r : r = Append(p, c)
  OBVIOUS
<1>6. ~Apart(r)
  BY <1>1, <1>3, <1>5, DigitBehind
<1>7. p \o <<c>> = r /\ p \o <<c, Space>> = Append(r, Space) /\ EndsSpaced(p \o <<c, Space>>)
  BY <1>2, <1>3, <1>5, WithSpace
<1>8. CASE NumberEnds(e, k)
  <2>1. f[k].out = Append(r, Space) /\ EndsSpaced(f[k].out)
    BY <1>1, <1>4, <1>7, <1>8 DEF DigitPart, NumberEnds
  <2> QED
    BY <1>1, <1>4, <1>5, <1>8, <2>1 DEF WithDigit
<1>9. CASE ~NumberEnds(e, k)
  <2>1. f[k].out = r
    BY <1>1, <1>4, <1>7, <1>9 DEF DigitPart, NumberEnds
  <2> QED
    BY <1>1, <1>4, <1>5, <1>6, <1>9, <2>1 DEF WithDigit
<1> QED
  BY <1>8, <1>9

\* The digit c behind p makes v the number on top of V.
Enters(p, V, c, v) ==
  \/ Apart(p) /\ Evaluates(p, V) /\ v = DigitValue(c)
  \/ \E u \in Int : /\ ~Apart(p) /\ Evaluates(p, Append(V, u))
                    /\ v = Int32(10 * u + DigitValue(c))

\* So it does in the run.
LEMMA DigitStep ==
  ASSUME NEW C, NEW e, NEW f, Running(f, e, C), NEW q \in 0..Len(e), NEW k \in 1..Len(e), q = k - 1,
         IsDigit(e[k]), NEW V \in Seq(Int), NEW v \in Int, Enters(f[q].out, V, e[k], v)
  PROVE  Evaluates(f[k].out, Append(V, v))
<1>1. PICK p, c, W : p = f[q].out /\ c = e[k] /\ W = Append(V, v)
  OBVIOUS
<1>2. Space \in C /\ e \in Seq(C)
  BY DEF Running
<1>3. p \in Seq(C) /\ c \in C
  BY <1>1, <1>2, RunAt, ElementOfSeq
<1>4. WithDigit(f[k], f[q], e, k)
  BY DigitShape
<1>5. PICK r : r = Append(p, c)
  OBVIOUS
<1>6. r \in Seq(C)
  BY <1>3, <1>5, AppendProperties
<1>7. Evaluates(r, W)
  <2>1. CASE Apart(p) /\ Evaluates(p, V) /\ v = DigitValue(c)
    BY <1>1, <1>3, <1>5, <2>1, EvalStarts
  <2>2. CASE \E u \in Int : ~Apart(p) /\ Evaluates(p, Append(V, u)) /\ v = Int32(10 * u + DigitValue(c))
    <3>1. PICK u \in Int : ~Apart(p) /\ Evaluates(p, Append(V, u)) /\ v = Int32(10 * u + DigitValue(c))
      BY <2>2
    <3>2. IsDigit(c)
      BY <1>1
    <3>3. Evaluates(Append(p, c), Append(V, Int32(10 * u + DigitValue(c))))
      BY <1>3, <3>1, <3>2, EvalGoesOn
    <3> QED
      BY <1>1, <1>5, <3>1, <3>3
  <2> QED
    BY <1>1, <2>1, <2>2 DEF Enters
<1>8. Evaluates(Append(r, Space), W)
  BY <1>2, <1>6, <1>7, EvalSpace
<1>9. f[k].out = r \/ f[k].out = Append(r, Space)
  <2>1. f[k].out = Append(f[q].out, e[k]) \/ f[k].out = Append(Append(f[q].out, e[k]), Space)
    <3>1. NumberEnds(e, k) =>
            f[k].out = Append(Append(f[q].out, e[k]), Space)
      BY <1>4 DEF WithDigit
    <3>2. ~NumberEnds(e, k) => f[k].out = Append(f[q].out, e[k])
      BY <1>4 DEF WithDigit
    <3> QED
      BY <3>1, <3>2
  <2> QED
    BY <1>1, <1>5, <2>1
<1> QED
  BY <1>1, <1>7, <1>8, <1>9

\* A number is translated rightly.
LEMMA NumberCase ==
  ASSUME NEW C, NEW e, NEW f, Running(f, e, C),
         NEW i \in 1..Len(e), NEW j \in i..Len(e), \A q \in i..j : IsDigit(e[q]),
         NumberOf(SubSeq(e, i, j)) < IntLimit
  PROVE  Translates(f, e, i, j, NumberOf(SubSeq(e, i, j)))
<1> DEFINE num(q) == NumberOf(SubSeq(e, i, q))
<1>1. PICK n \in Nat : n = Len(e) /\ e \in Seq(C)
  BY DEF Running
<1>2. SUFFICES ASSUME NEW V \in Seq(Int), Ready(f, e, i, j, V)
               PROVE  Compiled(f, e, i, j, V, num(j))
  BY DEF Translates
<1>3. PICK h \in 0..n : h = i - 1
  BY <1>1
<1>4. Apart(f[h].out) /\ Evaluates(f[h].out, V) /\ (j = n \/ ~IsDigit(e[j + 1]))
  BY <1>1, <1>2, <1>3 DEF Ready
<1>5. PICK l \in Nat \ {0} : l = IntLimit
  BY CalculatorSizes
<1> DEFINE P(q) == /\ f[q].stack = f[h].stack
                   /\ num(q) < l => Evaluates(f[q].out, Append(V, num(q)))
                   /\ q < j => ~Apart(f[q].out)
                   /\ q = j => EndsSpaced(f[q].out)
           T == {q \in 0..j : i <= q => P(q)}
<1>6. 0 \in T
  OBVIOUS
<1>7. ASSUME NEW q \in 0..j, q \in T, q < j
      PROVE  q + 1 \in T
  <2>1. PICK k \in 1..j : k = q + 1 /\ q = k - 1
    BY <1>7
  <2>2. SUFFICES ASSUME i <= k
                 PROVE  P(k)
    BY <2>1
  <2>3. k \in i..j /\ k \in 1..Len(e) /\ q \in 0..Len(e)
    BY <1>1, <2>1, <2>2
  <2>4. IsDigit(e[k])
    BY <2>3
  <2>5. WithDigit(f[k], f[q], e, k)
    BY <2>1, <2>3, <2>4, DigitShape
  <2>6. k = i => q = h
    BY <1>3, <2>1
  <2>7. k # i => i <= q /\ P(q) /\ ~Apart(f[q].out)
    BY <1>7, <2>1, <2>2
  <2>8. f[k].stack = f[h].stack
    <3>1. f[k].stack = f[q].stack
      BY <2>5 DEF WithDigit
    <3> QED
      BY <2>6, <2>7, <3>1
  <2>9. k < j => ~Apart(f[k].out)
    <3>1. k < j => ~NumberEnds(e, k)
      BY <2>3 DEF NumberEnds
    <3>2. ~NumberEnds(e, k) => ~Apart(f[k].out)
      BY <2>5 DEF WithDigit
    <3> QED
      BY <3>1, <3>2
  <2>10. k = j => EndsSpaced(f[k].out)
    <3>1. k = j => NumberEnds(e, k)
      BY <1>1, <1>4 DEF NumberEnds
    <3>2. NumberEnds(e, k) => EndsSpaced(f[k].out)
      BY <2>5 DEF WithDigit
    <3> QED
      BY <3>1, <3>2
  <2>11. ASSUME num(k) < l
         PROVE  Evaluates(f[k].out, Append(V, num(k)))
    <3>1. PICK v \in Nat, d \in 0..9 : v = num(k) /\ d = DigitValue(e[k]) /\ v < l
      BY <1>1, <2>3, <2>4, <2>11, NumberPart, ArithmeticTyped
    <3>2. Enters(f[q].out, V, e[k], v)
      <4>1. CASE k = i
        <5>1. v = DigitValue(e[k])
          BY <1>1, <2>3, <3>1, <4>1, NumberPart
        <5> QED
          BY <1>4, <2>6, <4>1, <5>1 DEF Enters
      <4>2. CASE k # i
        <5>1. i < k
          BY <2>2, <4>2
        <5>2. num(k - 1) \in Nat /\ num(k) = 10 * num(k - 1) + DigitValue(e[k])
          BY <1>1, <2>3, <5>1, NumberPart
        <5>3. PICK u \in Nat : u = num(q) /\ v = 10 * u + d
          BY <2>1, <3>1, <5>2
        <5>4. u < l
          <6>1. \A x, y \in Nat : x <= 10 * x + y
            OBVIOUS
          <6>2. d \in Nat /\ u <= v
            BY <5>3, <6>1
          <6> QED
            BY <3>1, <6>2
        <5>5. Evaluates(f[q].out, Append(V, u))
          BY <2>7, <4>2, <5>3, <5>4
        <5>6. v \in (-IntLimit)..(IntLimit - 1)
          BY <1>5, <3>1
        <5>7. v = Int32(v)
          BY <5>6, Int32Same
        <5>8. v = Int32(10 * u + DigitValue(e[k]))
          BY <3>1, <5>3, <5>7
        <5> QED
          BY <2>7, <4>2, <5>5, <5>8 DEF Enters
      <4> QED
        BY <4>1, <4>2
    <3>3. Evaluates(f[k].out, Append(V, v))
      BY <2>1, <2>3, <2>4, <3>2, DigitStep
    <3> QED
      BY <3>1, <3>3
  <2> QED
    BY <2>8, <2>9, <2>10, <2>11
<1>8. \A q \in 0..j : q \in T
  <2> HIDE DEF T
  <2>1. j \in Nat
    BY <1>1
  <2> QED
    BY <1>6, <1>7, <2>1, UpTo
<1>9. /\ f[j].stack = f[h].stack /\ EndsSpaced(f[j].out)
      /\ Evaluates(f[j].out, Append(V, num(j)))
  <2>1. j \in T
    BY <1>8
  <2> QED
    BY <1>5, <2>1
<1>10. PICK stack : stack = f[h].stack /\ stack \in Seq(C)
  BY <1>1, RunAt
<1>11. Popped(stack, Len(stack)) = <<>>
  BY <1>10, PoppedResult DEF Running
<1>12. f[j].out \in Seq(C)
  BY <1>1, RunAt
<1>13. f[j].out \o <<>> = f[j].out
  BY <1>12, ConcatEmptySeq
<1>14. Above(stack, stack, Low(e, i, j))
  <2>1. Len(stack) \in Nat
    BY <1>10
  <2> QED
    BY <2>1 DEF Above
<1> HIDE DEF num
<1> QED
  BY <1>3, <1>9, <1>10, <1>11, <1>13, <1>14 DEF Compiled

\* The levels of binding.
LEMMA Levels ==
  /\ \A op : precedence(op) \in {0, 1, 2}
  /\ \A op \in {"+", "-"} : precedence(op) = 1
  /\ \A op \in {"*", "/"} : precedence(op) = 2
  /\ precedence("(") = 0
  /\ \A e, i, j : Low(e, i, j) \in {1, 2, 3}
<1>1. \A op : precedence(op) \in {0, 1, 2}
  BY DEF precedence
<1>2. \A e, i, j : Low(e, i, j) \in {1, 2, 3}
  BY DEF Low
<1> QED
  BY <1>1, <1>2 DEF precedence

\* What is popped ends in a space.
LEMMA PoppedSpaced ==
  ASSUME NEW C, Space \in C, NEW stack \in Seq(C), NEW keep \in 0..Len(stack),
         NEW p \in Seq(C), EndsSpaced(p)
  PROVE  EndsSpaced(p \o Popped(stack, keep)) /\ p \o Popped(stack, keep) \in Seq(C)
<1>1. PICK n \in Nat : n = Len(stack)
  OBVIOUS
<1>2. /\ Popped(stack, n) = <<>>
      /\ \A k \in 0..n : Popped(stack, k) \in Seq(C)
      /\ \A k \in 0..n : k < n => Popped(stack, k) = Popped(stack, k + 1) \o Unit(stack[k + 1])
  BY <1>1, PoppedResult
<1> DEFINE T == {d \in 0..n : EndsSpaced(p \o Popped(stack, n - d))}
<1>3. 0 \in T
  <2>1. p \o <<>> = p /\ n - 0 = n
    BY ConcatEmptySeq
  <2> QED
    BY <1>2, <2>1
<1>4. ASSUME NEW d \in 0..n, d \in T, d < n
      PROVE  d + 1 \in T
  <2>1. PICK k \in 0..n : k = n - (d + 1) /\ k + 1 = n - d /\ k < n /\ k + 1 \in 0..n
    BY <1>4
  <2>2. PICK x, y, c : x = Popped(stack, k + 1) /\ y = Popped(stack, k) /\ c = stack[k + 1]
    OBVIOUS
  <2>3. y = x \o Unit(c) /\ x \in Seq(C) /\ y \in Seq(C)
    BY <1>2, <2>1, <2>2
  <2>4. c \in C
    <3>1. k + 1 \in 1..Len(stack)
      BY <1>1, <2>1
    <3> QED
      BY <2>2, <3>1, ElementOfSeq
  <2>5. EndsSpaced(p \o x)
    BY <1>4, <2>1, <2>2
  <2>6. EndsSpaced(p \o y)
    <3>1. CASE c = "("
      <4>1. y = x
        BY <2>3, <3>1, ConcatEmptySeq DEF Unit
      <4> QED
        BY <2>5, <4>1
    <3>2. CASE c # "("
      <4>0. <<c, Space>> \in Seq(C)
        BY <2>4
      <4>1. PICK u : u = <<c, Space>> /\ u \in Seq(C)
        BY <4>0
      <4>2. y = x \o u
        BY <2>3, <3>2, <4>1 DEF Unit
      <4>3. p \o y = (p \o x) \o u
        BY <2>3, <4>1, <4>2, ConcatAssociative
      <4>4. p \o x \in Seq(C)
        BY <2>3, ConcatProperties
      <4>5. EndsSpaced((p \o x) \o <<c, Space>>)
        BY <2>4, <4>4, WithSpace
      <4> QED
        BY <4>1, <4>3, <4>5
    <3> QED
      BY <3>1, <3>2
  <2> QED
    BY <2>1, <2>2, <2>6
<1>5. \A d \in 0..n : d \in T
  <2> HIDE DEF T
  <2> QED
    BY <1>3, <1>4, UpTo
<1>6. n - keep \in 0..n /\ n - (n - keep) = keep
  BY <1>1
<1>7. EndsSpaced(p \o Popped(stack, keep))
  BY <1>5, <1>6
<1>8. Popped(stack, keep) \in Seq(C)
  BY <1>1, <1>2
<1> QED
  BY <1>7, <1>8, ConcatProperties

\* An operator that binds no tighter than what lies above s, and tighter than
\* the top of s, keeps exactly s.
LEMMA KeptExactly ==
  ASSUME NEW C, NEW t \in Seq(C), NEW s \in Seq(C), NEW low, Above(t, s, low),
         NEW op, low \in Nat, precedence(op) <= low,
         s = <<>> \/ precedence(s[Len(s)]) < precedence(op)
  PROVE  KeptBelow(t, op) = Len(s)
<1>0. PICK k : k = KeptBelow(t, op)
  OBVIOUS
<1>1. PICK n \in Nat, m \in Nat : k = KeptBelow(t, op) /\ n = Len(s) /\ m = Len(t)
  BY <1>0
<1>2. /\ k \in 0..m
      /\ k > 0 => t[k] = "(" \/ precedence(t[k]) < precedence(op)
      /\ \A q \in 1..m : t[q] = "(" \/ precedence(t[q]) < precedence(op) => q <= k
  BY <1>1, KeptIs
<1>3. /\ n <= m
      /\ \A q \in 1..n : t[q] = s[q]
      /\ \A q \in (n + 1)..m : t[q] \in {"+", "-", "*", "/"} /\ low <= precedence(t[q])
  BY <1>1 DEF Above
<1>4. k <= n
  <2>1. SUFFICES ASSUME k > n
                 PROVE  FALSE
    BY <1>2
  <2>2. k \in (n + 1)..m /\ k > 0
    BY <1>2, <2>1
  <2>3. t[k] # "(" /\ low <= precedence(t[k])
    BY <1>3, <2>2
  <2>4. precedence(t[k]) < precedence(op)
    BY <1>2, <2>2, <2>3
  <2>5. PICK x \in Nat, y \in Nat : x = precedence(t[k]) /\ y = precedence(op)
    BY Levels
  <2> QED
    BY <2>3, <2>4, <2>5
<1>5. n <= k
  <2>1. SUFFICES ASSUME n > 0
                 PROVE  n <= k
    BY <1>2
  <2>2. n \in 1..n /\ n \in 1..m /\ s # <<>>
    BY <1>1, <1>3, <2>1
  <2>3. precedence(t[n]) < precedence(op)
    BY <1>1, <1>3, <2>2
  <2> QED
    BY <1>2, <2>2, <2>3
<1> QED
  BY <1>1, <1>2, <1>4, <1>5

\* A closing parenthesis finds the opening one below the operators.
LEMMA OpenExactly ==
  ASSUME NEW C, NEW t \in Seq(C), NEW s \in Seq(C), NEW low, Above(t, s, low),
         s # <<>>, s[Len(s)] = "("
  PROVE  OpenParen(t) = Len(s)
<1>0. PICK k : k = OpenParen(t)
  OBVIOUS
<1>1. PICK n \in Nat, m \in Nat : k = OpenParen(t) /\ n = Len(s) /\ m = Len(t)
  BY <1>0
<1>2. /\ k \in 0..m
      /\ k > 0 => t[k] = "("
      /\ \A q \in 1..m : t[q] = "(" => q <= k
  BY <1>1, KeptIs
<1>3. /\ n <= m
      /\ \A q \in 1..n : t[q] = s[q]
      /\ \A q \in (n + 1)..m : t[q] \in {"+", "-", "*", "/"}
  BY <1>1 DEF Above
<1>4. n > 0
  BY <1>1, EmptySeq
<1>5. n \in 1..n /\ n \in 1..m
  BY <1>3, <1>4
<1>6. n <= k
  BY <1>1, <1>2, <1>3, <1>5
<1>7. ~(k > n)
  <2>1. SUFFICES ASSUME k > n
                 PROVE  FALSE
    OBVIOUS
  <2>2. k \in (n + 1)..m /\ k > 0
    BY <1>2, <2>1
  <2> QED
    BY <1>2, <1>3, <2>2
<1> QED
  BY <1>1, <1>2, <1>6, <1>7

\* t is s with one more entry.
Pushed(t, s, c) ==
  /\ Len(t) = Len(s) + 1 /\ t[Len(s) + 1] = c /\ t # <<>>
  /\ \A k \in 1..Len(s) : t[k] = s[k]

\* So is what Append makes.
LEMMA PushIs ==
  ASSUME NEW C, NEW s \in Seq(C), NEW c \in C
  PROVE  Pushed(Append(s, c), s, c)
BY AppendProperties DEF Pushed

\* e[i..j] is e[a..b] in parentheses.
Enclosed(e, i, j, a, b) ==
  /\ i \in 1..Len(e) /\ j \in 1..Len(e) /\ a \in 1..Len(e) /\ b \in 1..Len(e)
  /\ a = i + 1 /\ j = b + 1 /\ a <= b
  /\ e[i] = "(" /\ e[j] = ")"

\* What stands in parentheses is translated as it is without them.
LEMMA ParenCase ==
  ASSUME NEW C, NEW e, NEW f, Running(f, e, C), NEW i, NEW j, NEW a, NEW b, Enclosed(e, i, j, a, b),
         NEW v, Translates(f, e, a, b, v)
  PROVE  Translates(f, e, i, j, v)
<1>0. /\ i \in 1..Len(e) /\ j \in 1..Len(e) /\ a \in 1..Len(e) /\ b \in 1..Len(e)
      /\ a = i + 1 /\ j = b + 1 /\ e[i] = "(" /\ e[j] = ")"
  BY DEF Enclosed
<1>1. e \in Seq(C) /\ Space \in C
  BY DEF Running
<1>101. /\ f[i].out = f[i - 1].out /\ f[i].stack = Append(f[i - 1].stack, "(")
      /\ f[j].out = f[b].out \o Popped(f[b].stack, OpenParen(f[b].stack))
      /\ f[j].stack = BelowParen(f[b].stack, OpenParen(f[b].stack))
  <2>1. PICK g \in 0..Len(e) : g = i - 1
    BY <1>0, <1>1
  <2>2. f[i].out = f[g].out /\ f[i].stack = Append(f[g].stack, "(")
    BY <1>0, <2>1, OpenAt
  <2>3. b \in 0..Len(e) /\ b = j - 1
    BY <1>0, <1>1
  <2>4. Closes(f[b], f[j])
    BY <1>0, <2>3, CloseAt
  <2> QED
    BY <2>1, <2>2, <2>4 DEF Closes
<1>102. \A r \in Seq(C), c \in C : Pushed(Append(r, c), r, c)
  BY PushIs
<1>2. SUFFICES ASSUME NEW V \in Seq(Int), Ready(f, e, i, j, V)
               PROVE  Compiled(f, e, i, j, V, v)
  BY DEF Translates
<1>3. PICK h \in 0..Len(e) : h = i - 1
  BY <1>0, <1>1
<1>4. i = a - 1 /\ b = j - 1 /\ i \in 0..Len(e) /\ b \in 0..Len(e) /\ j \in 0..Len(e)
  BY <1>0, <1>1
<1>5. PICK s \in Seq(C), s2 \in Seq(C), t \in Seq(C) : s = f[h].stack /\ s2 = f[i].stack /\ t = f[b].stack
  BY <1>1, <1>4, RunAt
<1>6. PICK p \in Seq(C), q \in Seq(C) : p = f[h].out /\ q = f[b].out
  BY <1>1, <1>4, RunAt
<1>7. f[i].out = p /\ s2 = Append(s, "(")
  BY <1>3, <1>5, <1>6, <1>101
<1>8. PICK m \in Nat : m = Len(s)
  OBVIOUS
<1>9. Len(s2) = m + 1 /\ s2[m + 1] = "(" /\ s2 # <<>> /\ \A x \in 1..m : s2[x] = s[x]
  <2>1. "(" \in C
    BY <1>0, <1>1, ElementOfSeq
  <2>2. PICK c \in C : c = "("
    BY <2>1
  <2>3. Pushed(s2, s, c)
    BY <1>7, <1>102, <2>2
  <2> QED
    BY <1>8, <2>2, <2>3 DEF Pushed
<1>10. Ready(f, e, a, b, V)
  <2>1. precedence(s2[Len(s2)]) < Low(e, a, b)
    <3>1. precedence(s2[Len(s2)]) = 0
      BY <1>9, Levels
    <3>2. PICK l \in {1, 2, 3} : l = Low(e, a, b)
      BY Levels
    <3> QED
      BY <3>1, <3>2
  <2>2. Apart(p) /\ Evaluates(p, V)
    BY <1>2, <1>3, <1>6 DEF Ready
  <2>3. ~IsDigit(e[b + 1])
    BY <1>0, DigitsAre
  <2> QED
    BY <1>4, <1>5, <1>7, <2>1, <2>2, <2>3 DEF Ready
<1>11. Compiled(f, e, a, b, V, v)
  BY <1>10 DEF Translates
<1>12. /\ Above(t, s2, Low(e, a, b)) /\ EndsSpaced(q)
       /\ Evaluates(q \o Popped(t, m + 1), Append(V, v))
  BY <1>4, <1>5, <1>6, <1>9, <1>11 DEF Compiled
<1>13. PICK k \in Nat : k = m + 1
  OBVIOUS
<1>14. OpenParen(t) = k
  BY <1>9, <1>12, <1>13, OpenExactly
<1>15. f[j].out = q \o Popped(t, k) /\ f[j].stack = BelowParen(t, k)
  BY <1>5, <1>6, <1>14, <1>101
<1>16. k \in 0..Len(t) /\ k > 0 /\ k - 1 = m /\ m \in 0..Len(t) /\ \A x \in 1..m : t[x] = s[x]
  <2>1. k <= Len(t) /\ \A x \in 1..k : t[x] = s2[x]
    BY <1>9, <1>12, <1>13 DEF Above
  <2>2. \A x \in 1..m : x \in 1..k
    BY <1>13
  <2>3. k \in 0..Len(t) /\ k > 0 /\ k - 1 = m /\ m \in 0..Len(t)
    BY <1>13, <2>1
  <2> QED
    BY <1>9, <2>1, <2>2, <2>3
<1>17. f[j].stack = s
  <2>1. PICK r : r = SubSeq(t, 1, m)
    OBVIOUS
  <2>2. r \in Seq(C) /\ Len(r) = m /\ \A x \in 1..m : r[x] = t[x]
    BY <1>16, <2>1, PrefixIs
  <2>3. r = s
    BY <1>8, <1>16, <2>2, SeqEqual
  <2>4. Front(SubSeq(t, 1, k)) = SubSeq(t, 1, k - 1)
    BY <1>16, PrefixIs
  <2>5. BelowParen(t, k) = Front(SubSeq(t, 1, k))
    BY <1>16 DEF BelowParen
  <2> QED
    BY <1>15, <1>16, <2>1, <2>3, <2>4, <2>5
<1>18. EndsSpaced(f[j].out) /\ f[j].out \in Seq(C)
  BY <1>1, <1>12, <1>15, <1>16, PoppedSpaced
<1>19. f[j].out \o Popped(s, m) = f[j].out
  <2>1. Popped(s, m) = <<>>
    BY <1>1, <1>8, PoppedResult
  <2> QED
    BY <1>18, <2>1, ConcatEmptySeq
<1>20. Above(s, s, Low(e, i, j))
  BY <1>8 DEF Above
<1>21. Evaluates(f[j].out \o Popped(f[j].stack, Len(f[h].stack)), Append(V, v))
  BY <1>5, <1>8, <1>12, <1>13, <1>15, <1>17, <1>19
<1> QED
  BY <1>3, <1>5, <1>17, <1>18, <1>20, <1>21 DEF Compiled

\* e[i..j] is e[i..a] and e[b..j] around the operator at k, which is applied
\* last.
Joined(e, i, j, k, a, b) ==
  /\ i \in 1..Len(e) /\ j \in 1..Len(e) /\ k \in 1..Len(e)
  /\ a \in 1..Len(e) /\ b \in 1..Len(e) /\ k = a + 1 /\ b = k + 1 /\ i <= a /\ b <= j
  /\ e[k] \in {"+", "-", "*", "/"}
  /\ Low(e, i, j) = precedence(e[k])
  /\ precedence(e[k]) <= Low(e, i, a) /\ precedence(e[k]) < Low(e, b, j)

\* Three texts, joined either way.
Regrouped(p, x, y) == p \o (x \o y) = (p \o x) \o y

\* Concatenation is associative.
LEMMA Regroup ==
  ASSUME NEW C, NEW p \in Seq(C), NEW x \in Seq(C), NEW y \in Seq(C)
  PROVE  Regrouped(p, x, y)
<1>1. (p \o x) \o y = p \o (x \o y)
  BY ConcatAssociative
<1> QED
  BY <1>1 DEF Regrouped

\* Such a text is translated rightly when its parts are.
LEMMA OperatorCase ==
  ASSUME NEW C, NEW e, NEW f, Running(f, e, C),
         NEW i, NEW j, NEW k, NEW a, NEW b, Joined(e, i, j, k, a, b),
         NEW x \in Int, NEW y \in Int, ~Traps(x, y, e[k]),
         Translates(f, e, i, a, x), Translates(f, e, b, j, y)
  PROVE  Translates(f, e, i, j, apply_op(x, y, e[k]))
<1>0. /\ i \in 1..Len(e) /\ j \in 1..Len(e) /\ k \in 1..Len(e)
      /\ a \in 1..Len(e) /\ b \in 1..Len(e) /\ k = a + 1 /\ b = k + 1
      /\ e[k] \in {"+", "-", "*", "/"}
  BY DEF Joined
<1>1. e \in Seq(C) /\ Space \in C
  BY DEF Running
<1>101. /\ f[k].out = f[a].out \o Popped(f[a].stack, KeptBelow(f[a].stack, e[k]))
      /\ f[k].stack = Append(SubSeq(f[a].stack, 1, KeptBelow(f[a].stack, e[k])), e[k])
  <2>1. a \in 0..Len(e) /\ a = k - 1
    BY <1>0, <1>1
  <2>2. Replaces(f[a], f[k], e[k])
    BY <1>0, <2>1, OperatorAt
  <2> QED
    BY <2>2 DEF Replaces
<1>102. \A r \in Seq(C), c \in C : Pushed(Append(r, c), r, c)
  BY PushIs
<1>103. \A r1, r2, r3 \in Seq(C) : Regrouped(r1, r2, r3)
  BY Regroup
<1>2. SUFFICES ASSUME NEW V \in Seq(Int), Ready(f, e, i, j, V)
               PROVE  Compiled(f, e, i, j, V, apply_op(x, y, e[k]))
  BY DEF Translates
<1>3. PICK h \in 0..Len(e) : h = i - 1
  BY <1>0, <1>1
<1>4. a = k - 1 /\ k = b - 1 /\ a \in 0..Len(e) /\ k \in 0..Len(e) /\ j \in 0..Len(e)
  BY <1>0, <1>1
<1>5. PICK s \in Seq(C), t \in Seq(C), u \in Seq(C) : s = f[h].stack /\ t = f[a].stack /\ u = f[j].stack
  BY <1>1, <1>4, RunAt
<1>6. PICK p \in Seq(C), q \in Seq(C) : p = f[a].out /\ q = f[j].out
  BY <1>1, <1>4, RunAt
<1>7. PICK op \in C : op = e[k]
  BY <1>0, <1>1, ElementOfSeq
<1>8. PICK l0 \in {1, 2}, la \in {1, 2, 3}, lb \in {1, 2, 3} :
        /\ l0 = precedence(op) /\ l0 = Low(e, i, j) /\ la = Low(e, i, a) /\ lb = Low(e, b, j)
        /\ l0 <= la /\ l0 < lb
  BY <1>0, <1>7, Levels DEF Joined
<1>9. ~IsDigit(op) /\ op # Space /\ op # "("
  BY <1>0, <1>7, DigitsAre DEF Space
<1>10. PICK m \in Nat : m = Len(s)
  OBVIOUS
<1>11. s = <<>> \/ precedence(s[m]) < l0
  BY <1>2, <1>3, <1>5, <1>8, <1>10 DEF Ready
<1>12. Ready(f, e, i, a, V)
  <2>1. s = <<>> \/ precedence(s[m]) < la
    <3>1. PICK z \in {0, 1, 2} : z = precedence(s[m])
      BY Levels
    <3> QED
      BY <1>8, <1>11, <3>1
  <2>2. ~IsDigit(e[a + 1])
    BY <1>0, <1>7, <1>9
  <2>3. Apart(f[i - 1].out) /\ Evaluates(f[i - 1].out, V)
    BY <1>2 DEF Ready
  <2> QED
    BY <1>3, <1>5, <1>8, <1>10, <2>1, <2>2, <2>3 DEF Ready
<1>13. Compiled(f, e, i, a, V, x)
  BY <1>12 DEF Translates
<1>14. /\ Above(t, s, la) /\ EndsSpaced(p)
       /\ Evaluates(p \o Popped(t, m), Append(V, x))
  BY <1>3, <1>5, <1>6, <1>8, <1>10, <1>13 DEF Compiled
<1>15. KeptBelow(t, op) = m
  <2>1. la \in Nat /\ precedence(op) <= la
    BY <1>8
  <2>2. s = <<>> \/ precedence(s[Len(s)]) < precedence(op)
    BY <1>8, <1>10, <1>11
  <2>3. KeptBelow(t, op) = Len(s)
    BY <1>14, <2>1, <2>2, KeptExactly
  <2> QED
    BY <1>10, <2>3
<1>16. f[k].out = p \o Popped(t, m) /\ f[k].stack = Append(s, op)
  <2>2. m \in 0..Len(t) /\ \A z \in 1..m : t[z] = s[z]
    BY <1>10, <1>14 DEF Above
  <2>3. PICK r : r = SubSeq(t, 1, m)
    OBVIOUS
  <2>4. r \in Seq(C) /\ Len(r) = m /\ \A z \in 1..m : r[z] = t[z]
    BY <2>2, <2>3, PrefixIs
  <2>5. r = s
    BY <1>10, <2>2, <2>4, SeqEqual
  <2> QED
    BY <1>5, <1>6, <1>7, <1>15, <1>101, <2>3, <2>5
<1>17. m \in 0..Len(t)
  BY <1>10, <1>14 DEF Above
<1>18. EndsSpaced(f[k].out)
  BY <1>1, <1>14, <1>16, <1>17, PoppedSpaced
<1>19. PICK s2 \in Seq(C) : s2 = Append(s, op)
  BY AppendProperties
<1>20. Len(s2) = m + 1 /\ s2[m + 1] = op /\ s2 # <<>> /\ \A z \in 1..m : s2[z] = s[z]
  <2>1. Pushed(s2, s, op)
    BY <1>19, <1>102
  <2> QED
    BY <1>10, <2>1 DEF Pushed
<1>21. PICK W \in Seq(Int) : W = Append(V, x)
  BY AppendProperties
<1>22. Ready(f, e, b, j, W)
  <2>1. precedence(s2[Len(s2)]) < lb
    BY <1>8, <1>20
  <2>2. Apart(f[k].out)
    BY <1>18, SpacedApart
  <2>3. Evaluates(f[k].out, W)
    BY <1>14, <1>16, <1>21
  <2>4. j = Len(e) \/ ~IsDigit(e[j + 1])
    BY <1>2 DEF Ready
  <2> QED
    BY <1>4, <1>8, <1>16, <1>19, <2>1, <2>2, <2>3, <2>4 DEF Ready
<1>23. Compiled(f, e, b, j, W, y)
  BY <1>22 DEF Translates
<1>24. PICK m1 \in Nat : m1 = m + 1
  OBVIOUS
<1>25. /\ Above(u, s2, lb) /\ EndsSpaced(q)
       /\ Evaluates(q \o Popped(u, m1), Append(W, y))
  BY <1>4, <1>5, <1>6, <1>8, <1>16, <1>19, <1>20, <1>23, <1>24 DEF Compiled
<1>26. /\ m1 <= Len(u) /\ \A z \in 1..m1 : u[z] = s2[z]
       /\ \A z \in (m1 + 1)..Len(u) : u[z] \in {"+", "-", "*", "/"} /\ lb <= precedence(u[z])
  BY <1>20, <1>24, <1>25 DEF Above
<1>27. Above(u, s, l0)
  <2>1. Len(s) <= Len(u) /\ \A z \in 1..m : z \in 1..m1
    BY <1>10, <1>24, <1>26
  <2>2. \A z \in 1..m : u[z] = s[z]
    BY <1>20, <1>26, <2>1
  <2>3. ASSUME NEW z \in (m + 1)..Len(u)
        PROVE  u[z] \in {"+", "-", "*", "/"} /\ l0 <= precedence(u[z])
    <3>1. CASE z = m1
      <4>1. u[z] = op
        BY <1>20, <1>24, <1>26, <3>1
      <4>2. op \in {"+", "-", "*", "/"}
        BY <1>0, <1>7
      <4>3. precedence(u[z]) = l0
        <5>1. precedence(op) = l0
          BY <1>8
        <5> QED
          BY <4>1, <5>1
      <4> QED
        BY <4>1, <4>2, <4>3
    <3>2. CASE z # m1
      <4>1. z \in (m1 + 1)..Len(u)
        BY <1>24, <3>2
      <4>2. u[z] \in {"+", "-", "*", "/"} /\ lb <= precedence(u[z])
        BY <1>26, <4>1
      <4>3. PICK g \in {0, 1, 2} : g = precedence(u[z])
        BY Levels
      <4> QED
        BY <1>8, <4>2, <4>3
    <3> QED
      BY <3>1, <3>2
  <2> QED
    BY <1>10, <2>1, <2>2, <2>3 DEF Above
<1>28. PICK r \in Seq(C) : r = q \o Popped(u, m1)
  <2>1. m1 \in 0..Len(u)
    BY <1>26
  <2>2. q \o Popped(u, m1) \in Seq(C)
    BY <1>1, <1>25, <2>1, PoppedSpaced
  <2> QED
    BY <2>2
<1>29. q \o Popped(u, m) = Append(Append(r, op), Space)
  <2>1. m \in 0..Len(u) /\ m < Len(u) /\ m1 \in 0..Len(u) /\ m1 \in 1..m1
    BY <1>24, <1>26
  <2>2. Popped(u, m) = Popped(u, m1) \o Unit(u[m1]) /\ Popped(u, m1) \in Seq(C)
    BY <1>1, <1>24, <2>1, PoppedResult
  <2>3. u[m1] = op
    BY <1>20, <1>24, <1>26, <2>1
  <2>4. Unit(u[m1]) = <<op, Space>> /\ <<op, Space>> \in Seq(C)
    BY <1>1, <1>9, <2>3 DEF Unit
  <2>5. q \o Popped(u, m) = r \o <<op, Space>>
    <3>1. PICK z \in Seq(C), w \in Seq(C) : z = Popped(u, m1) /\ w = <<op, Space>>
      BY <2>2, <2>4
    <3>2. r = q \o z /\ Popped(u, m) = z \o w
      BY <1>28, <2>2, <2>4, <3>1
    <3>3. PICK y1 : y1 = Popped(u, m)
      OBVIOUS
    <3>4. Regrouped(q, z, w)
      BY <1>103
    <3>5. q \o y1 = r \o w
      BY <3>2, <3>3, <3>4 DEF Regrouped
    <3> QED
      BY <3>1, <3>3, <3>5
  <2> QED
    BY <1>1, <2>5, WithSpace
<1>30. PICK w : w = apply_op(x, y, op)
  OBVIOUS
<1>31. Evaluates(Append(r, op), Append(V, w))
  <2>1. Evaluates(r, Append(Append(V, x), y)) /\ ~Traps(x, y, op)
    BY <1>7, <1>21, <1>25, <1>28
  <2> QED
    BY <1>9, <1>30, <2>1, EvalApplies
<1>32. Evaluates(q \o Popped(u, m), Append(V, w))
  <2>1. PICK r2 \in Seq(C) : r2 = Append(r, op)
    BY AppendProperties
  <2>2. PICK X : X = Append(V, w)
    OBVIOUS
  <2>3. Evaluates(Append(r2, Space), X)
    BY <1>1, <1>31, <2>1, <2>2, EvalSpace
  <2> QED
    BY <1>29, <2>1, <2>2, <2>3
<1> QED
  BY <1>3, <1>5, <1>6, <1>7, <1>8, <1>10, <1>25, <1>27, <1>30, <1>32 DEF Compiled

-----------------------------------------------------------------------------
(* The calculator: what an expression means                                *)

\* Nothing, or an int.
Value == {<<>>} \cup {<<v>> : v \in (-IntLimit)..(IntLimit - 1)}

\* The largest of some positions.
LEMMA MaxIn ==
  ASSUME NEW n \in Nat, NEW S \in SUBSET (1..n), S # {}
  PROVE  Max(S) \in S /\ \A y \in S : y <= Max(S)
<1>1. PICK m : m = Max({0} \cup S)
  OBVIOUS
<1>2. m \in 0..n /\ (m = 0 \/ m \in S) /\ \A y \in S : y <= m
  BY <1>1, MaxPosition
<1>3. m \in S
  <2>1. PICK y \in S : TRUE
    OBVIOUS
  <2>2. y \in 1..n /\ y <= m
    BY <1>2
  <2> QED
    BY <1>2, <2>2
<1>4. S \in SUBSET Int
  OBVIOUS
<1>5. Max(S) = m
  BY <1>2, <1>3, <1>4, MaxIs
<1> QED
  BY <1>2, <1>3, <1>5

\* Division that rounds towards zero, by signs.
LEMMA Divides ==
  ASSUME NEW x \in Int, NEW y \in Int, y # 0
  PROVE  Sign(x) * Sign(y) * (Abs(x) \div Abs(y)) =
           IF (x >= 0) = (y > 0) THEN Abs(x) \div Abs(y) ELSE -(Abs(x) \div Abs(y))
<1>1. PICK q : q = Abs(x) \div Abs(y)
  OBVIOUS
<1>2. Abs(x) \in Nat /\ Abs(y) \in Nat /\ Abs(y) > 0
  BY DEF Abs
<1>3. q \in Int
  BY <1>1, <1>2
<1>4. Sign(x) = (IF x >= 0 THEN 1 ELSE -1) /\ Sign(y) = (IF y > 0 THEN 1 ELSE -1)
  BY DEF Sign
<1>5. CASE x >= 0 /\ y > 0
  <2>1. Sign(x) = 1 /\ Sign(y) = 1 /\ 1 * 1 = 1 /\ 1 * q = q
    BY <1>3, <1>4, <1>5
  <2> QED
    BY <1>1, <1>5, <2>1
<1>6. CASE x >= 0 /\ ~(y > 0)
  <2>1. Sign(x) = 1 /\ Sign(y) = -1 /\ 1 * (-1) = -1 /\ (-1) * q = -q
    BY <1>3, <1>4, <1>6
  <2> QED
    BY <1>1, <1>6, <2>1
<1>7. CASE ~(x >= 0) /\ y > 0
  <2>1. Sign(x) = -1 /\ Sign(y) = 1 /\ (-1) * 1 = -1 /\ (-1) * q = -q
    BY <1>3, <1>4, <1>7
  <2> QED
    BY <1>1, <1>7, <2>1
<1>8. CASE ~(x >= 0) /\ ~(y > 0)
  <2>1. Sign(x) = -1 /\ Sign(y) = -1 /\ (-1) * (-1) = 1 /\ 1 * q = q
    BY <1>3, <1>4, <1>8
  <2> QED
    BY <1>1, <1>8, <2>1
<1> QED
  BY <1>5, <1>6, <1>7, <1>8

\* The divisor of the divide error.
LEMMA AbsOfMinusOne == Abs(-1) = 1 /\ ~(-1 > 0)
<1>0. PICK z \in Int : z + 1 = 0
  <2>1. -1 \in Int /\ -1 + 1 = 0
    OBVIOUS
  <2> QED
    BY <2>1
<1>1. z = -1
  BY <1>0
<1>2. z < 0 /\ -z = 1
  BY <1>0
<1>3. Abs(z) = 1
  BY <1>2 DEF Abs
<1> QED
  BY <1>1, <1>2, <1>3

\* The exact result of an operator.
Exact(x, y, op) ==
  CASE op = "+" -> x + y
    [] op = "-" -> x - y
    [] op = "*" -> x * y
    [] op = "/" -> IF (x >= 0) = (y > 0) THEN Abs(x) \div Abs(y) ELSE -(Abs(x) \div Abs(y))

\* Where it is an int, the processor computes it.
LEMMA ApplyExact ==
  ASSUME NEW x \in (-IntLimit)..(IntLimit - 1), NEW y \in (-IntLimit)..(IntLimit - 1),
         NEW op \in {"+", "-", "*", "/"}, op = "/" => y # 0,
         Exact(x, y, op) \in (-IntLimit)..(IntLimit - 1)
  PROVE  ~Traps(x, y, op) /\ apply_op(x, y, op) = Exact(x, y, op)
<1>1. PICK l \in Nat \ {0} : l = IntLimit
  BY CalculatorSizes
<1>2. x \in Int /\ y \in Int
  BY <1>1
<1>3. CASE op = "+"
  <2>1. Exact(x, y, op) = x + y /\ apply_op(x, y, op) = Int32(x + y)
    BY <1>3 DEF Exact, apply_op
  <2> QED
    BY <1>3, <2>1, Int32Same DEF Traps
<1>4. CASE op = "-"
  <2>1. Exact(x, y, op) = x - y /\ apply_op(x, y, op) = Int32(x - y)
    BY <1>4 DEF Exact, apply_op
  <2> QED
    BY <1>4, <2>1, Int32Same DEF Traps
<1>5. CASE op = "*"
  <2>1. Exact(x, y, op) = x * y /\ apply_op(x, y, op) = Int32(x * y)
    BY <1>5 DEF Exact, apply_op
  <2> QED
    BY <1>5, <2>1, Int32Same DEF Traps
<1>6. CASE op = "/"
  <2>1. y # 0
    BY <1>6
  <2>2. apply_op(x, y, op) = Sign(x) * Sign(y) * (Abs(x) \div Abs(y))
    BY <1>6 DEF apply_op
  <2>3. Exact(x, y, op) =
          IF (x >= 0) = (y > 0) THEN Abs(x) \div Abs(y) ELSE -(Abs(x) \div Abs(y))
    BY <1>6 DEF Exact
  <2>4. apply_op(x, y, op) = Exact(x, y, op)
    BY <1>2, <2>1, <2>2, <2>3, Divides
  <2>5. ~(x = -IntLimit /\ y = -1)
    <3>1. SUFFICES ASSUME x = -IntLimit, y = -1
                   PROVE  FALSE
      OBVIOUS
    <3>2. Abs(x) = l /\ Abs(y) = 1 /\ ~(x >= 0) /\ ~(y > 0)
      <4>1. x = -l /\ -l < 0 /\ -(-l) = l
        BY <1>1, <3>1
      <4>2. Abs(-1) = 1 /\ ~(-1 > 0)
        BY AbsOfMinusOne
      <4>3. Abs(x) = l
        BY <4>1 DEF Abs
      <4>4. Abs(y) = 1 /\ ~(y > 0)
        BY <3>1, <4>2
      <4> QED
        BY <4>1, <4>2, <4>3, <4>4
    <3>3. l \div 1 = l
      BY <1>1
    <3>4. Exact(x, y, op) = l
      BY <2>3, <3>2, <3>3
    <3> QED
      BY <1>1, <3>4
  <2> QED
    BY <2>1, <2>4, <2>5 DEF Traps
<1> QED
  BY <1>3, <1>4, <1>5, <1>6

\* Combine gives a value, and where it gives one the program computes it.
LEMMA CombineIs ==
  ASSUME NEW a \in Value, NEW b \in Value, NEW op \in {"+", "-", "*", "/"}
  PROVE  /\ Combine(a, b, op) \in Value
         /\ Combine(a, b, op) # <<>> =>
              \E x, y \in (-IntLimit)..(IntLimit - 1) :
                /\ a = <<x>> /\ b = <<y>> /\ ~Traps(x, y, op)
                /\ Combine(a, b, op) = <<apply_op(x, y, op)>>
<1>1. CASE a = <<>> \/ b = <<>> \/ (op = "/" /\ b = <<0>>)
  BY <1>1 DEF Combine, Value
<1>2. CASE ~(a = <<>> \/ b = <<>> \/ (op = "/" /\ b = <<0>>))
  <2>1. PICK x \in (-IntLimit)..(IntLimit - 1), y \in (-IntLimit)..(IntLimit - 1) :
          a = <<x>> /\ b = <<y>>
    BY <1>2 DEF Value
  <2>2. a[1] = x /\ b[1] = y
    BY <2>1
  <2>3. Combine(a, b, op) =
          IF Exact(x, y, op) \in (-IntLimit)..(IntLimit - 1) THEN <<Exact(x, y, op)>> ELSE <<>>
    BY <1>2, <2>2 DEF Combine, Exact
  <2>4. op = "/" => y # 0
    BY <1>2, <2>1
  <2>5. CASE Exact(x, y, op) \in (-IntLimit)..(IntLimit - 1)
    <3>1. ~Traps(x, y, op) /\ apply_op(x, y, op) = Exact(x, y, op)
      BY <2>4, <2>5, ApplyExact
    <3>2. Combine(a, b, op) = <<Exact(x, y, op)>>
      BY <2>3, <2>5
    <3>3. Combine(a, b, op) \in Value
      BY <2>5, <3>2 DEF Value
    <3> QED
      BY <2>1, <3>1, <3>2, <3>3
  <2>6. CASE ~(Exact(x, y, op) \in (-IntLimit)..(IntLimit - 1))
    BY <2>3, <2>6 DEF Value
  <2> QED
    BY <2>5, <2>6
<1> QED
  BY <1>1, <1>2

\* The parts of an expression, and how large one is.
Parts(e) == (1..Len(e)) \X (0..Len(e))

\* Splits lie inside.
LEMMA SplitsInside ==
  ASSUME NEW C, NEW e \in Seq(C), NEW i \in 1..Len(e), NEW j \in 0..Len(e), NEW ops, NEW S,
         S = Splits(e, i, j, ops), S # {}
  PROVE  /\ S \in SUBSET (1..Len(e))
         /\ Max(S) \in (i + 1)..(j - 1) /\ e[Max(S)] \in ops /\ Depth(e, i, Max(S)) = 0
         /\ \A k \in S : k <= Max(S)
<1>1. PICK n \in Nat : n = Len(e)
  OBVIOUS
<1>2. \A k \in (i + 1)..(j - 1) : k \in 1..n
  BY <1>1
<1>3. \A k \in S : k \in (i + 1)..(j - 1) /\ e[k] \in ops /\ Depth(e, i, k) = 0
  BY DEF Splits
<1>4. S \in SUBSET (1..n)
  BY <1>2, <1>3
<1>5. PICK m : m = Max(S)
  OBVIOUS
<1>6. m \in S /\ \A k \in S : k <= m
  BY <1>4, <1>5, MaxIn
<1> QED
  BY <1>1, <1>3, <1>4, <1>5, <1>6

\* The operator of e[i..j] applied last, if it has one.
LastSplit(e, i, j) ==
  LET sums == Splits(e, i, j, {"+", "-"})
      products == Splits(e, i, j, {"*", "/"})
  IN  Max(IF sums # {} THEN sums ELSE products)

\* It lies inside.
LEMMA LastInside ==
  ASSUME NEW C, NEW e \in Seq(C), NEW i \in 1..Len(e), NEW j \in 0..Len(e),
         Splits(e, i, j, {"+", "-"}) \cup Splits(e, i, j, {"*", "/"}) # {}
  PROVE  /\ LastSplit(e, i, j) \in (i + 1)..(j - 1)
         /\ e[LastSplit(e, i, j)] \in {"+", "-", "*", "/"}
<1>1. PICK S, P : S = Splits(e, i, j, {"+", "-"}) /\ P = Splits(e, i, j, {"*", "/"})
  OBVIOUS
<1>2. CASE S # {}
  <2>1. LastSplit(e, i, j) = Max(S)
    BY <1>1, <1>2 DEF LastSplit
  <2>2. Max(S) \in (i + 1)..(j - 1) /\ e[Max(S)] \in {"+", "-"}
    BY <1>1, <1>2, SplitsInside
  <2> QED
    BY <2>1, <2>2
<1>3. CASE S = {}
  <2>1. LastSplit(e, i, j) = Max(P) /\ P # {}
    BY <1>1, <1>3 DEF LastSplit
  <2>2. Max(P) \in (i + 1)..(j - 1) /\ e[Max(P)] \in {"*", "/"}
    BY <1>1, <2>1, SplitsInside
  <2> QED
    BY <2>1, <2>2
<1> QED
  BY <1>2, <1>3

\* PartValue by cases.
LEMMA PartIs ==
  ASSUME NEW e, NEW g, NEW i, NEW j, NEW k, k = LastSplit(e, i, j)
  PROVE  PartValue(e, g, i, j) =
           IF i > j THEN <<>>
           ELSE IF \A q \in i..j : IsDigit(e[q])
             THEN IF NumberOf(SubSeq(e, i, j)) < IntLimit
                  THEN <<NumberOf(SubSeq(e, i, j))>> ELSE <<>>
           ELSE IF Splits(e, i, j, {"+", "-"}) \cup Splits(e, i, j, {"*", "/"}) # {}
             THEN Combine(g[<<i, k - 1>>], g[<<k + 1, j>>], e[k])
           ELSE IF e[i] = "(" /\ e[j] = ")" /\ i < j THEN g[<<i + 1, j - 1>>]
           ELSE <<>>
BY DEF PartValue, LastSplit

\* A part's value is a value.
LEMMA PartTyped ==
  ASSUME NEW C, NEW e \in Seq(C), NEW i \in 1..Len(e), NEW j \in 0..Len(e),
         NEW g \in [Parts(e) -> Value]
  PROVE  PartValue(e, g, i, j) \in Value
<1>1. PICK n \in Nat : n = Len(e)
  OBVIOUS
<1>2. PICK k : k = LastSplit(e, i, j)
  OBVIOUS
<1>3. <<>> \in Value
  BY DEF Value
<1>4. \A a \in 1..n, b \in 0..n : g[<<a, b>>] \in Value
  BY <1>1 DEF Parts
<1>5. CASE i > j
  BY <1>2, <1>3, <1>5, PartIs
<1>6. CASE i <= j /\ \A q \in i..j : IsDigit(e[q])
  <2>1. i \in 1..Len(e) /\ j \in i..Len(e) /\ j \in i..j
    BY <1>1, <1>6
  <2>2. NumberOf(SubSeq(e, i, j)) \in Nat
    BY <1>6, <2>1, NumberPart
  <2>3. PICK v \in Nat : v = NumberOf(SubSeq(e, i, j))
    BY <2>2
  <2>4. v < IntLimit => v \in (-IntLimit)..(IntLimit - 1)
    BY CalculatorSizes
  <2>5. ~(i > j)
    BY <1>1, <1>6
  <2>6. PartValue(e, g, i, j) = IF v < IntLimit THEN <<v>> ELSE <<>>
    BY <1>2, <1>6, <2>3, <2>5, PartIs
  <2> QED
    BY <1>3, <2>4, <2>6 DEF Value
<1>7. CASE /\ i <= j /\ ~(\A q \in i..j : IsDigit(e[q]))
           /\ Splits(e, i, j, {"+", "-"}) \cup Splits(e, i, j, {"*", "/"}) # {}
  <2>1. k \in (i + 1)..(j - 1) /\ e[k] \in {"+", "-", "*", "/"}
    BY <1>2, <1>7, LastInside
  <2>2. k - 1 \in 0..n /\ k + 1 \in 1..n /\ i \in 1..n /\ j \in 0..n
    BY <1>1, <2>1
  <2>3. PICK a \in Value, b \in Value : a = g[<<i, k - 1>>] /\ b = g[<<k + 1, j>>]
    BY <1>4, <2>2
  <2>4. ~(i > j)
    BY <1>1, <1>7
  <2>5. PartValue(e, g, i, j) = Combine(a, b, e[k])
    BY <1>2, <1>7, <2>3, <2>4, PartIs
  <2> QED
    BY <2>1, <2>5, CombineIs
<1>8. CASE /\ i <= j /\ ~(\A q \in i..j : IsDigit(e[q]))
           /\ ~(Splits(e, i, j, {"+", "-"}) \cup Splits(e, i, j, {"*", "/"}) # {})
  <2>1. ~(i > j)
    BY <1>1, <1>8
  <2>2. PartValue(e, g, i, j) =
          IF e[i] = "(" /\ e[j] = ")" /\ i < j THEN g[<<i + 1, j - 1>>] ELSE <<>>
    BY <1>2, <1>8, <2>1, PartIs
  <2>3. i < j => i + 1 \in 1..n /\ j - 1 \in 0..n
    BY <1>1
  <2> QED
    BY <1>3, <1>4, <2>2, <2>3
<1> QED
  BY <1>1, <1>5, <1>6, <1>7, <1>8

\* It depends on the values of smaller parts only.
LEMMA PartDepends ==
  ASSUME NEW C, NEW e \in Seq(C), NEW i \in 1..Len(e), NEW j \in 0..Len(e), NEW g, NEW h,
         \A a \in 1..Len(e), b \in 0..Len(e) : b - a < j - i => g[<<a, b>>] = h[<<a, b>>]
  PROVE  PartValue(e, g, i, j) = PartValue(e, h, i, j)
<1>1. PICK n \in Nat : n = Len(e)
  OBVIOUS
<1>2. PICK k : k = LastSplit(e, i, j)
  OBVIOUS
<1>3. \A a \in 1..n, b \in 0..n : b - a < j - i => g[<<a, b>>] = h[<<a, b>>]
  BY <1>1
<1>5. CASE i > j \/ \A q \in i..j : IsDigit(e[q])
  <2>1. CASE i > j
    <3>1. PartValue(e, g, i, j) = <<>> /\ PartValue(e, h, i, j) = <<>>
      BY <2>1 DEF PartValue
    <3> QED
      BY <3>1
  <2>2. CASE ~(i > j)
    <3>1. PICK x : x = IF NumberOf(SubSeq(e, i, j)) < IntLimit
                       THEN <<NumberOf(SubSeq(e, i, j))>> ELSE <<>>
      OBVIOUS
    <3>2. PartValue(e, g, i, j) = x
      BY <1>5, <2>2, <3>1 DEF PartValue
    <3>3. PartValue(e, h, i, j) = x
      BY <1>5, <2>2, <3>1 DEF PartValue
    <3> QED
      BY <3>2, <3>3
  <2> QED
    BY <2>1, <2>2
<1>7. CASE /\ ~(i > j) /\ ~(\A q \in i..j : IsDigit(e[q]))
           /\ Splits(e, i, j, {"+", "-"}) \cup Splits(e, i, j, {"*", "/"}) # {}
  <2>1. k \in (i + 1)..(j - 1)
    BY <1>2, <1>7, LastInside
  <2>2. /\ k - 1 \in 0..n /\ k + 1 \in 1..n /\ i \in 1..n /\ j \in 0..n
        /\ (k - 1) - i < j - i /\ j - (k + 1) < j - i
    BY <1>1, <2>1
  <2>3. g[<<i, k - 1>>] = h[<<i, k - 1>>] /\ g[<<k + 1, j>>] = h[<<k + 1, j>>]
    BY <1>3, <2>2
  <2>4. PartValue(e, g, i, j) = Combine(g[<<i, k - 1>>], g[<<k + 1, j>>], e[k])
    BY <1>2, <1>7, PartIs
  <2>5. PartValue(e, h, i, j) = Combine(h[<<i, k - 1>>], h[<<k + 1, j>>], e[k])
    BY <1>2, <1>7, PartIs
  <2> QED
    BY <2>3, <2>4, <2>5
<1>8. CASE /\ ~(i > j) /\ ~(\A q \in i..j : IsDigit(e[q]))
           /\ ~(Splits(e, i, j, {"+", "-"}) \cup Splits(e, i, j, {"*", "/"}) # {})
  <2>1. PartValue(e, g, i, j) =
          IF e[i] = "(" /\ e[j] = ")" /\ i < j THEN g[<<i + 1, j - 1>>] ELSE <<>>
    BY <1>2, <1>8, PartIs
  <2>2. PartValue(e, h, i, j) =
          IF e[i] = "(" /\ e[j] = ")" /\ i < j THEN h[<<i + 1, j - 1>>] ELSE <<>>
    BY <1>2, <1>8, PartIs
  <2>3. i < j => i + 1 \in 1..n /\ j - 1 \in 0..n /\ (j - 1) - (i + 1) < j - i
    BY <1>1
  <2>4. i < j => g[<<i + 1, j - 1>>] = h[<<i + 1, j - 1>>]
    BY <1>3, <2>3
  <2> QED
    BY <2>1, <2>2, <2>4
<1> QED
  BY <1>5, <1>7, <1>8

\* g gives every part of e its value.
Valued(g, e) == \A i \in 1..Len(e), j \in 0..Len(e) : g[<<i, j>>] = PartValue(e, g, i, j)

\* There is one such function,
LEMMA ValuesExist ==
  ASSUME NEW C, NEW e \in Seq(C)
  PROVE  \E g \in [Parts(e) -> Value] : Valued(g, e)
<1>1. PICK n \in Nat : n = Len(e)
  OBVIOUS
<1>2. PICK m1 \in Nat : m1 = n + 1
  OBVIOUS
<1>3. PICK D, S : D = Parts(e) /\ S = [D -> Value]
  OBVIOUS
<1>4. \A p \in D : p[1] \in 1..n /\ p[2] \in 0..n /\ p = <<p[1], p[2]>>
  BY <1>1, <1>3 DEF Parts
<1>5. \A i \in 1..n, j \in 0..n : <<i, j>> \in D /\ <<i, j>>[1] = i /\ <<i, j>>[2] = j
  BY <1>1, <1>3 DEF Parts
<1>6. PICK base \in S : \A p \in D : base[p] = <<>>
  <2>1. [p \in D |-> <<>>] \in S
    BY <1>3 DEF Value
  <2> QED
    BY <2>1
<1>7. ASSUME NEW g \in S
      PROVE  [p \in D |-> PartValue(e, g, p[1], p[2])] \in S
  <2>1. ASSUME NEW p \in D
        PROVE  PartValue(e, g, p[1], p[2]) \in Value
    <3>1. p[1] \in 1..Len(e) /\ p[2] \in 0..Len(e)
      BY <1>1, <1>4
    <3>2. g \in [Parts(e) -> Value]
      BY <1>3
    <3> QED
      BY <3>1, <3>2, PartTyped
  <2> QED
    BY <1>3, <2>1
<1>8. PICK step : /\ step \in [S \X (1..m1) -> S]
                  /\ \A g \in S, m \in 1..m1 :
                       step[<<g, m>>] = [p \in D |-> PartValue(e, g, p[1], p[2])]
  <2> DEFINE st == [q \in S \X (1..m1) |-> [p \in D |-> PartValue(e, q[1], p[1], p[2])]]
  <2>1. \A q \in S \X (1..m1) : q[1] \in S
    OBVIOUS
  <2>2. st \in [S \X (1..m1) -> S]
    BY <1>7, <2>1
  <2>3. \A g \in S, m \in 1..m1 :
          st[<<g, m>>] = [p \in D |-> PartValue(e, g, p[1], p[2])]
    OBVIOUS
  <2> HIDE DEF st
  <2> QED
    BY <2>2, <2>3
<1>9. PICK h \in [0..m1 -> S] : IsLoop(h, m1, base, step)
  BY <1>2, <1>6, <1>8, RecursionExists
<1>10. h[0] = base
  BY <1>9 DEF IsLoop
<1>11. ASSUME NEW k \in 0..n, NEW k1 \in 1..m1, k1 = k + 1, NEW i \in 1..n, NEW j \in 0..n
       PROVE  h[k1][<<i, j>>] = PartValue(e, h[k], i, j) /\ h[k] \in S
  <2>1. k = k1 - 1 /\ k \in 0..m1
    BY <1>2, <1>11
  <2>2. h[k] \in S
    BY <2>1
  <2>3. h[k1] = step[<<h[k1 - 1], k1>>]
    BY <1>9 DEF IsLoop
  <2>4. h[k1] = step[<<h[k], k1>>]
    BY <2>1, <2>3
  <2>5. h[k1] = [p \in D |-> PartValue(e, h[k], p[1], p[2])]
    BY <1>8, <2>2, <2>4
  <2>6. <<i, j>> \in D /\ <<i, j>>[1] = i /\ <<i, j>>[2] = j
    BY <1>5
  <2> QED
    BY <2>2, <2>5, <2>6
<1> DEFINE Fixed(k) == \A i \in 1..n, j \in 0..n : j - i < k => h[k + 1][<<i, j>>] = h[k][<<i, j>>]
           T == {k \in 0..n : Fixed(k)}
<1>12. 0 \in T
  <2>1. ASSUME NEW i \in 1..n, NEW j \in 0..n, j - i < 0
        PROVE  h[0 + 1][<<i, j>>] = h[0][<<i, j>>]
    <3>1. 1 \in 1..m1 /\ 0 \in 0..n /\ 0 + 1 = 1 /\ i > j
      BY <1>2, <2>1
    <3>2. h[1][<<i, j>>] = PartValue(e, h[0], i, j)
      BY <1>11, <3>1
    <3>3. PartValue(e, h[0], i, j) = <<>>
      BY <3>1 DEF PartValue
    <3>4. <<i, j>> \in D
      BY <1>5
    <3> QED
      BY <1>6, <1>10, <3>1, <3>2, <3>3, <3>4
  <2> QED
    BY <2>1
<1>13. ASSUME NEW k \in 0..n, k \in T, k < n
       PROVE  k + 1 \in T
  <2>1. PICK k1 \in 0..n, k2 \in 1..m1 : k1 = k + 1 /\ k2 = k1 + 1 /\ k1 \in 1..m1
    BY <1>2, <1>13
  <2>2. ASSUME NEW i \in 1..n, NEW j \in 0..n, j - i < k1
        PROVE  h[k2][<<i, j>>] = h[k1][<<i, j>>]
    <3>1. h[k2][<<i, j>>] = PartValue(e, h[k1], i, j)
      BY <1>11, <2>1
    <3>2. h[k1][<<i, j>>] = PartValue(e, h[k], i, j)
      BY <1>11, <2>1
    <3>3. ASSUME NEW a \in 1..Len(e), NEW b \in 0..Len(e), b - a < j - i
          PROVE  h[k1][<<a, b>>] = h[k][<<a, b>>]
      <4>1. a \in 1..n /\ b \in 0..n /\ b - a < k
        BY <1>1, <2>1, <2>2, <3>3
      <4> QED
        BY <1>13, <2>1, <4>1
    <3>4. i \in 1..Len(e) /\ j \in 0..Len(e)
      BY <1>1
    <3>5. PICK x, y : x = h[k1] /\ y = h[k]
      OBVIOUS
    <3>6. PartValue(e, x, i, j) = PartValue(e, y, i, j)
      BY <3>3, <3>4, <3>5, PartDepends
    <3> QED
      BY <3>1, <3>2, <3>5, <3>6
  <2> QED
    BY <2>1, <2>2
<1>14. Fixed(n)
  <2>1. \A k \in 0..n : k \in T
    <3> HIDE DEF T
    <3> QED
      BY <1>12, <1>13, UpTo
  <2> QED
    BY <2>1
<1>15. PICK g \in S : g = h[n]
  BY <1>2
<1>16. ASSUME NEW i \in 1..n, NEW j \in 0..n
       PROVE  g[<<i, j>>] = PartValue(e, g, i, j)
  <2>1. m1 = n + 1 /\ m1 \in 1..m1 /\ n \in 0..n /\ j - i < n
    BY <1>2
  <2>2. h[m1][<<i, j>>] = h[n][<<i, j>>]
    BY <1>14, <2>1
  <2>3. h[m1][<<i, j>>] = PartValue(e, h[n], i, j)
    BY <1>11, <2>1
  <2> QED
    BY <1>15, <2>2, <2>3
<1> QED
  BY <1>1, <1>3, <1>15, <1>16 DEF Valued

Agree(g, h, e) == \A i \in 1..Len(e), j \in 0..Len(e) : g[<<i, j>>] = h[<<i, j>>]

\* and any other agrees with it.
LEMMA ValuesUnique ==
  ASSUME NEW C, NEW e \in Seq(C), NEW g, NEW h, Valued(g, e), Valued(h, e)
  PROVE  Agree(g, h, e)
<1>1. PICK n \in Nat : n = Len(e)
  OBVIOUS
<1>2. \A i \in 1..n, j \in 0..n : /\ g[<<i, j>>] = PartValue(e, g, i, j)
                                  /\ h[<<i, j>>] = PartValue(e, h, i, j)
  BY <1>1 DEF Valued
<1> DEFINE Same(k) == \A i \in 1..n, j \in 0..n : j - i < k => g[<<i, j>>] = h[<<i, j>>]
           T == {k \in 0..n : Same(k)}
<1>3. 0 \in T
  <2>1. ASSUME NEW i \in 1..n, NEW j \in 0..n, j - i < 0
        PROVE  g[<<i, j>>] = h[<<i, j>>]
    <3>1. i > j
      BY <2>1
    <3>2. PartValue(e, g, i, j) = <<>> /\ PartValue(e, h, i, j) = <<>>
      BY <3>1 DEF PartValue
    <3> QED
      BY <1>2, <3>2
  <2> QED
    BY <2>1
<1>4. ASSUME NEW k \in 0..n, k \in T, k < n
      PROVE  k + 1 \in T
  <2>1. ASSUME NEW i \in 1..n, NEW j \in 0..n, j - i < k + 1
        PROVE  g[<<i, j>>] = h[<<i, j>>]
    <3>1. ASSUME NEW a \in 1..Len(e), NEW b \in 0..Len(e), b - a < j - i
          PROVE  g[<<a, b>>] = h[<<a, b>>]
      <4>1. a \in 1..n /\ b \in 0..n /\ b - a < k
        BY <1>1, <2>1, <3>1
      <4> QED
        BY <1>4, <4>1
    <3>2. i \in 1..Len(e) /\ j \in 0..Len(e)
      BY <1>1
    <3>3. PartValue(e, g, i, j) = PartValue(e, h, i, j)
      BY <3>1, <3>2, PartDepends
    <3> QED
      BY <1>2, <3>3
  <2>2. k + 1 \in 0..n
    BY <1>4
  <2> QED
    BY <2>1, <2>2
<1>5. Same(n)
  <2>1. \A k \in 0..n : k \in T
    <3> HIDE DEF T
    <3> QED
      BY <1>3, <1>4, UpTo
  <2> QED
    BY <2>1
<1>6. ASSUME NEW i \in 1..n, NEW j \in 0..n
      PROVE  g[<<i, j>>] = h[<<i, j>>]
  <2>1. j - i < n
    OBVIOUS
  <2> QED
    BY <1>5, <2>1
<1> QED
  BY <1>1, <1>6 DEF Agree

\* So Meaning is the value of the whole.
LEMMA MeaningIs ==
  ASSUME NEW C, NEW e \in Seq(C), e # <<>>, NEW g \in [Parts(e) -> Value], Valued(g, e)
  PROVE  Meaning(e) = g[<<1, Len(e)>>]
<1> DEFINE Rec(v) == [p \in (1..Len(e)) \X (0..Len(e)) |-> PartValue(e, v, p[1], p[2])]
           value == CHOOSE v : v = Rec(v)
<1>1. Meaning(e) = value[<<1, Len(e)>>]
  BY DEF Meaning
<1>2. PICK n \in Nat : n = Len(e) /\ n > 0
  BY EmptySeq
<1>3. \A i \in 1..n, j \in 0..n : <<i, j>> \in (1..n) \X (0..n) /\ <<i, j>>[1] = i /\ <<i, j>>[2] = j
  OBVIOUS
<1>4. g = Rec(g)
  <2>1. \A p \in (1..n) \X (0..n) : p[1] \in 1..n /\ p[2] \in 0..n /\ p = <<p[1], p[2]>>
    OBVIOUS
  <2>2. \A p \in (1..n) \X (0..n) : g[p] = PartValue(e, g, p[1], p[2])
    BY <1>2, <2>1 DEF Valued
  <2> QED
    BY <1>2, <2>2 DEF Parts
<1>5. value = Rec(value)
  <2> HIDE DEF Rec
  <2> QED
    BY <1>4
<1> HIDE DEF value
<1>6. Valued(value, e)
  <2>1. ASSUME NEW i \in 1..n, NEW j \in 0..n
        PROVE  value[<<i, j>>] = PartValue(e, value, i, j)
    <3>1. Rec(value)[<<i, j>>] = PartValue(e, value, i, j)
      BY <1>2, <1>3
    <3> HIDE DEF Rec
    <3> QED
      BY <1>5, <3>1
  <2> QED
    BY <1>2, <2>1 DEF Valued
<1>7. 1 \in 1..Len(e) /\ Len(e) \in 0..Len(e)
  BY <1>2
<1>8. value[<<1, Len(e)>>] = g[<<1, Len(e)>>]
  <2>1. Agree(value, g, e)
    BY <1>6, ValuesUnique
  <2> QED
    BY <1>7, <2>1 DEF Agree
<1> QED
  BY <1>1, <1>8

-----------------------------------------------------------------------------
(* The calculator: every part is translated                                *)

\* How often a character stands in a part of a text.
Count(e, c, i, j) == Cardinality({q \in i..j : e[q] = c})

\* A part is counted piece by piece.
LEMMA CountSplits ==
  ASSUME NEW e, NEW c, NEW i \in Int, NEW k \in Int, NEW j \in Int, i <= k, k <= j
  PROVE  /\ Count(e, c, i, j) \in Nat /\ Count(e, c, i, k - 1) \in Nat
         /\ Count(e, c, k + 1, j) \in Nat
         /\ e[k] # c => Count(e, c, i, j) = Count(e, c, i, k - 1) + Count(e, c, k + 1, j)
<1>1. PICK A, B, D : /\ A = {q \in i..(k - 1) : e[q] = c} /\ B = {q \in (k + 1)..j : e[q] = c}
                     /\ D = {q \in i..j : e[q] = c}
  OBVIOUS
<1>2. IsFiniteSet(i..(k - 1)) /\ IsFiniteSet((k + 1)..j) /\ IsFiniteSet(i..j)
  <2>1. k - 1 \in Int /\ k + 1 \in Int
    OBVIOUS
  <2> QED
    BY <2>1, FS_Interval
<1>3. IsFiniteSet(A) /\ IsFiniteSet(B) /\ IsFiniteSet(D)
  <2>1. A \in SUBSET (i..(k - 1)) /\ B \in SUBSET ((k + 1)..j) /\ D \in SUBSET (i..j)
    BY <1>1
  <2> QED
    BY <1>2, <2>1, FS_Subset
<1>4. Cardinality(A) \in Nat /\ Cardinality(B) \in Nat /\ Cardinality(D) \in Nat
  BY <1>3, FS_CardinalityType
<1>5. ASSUME e[k] # c
      PROVE  Cardinality(D) = Cardinality(A) + Cardinality(B)
  <2>1. D = A \cup B
    <3>1. \A q \in D : q \in A \/ q \in B
      <4>1. ASSUME NEW q \in D
            PROVE  q \in A \/ q \in B
        <5>1. q \in i..j /\ e[q] = c /\ q # k
          BY <1>1, <1>5, <4>1
        <5>2. q \in i..(k - 1) \/ q \in (k + 1)..j
          BY <5>1
        <5> QED
          BY <1>1, <5>1, <5>2
      <4> QED
        BY <4>1
    <3>2. \A q : q \in A \/ q \in B => q \in D
      BY <1>1
    <3> QED
      BY <3>1, <3>2
  <2>2. A \cap B = {}
    BY <1>1
  <2>3. Cardinality(A \cup B) = Cardinality(A) + Cardinality(B) - Cardinality(A \cap B)
    BY <1>3, FS_Union
  <2>4. Cardinality(A \cap B) = 0
    BY <2>2, FS_EmptySet
  <2> QED
    BY <1>4, <2>1, <2>3, <2>4
<1>6. /\ Count(e, c, i, k - 1) = Cardinality(A) /\ Count(e, c, k + 1, j) = Cardinality(B)
      /\ Count(e, c, i, j) = Cardinality(D)
  BY <1>1 DEF Count
<1> QED
  BY <1>4, <1>5, <1>6

\* Behind a character that is no parenthesis the depth goes on.
LEMMA DepthGoesOn ==
  ASSUME NEW e, NEW i \in Int, NEW k \in Int, NEW m \in Int, i <= k, k < m,
         e[k] \notin {"(", ")"}, Depth(e, i, k) = 0, Depth(e, k + 1, m) = 0
  PROVE  Depth(e, i, m) = 0
<1>1. PICK j \in Int : j = m - 1
  OBVIOUS
<1>2. /\ Count(e, "(", i, j) \in Nat /\ Count(e, "(", i, k - 1) \in Nat
      /\ Count(e, "(", k + 1, j) \in Nat
      /\ Count(e, "(", i, j) = Count(e, "(", i, k - 1) + Count(e, "(", k + 1, j)
  BY <1>1, CountSplits
<1>3. /\ Count(e, ")", i, j) \in Nat /\ Count(e, ")", i, k - 1) \in Nat
      /\ Count(e, ")", k + 1, j) \in Nat
      /\ Count(e, ")", i, j) = Count(e, ")", i, k - 1) + Count(e, ")", k + 1, j)
  BY <1>1, CountSplits
<1>4. Depth(e, i, k) = Count(e, "(", i, k - 1) - Count(e, ")", i, k - 1)
  BY DEF Depth, Count
<1>5. Depth(e, k + 1, m) = Count(e, "(", k + 1, j) - Count(e, ")", k + 1, j)
  BY <1>1 DEF Depth, Count
<1>6. Depth(e, i, m) = Count(e, "(", i, j) - Count(e, ")", i, j)
  BY <1>1 DEF Depth, Count
<1> QED
  BY <1>2, <1>3, <1>4, <1>5, <1>6

\* What splits the part behind a split, splits the whole further behind.
LEMMA SplitBehind ==
  ASSUME NEW e, NEW i \in Int, NEW j \in Int, NEW k \in (i + 1)..(j - 1), NEW b \in Int, k < b, b <= k + 1,
         e[k] \in {"+", "-", "*", "/"}, Depth(e, i, k) = 0, NEW ops,
         NEW m \in Splits(e, b, j, ops)
  PROVE  m \in Splits(e, i, j, ops) /\ m \in Int /\ k < m
<1>1. m \in (b + 1)..(j - 1) /\ e[m] \in ops /\ Depth(e, b, m) = 0
  BY DEF Splits
<1>2. b = k + 1 /\ m \in Int /\ k < m /\ m \in (i + 1)..(j - 1) /\ i <= k /\ k \in Int
  BY <1>1
<1>3. e[k] \notin {"(", ")"}
  OBVIOUS
<1>4. Depth(e, i, m) = 0
  BY <1>1, <1>2, <1>3, DepthGoesOn
<1> QED
  BY <1>1, <1>2, <1>4 DEF Splits

\* What splits the part before a split, splits the whole.
LEMMA SplitBefore ==
  ASSUME NEW e, NEW i \in Int, NEW j \in Int, NEW a \in Int, a < j, NEW ops,
         NEW m \in Splits(e, i, a, ops)
  PROVE  m \in Splits(e, i, j, ops)
BY DEF Splits

\* The operator applied last binds less than those behind it and no more than
\* those before it.
LEMMA JoinedIs ==
  ASSUME NEW C, NEW e \in Seq(C), NEW i \in 1..Len(e), NEW j \in 1..Len(e),
         Splits(e, i, j, {"+", "-"}) \cup Splits(e, i, j, {"*", "/"}) # {},
         NEW k, NEW a, NEW b, k = LastSplit(e, i, j), a = k - 1, b = k + 1
  PROVE  Joined(e, i, j, k, a, b)
<1>1. PICK n \in Nat : n = Len(e)
  OBVIOUS
<1>2. PICK S, P : S = Splits(e, i, j, {"+", "-"}) /\ P = Splits(e, i, j, {"*", "/"})
  OBVIOUS
<1>3. PICK l \in {1, 2} : l = IF S # {} THEN 1 ELSE 2
  OBVIOUS
<1>4. /\ k \in (i + 1)..(j - 1) /\ e[k] \in {"+", "-", "*", "/"} /\ Depth(e, i, k) = 0
      /\ precedence(e[k]) = l /\ Low(e, i, j) = l
      /\ \A m \in S : m <= k
      /\ S = {} => \A m \in P : m <= k
  <2>1. CASE S # {}
    <3>1. k = Max(S)
      BY <1>2, <2>1 DEF LastSplit
    <3>2. /\ Max(S) \in (i + 1)..(j - 1) /\ e[Max(S)] \in {"+", "-"} /\ Depth(e, i, Max(S)) = 0
          /\ \A m \in S : m <= Max(S)
      BY <1>1, <1>2, <2>1, SplitsInside
    <3>3. precedence(e[k]) = 1
      BY <3>1, <3>2, Levels
    <3>4. Low(e, i, j) = 1
      BY <1>2, <2>1 DEF Low
    <3> QED
      BY <1>3, <2>1, <3>1, <3>2, <3>3, <3>4
  <2>2. CASE S = {}
    <3>1. k = Max(P) /\ P # {}
      BY <1>2, <2>2 DEF LastSplit
    <3>2. /\ Max(P) \in (i + 1)..(j - 1) /\ e[Max(P)] \in {"*", "/"} /\ Depth(e, i, Max(P)) = 0
          /\ \A m \in P : m <= Max(P)
      BY <1>1, <1>2, <3>1, SplitsInside
    <3>3. precedence(e[k]) = 2
      BY <3>1, <3>2, Levels
    <3>4. Low(e, i, j) = 2
      BY <1>2, <2>2, <3>1 DEF Low
    <3> QED
      BY <1>3, <2>2, <3>1, <3>2, <3>3, <3>4
  <2> QED
    BY <2>1, <2>2
<1>5. /\ i \in Int /\ j \in Int /\ k \in Int /\ a \in 1..n /\ b \in 1..n /\ k \in 1..n
      /\ k = a + 1 /\ i <= a /\ b <= j /\ a < j
  BY <1>1, <1>4
<1>6. l <= Low(e, i, a)
  <2>1. CASE Splits(e, i, a, {"+", "-"}) # {}
    <3>1. PICK m \in Splits(e, i, a, {"+", "-"}) : TRUE
      BY <2>1
    <3>2. m \in S
      BY <1>2, <1>5, SplitBefore
    <3>3. l = 1
      BY <1>3, <3>2
    <3> QED
      BY <3>3, Levels
  <2>2. CASE Splits(e, i, a, {"+", "-"}) = {}
    <3>1. Low(e, i, a) \in {2, 3}
      BY <2>2 DEF Low
    <3> QED
      BY <1>3, <3>1
  <2> QED
    BY <2>1, <2>2
<1>67. ASSUME NEW ops, NEW m \in Splits(e, b, j, ops)
      PROVE  m \in Splits(e, i, j, ops) /\ m \in Int /\ k < m
  <2>1. i \in Int /\ j \in Int /\ k \in (i + 1)..(j - 1) /\ b \in Int /\ k < b /\ b <= k + 1
    BY <1>4, <1>5
  <2>2. e[k] \in {"+", "-", "*", "/"} /\ Depth(e, i, k) = 0
    BY <1>4
  <2> QED
    BY <1>67, <2>1, <2>2, SplitBehind
<1>7. Splits(e, b, j, {"+", "-"}) = {}
  <2>1. SUFFICES ASSUME NEW m \in Splits(e, b, j, {"+", "-"})
                 PROVE  FALSE
    OBVIOUS
  <2>2. m \in S /\ m \in Int /\ k < m
    BY <1>2, <1>67
  <2> QED
    BY <1>4, <1>5, <2>2
<1>8. l = 2 => Splits(e, b, j, {"*", "/"}) = {}
  <2>1. SUFFICES ASSUME l = 2, NEW m \in Splits(e, b, j, {"*", "/"})
                 PROVE  FALSE
    OBVIOUS
  <2>2. m \in P /\ m \in Int /\ k < m
    BY <1>2, <1>67
  <2>3. S = {}
    BY <1>3, <2>1
  <2> QED
    BY <1>4, <1>5, <2>2, <2>3
<1>9. l < Low(e, b, j)
  <2>1. Low(e, b, j) = IF Splits(e, b, j, {"*", "/"}) # {} THEN 2 ELSE 3
    BY <1>7 DEF Low
  <2> QED
    BY <1>3, <1>8, <2>1
<1> QED
  BY <1>1, <1>4, <1>5, <1>6, <1>9 DEF Joined

\* A value is not nothing, and is one value.
LEMMA OneValue ==
  /\ \A v : <<v>> # <<>>
  /\ \A u, v : <<u>> = <<v>> => u = v
<1>1. ASSUME NEW v
      PROVE  <<v>> # <<>>
  <2>1. Len(<<v>>) = 1 /\ Len(<<>>) = 0
    OBVIOUS
  <2> QED
    BY <2>1
<1>2. ASSUME NEW u, NEW v, <<u>> = <<v>>
      PROVE  u = v
  <2>1. <<u>>[1] = u /\ <<v>>[1] = v
    OBVIOUS
  <2> QED
    BY <1>2, <2>1
<1> QED
  BY <1>1, <1>2

\* Every part with a value is translated if the smaller ones are.
LEMMA PartTranslates ==
  ASSUME NEW C, NEW e, NEW f, Running(f, e, C), NEW g \in [Parts(e) -> Value], Valued(g, e),
         NEW i \in 1..Len(e), NEW j \in 0..Len(e), NEW v, g[<<i, j>>] = <<v>>,
         \A a \in 1..Len(e), b \in 0..Len(e) : \A x :
           b - a < j - i /\ g[<<a, b>>] = <<x>> => Translates(f, e, a, b, x)
  PROVE  Translates(f, e, i, j, v)
<1>1. PICK n \in Nat : n = Len(e) /\ e \in Seq(C)
  BY DEF Running
<1>2. \A a \in 1..n, b \in 0..n : g[<<a, b>>] \in Value
  BY <1>1 DEF Parts
<1>3. PICK k : k = LastSplit(e, i, j)
  OBVIOUS
<1>4. PartValue(e, g, i, j) = <<v>>
  BY DEF Valued
<1>5. \A a \in 1..n, b \in 0..n : \A x :
        b - a < j - i /\ g[<<a, b>>] = <<x>> => Translates(f, e, a, b, x)
  BY <1>1
<1>6. ~(i > j) /\ j \in 1..n /\ j \in i..n /\ i \in 1..n
  <2>1. ~(i > j)
    BY <1>3, <1>4, PartIs, OneValue
  <2> QED
    BY <1>1, <2>1
<1>7. CASE \A q \in i..j : IsDigit(e[q])
  <2>1. PICK m : m = NumberOf(SubSeq(e, i, j))
    OBVIOUS
  <2>2. PartValue(e, g, i, j) = IF m < IntLimit THEN <<m>> ELSE <<>>
    BY <1>3, <1>6, <1>7, <2>1, PartIs
  <2>3. m < IntLimit /\ v = m
    BY <1>4, <2>2, OneValue
  <2>4. j \in i..Len(e)
    BY <1>1, <1>6
  <2>5. Translates(f, e, i, j, m)
    BY <1>7, <2>1, <2>3, <2>4, NumberCase
  <2> QED
    BY <2>3, <2>5
<1>8. CASE /\ ~(\A q \in i..j : IsDigit(e[q]))
           /\ Splits(e, i, j, {"+", "-"}) \cup Splits(e, i, j, {"*", "/"}) # {}
  <2>1. PICK a, b : a = k - 1 /\ b = k + 1
    OBVIOUS
  <2>2. j \in 1..Len(e)
    BY <1>1, <1>6
  <2>3. Joined(e, i, j, k, a, b)
    BY <1>1, <1>3, <1>8, <2>1, <2>2, JoinedIs
  <2>4. /\ a \in 0..n /\ b \in 1..n /\ j \in 0..n /\ a - i < j - i /\ j - b < j - i
        /\ e[k] \in {"+", "-", "*", "/"}
    BY <1>1, <1>6, <2>3 DEF Joined
  <2>5. PICK l \in Value, r \in Value : l = g[<<i, a>>] /\ r = g[<<b, j>>]
    BY <1>2, <1>6, <2>4
  <2>6. PartValue(e, g, i, j) = Combine(l, r, e[k])
    BY <1>3, <1>6, <1>8, <2>1, <2>5, PartIs
  <2>7. Combine(l, r, e[k]) = <<v>>
    BY <1>4, <2>6
  <2>8. PICK x, y \in (-IntLimit)..(IntLimit - 1) :
          /\ l = <<x>> /\ r = <<y>> /\ ~Traps(x, y, e[k])
          /\ Combine(l, r, e[k]) = <<apply_op(x, y, e[k])>>
    <3>1. PICK op \in {"+", "-", "*", "/"} : op = e[k]
      BY <2>4
    <3>2. Combine(l, r, op) # <<>>
      BY <2>7, <3>1, OneValue
    <3>3. \E x, y \in (-IntLimit)..(IntLimit - 1) :
            /\ l = <<x>> /\ r = <<y>> /\ ~Traps(x, y, op)
            /\ Combine(l, r, op) = <<apply_op(x, y, op)>>
      BY <3>2, CombineIs
    <3> QED
      BY <3>1, <3>3
  <2>9. v = apply_op(x, y, e[k])
    BY <2>7, <2>8, OneValue
  <2>10. Translates(f, e, i, a, x) /\ Translates(f, e, b, j, y)
    BY <1>5, <1>6, <2>4, <2>5, <2>8
  <2>11. x \in Int /\ y \in Int
    BY <2>8, CalculatorSizes
  <2>12. Translates(f, e, i, j, apply_op(x, y, e[k]))
    BY <2>3, <2>8, <2>10, <2>11, OperatorCase
  <2> QED
    BY <2>9, <2>12
<1>9. CASE /\ ~(\A q \in i..j : IsDigit(e[q]))
           /\ ~(Splits(e, i, j, {"+", "-"}) \cup Splits(e, i, j, {"*", "/"}) # {})
  <2>1. PICK a, b : a = i + 1 /\ b = j - 1
    OBVIOUS
  <2>2. PartValue(e, g, i, j) =
          IF e[i] = "(" /\ e[j] = ")" /\ i < j THEN g[<<a, b>>] ELSE <<>>
    BY <1>3, <1>6, <1>9, <2>1, PartIs
  <2>3. e[i] = "(" /\ e[j] = ")" /\ i < j /\ g[<<a, b>>] = <<v>>
    BY <1>4, <2>2, OneValue
  <2>4. a \in 1..n /\ b \in 0..n /\ b - a < j - i
    BY <1>1, <1>6, <2>1, <2>3
  <2>5. ~(a > b)
    <3>1. PICK m : m = LastSplit(e, a, b)
      OBVIOUS
    <3>2. g[<<a, b>>] = PartValue(e, g, a, b)
      BY <1>1, <2>4 DEF Valued
    <3>3. a > b => PartValue(e, g, a, b) = <<>>
      BY <3>1, PartIs
    <3> QED
      BY <2>3, <3>2, <3>3, OneValue
  <2>6. Enclosed(e, i, j, a, b)
    BY <1>1, <1>6, <2>1, <2>3, <2>4, <2>5 DEF Enclosed
  <2>7. Translates(f, e, a, b, v)
    BY <1>5, <2>3, <2>4
  <2> QED
    BY <2>6, <2>7, ParenCase
<1> QED
  BY <1>7, <1>8, <1>9

\* So every part with a value is translated.
LEMMA PartsTranslate ==
  ASSUME NEW C, NEW e, NEW f, Running(f, e, C), NEW g \in [Parts(e) -> Value], Valued(g, e),
         NEW i \in 1..Len(e), NEW j \in 0..Len(e), NEW v, g[<<i, j>>] = <<v>>
  PROVE  Translates(f, e, i, j, v)
<1>1. PICK n \in Nat : n = Len(e) /\ e \in Seq(C)
  BY DEF Running
<1> DEFINE Carries(k) == \A a \in 1..n, b \in 0..n : \A x :
                         b - a < k /\ g[<<a, b>>] = <<x>> => Translates(f, e, a, b, x)
           T == {k \in 0..n : Carries(k)}
<1>2. 0 \in T
  <2>1. ASSUME NEW a \in 1..n, NEW b \in 0..n, NEW x, b - a < 0, g[<<a, b>>] = <<x>>
        PROVE  FALSE
    <3>1. a > b
      BY <2>1
    <3>2. g[<<a, b>>] = PartValue(e, g, a, b)
      BY <1>1 DEF Valued
    <3>3. PartValue(e, g, a, b) = <<>>
      BY <3>1 DEF PartValue
    <3> QED
      BY <2>1, <3>2, <3>3, OneValue
  <2> QED
    BY <2>1
<1>3. ASSUME NEW k \in 0..n, k \in T, k < n
      PROVE  k + 1 \in T
  <2>1. ASSUME NEW a \in 1..n, NEW b \in 0..n, NEW x, b - a < k + 1, g[<<a, b>>] = <<x>>
        PROVE  Translates(f, e, a, b, x)
    <3>1. a \in 1..Len(e) /\ b \in 0..Len(e)
      BY <1>1
    <3>2. ASSUME NEW a1 \in 1..Len(e), NEW b1 \in 0..Len(e), NEW x1,
                 b1 - a1 < b - a, g[<<a1, b1>>] = <<x1>>
          PROVE  Translates(f, e, a1, b1, x1)
      <4>1. a1 \in 1..n /\ b1 \in 0..n /\ b1 - a1 < k
        BY <1>1, <2>1, <3>2
      <4> QED
        BY <1>3, <3>2, <4>1
    <3> QED
      BY <2>1, <3>1, <3>2, PartTranslates
  <2>2. k + 1 \in 0..n
    BY <1>3
  <2> QED
    BY <2>1, <2>2
<1>4. Carries(n)
  <2>1. \A k \in 0..n : k \in T
    <3> HIDE DEF T
    <3> QED
      BY <1>2, <1>3, UpTo
  <2> QED
    BY <2>1
<1>5. i \in 1..n /\ j \in 0..n /\ j - i < n
  BY <1>1
<1> QED
  BY <1>4, <1>5

\* The postfix text of an expression with a value evaluates to it.
LEMMA WholeTranslates ==
  ASSUME NEW C, NEW e, NEW f, Running(f, e, C), e # <<>>, NEW v, Meaning(e) = <<v>>
  PROVE  /\ AllOut(f[Len(e)]) \in Seq(C) /\ EndsSpaced(AllOut(f[Len(e)]))
         /\ Evaluates(AllOut(f[Len(e)]), <<v>>)
<1>1. PICK n \in Nat : n = Len(e) /\ n > 0 /\ e \in Seq(C) /\ Space \in C
  <2>1. e \in Seq(C) /\ Space \in C
    BY DEF Running
  <2>2. Len(e) \in Nat /\ Len(e) > 0
    BY <2>1, EmptySeq
  <2> QED
    BY <2>1, <2>2
<1>2. PICK g \in [Parts(e) -> Value] : Valued(g, e)
  BY <1>1, ValuesExist
<1>3. g[<<1, n>>] = <<v>>
  BY <1>1, <1>2, MeaningIs
<1>4. 1 \in 1..Len(e) /\ n \in 0..Len(e)
  BY <1>1
<1>5. Translates(f, e, 1, n, v)
  BY <1>2, <1>3, <1>4, PartsTranslate
<1>6. f[0].stack = <<>> /\ f[0].out = <<>> /\ 1 - 1 = 0
  BY DEF Running, InfixRun, InfixAt
<1>7. Ready(f, e, 1, n, <<>>)
  <2>1. Apart(<<>>) /\ Evaluates(<<>>, <<>>)
    BY EvalNothing DEF Apart
  <2> QED
    BY <1>1, <1>6, <2>1 DEF Ready
<1>8. Compiled(f, e, 1, n, <<>>, v)
  <2>1. <<>> \in Seq(Int)
    OBVIOUS
  <2> QED
    BY <1>5, <1>7, <2>1 DEF Translates
<1>9. PICK s : s = f[n]
  OBVIOUS
<1>10. s.out \in Seq(C) /\ s.stack \in Seq(C)
  <2>1. n \in 0..Len(e)
    BY <1>1
  <2> QED
    BY <1>9, <2>1, RunAt
<1>11. Len(<<>>) = 0 /\ Append(<<>>, v) = <<v>>
  OBVIOUS
<1>12. EndsSpaced(s.out) /\ Evaluates(s.out \o Popped(s.stack, 0), <<v>>)
  BY <1>6, <1>8, <1>9, <1>11 DEF Compiled
<1>13. 0 \in 0..Len(s.stack)
  BY <1>10
<1>14. EndsSpaced(s.out \o Popped(s.stack, 0)) /\ s.out \o Popped(s.stack, 0) \in Seq(C)
  BY <1>1, <1>10, <1>12, <1>13, PoppedSpaced
<1> QED
  BY <1>1, <1>9, <1>12, <1>14 DEF AllOut

\* Without the space it ends in, too.
LEMMA FrontEvaluates ==
  ASSUME NEW C, NEW p \in Seq(C), EndsSpaced(p), NEW v, Evaluates(p, <<v>>)
  PROVE  /\ Front(p) \in Seq(C)
         /\ evaluate_postfix(Front(p)).end \in {"value", "astray"}
         /\ evaluate_postfix(Front(p)).value = v
<1>1. PICK n \in Nat : n = Len(p) /\ n > 0
  BY EmptySeq DEF EndsSpaced
<1>2. p[n] = Space /\ Space \in C
  <2>1. p[n] = Space
    BY <1>1 DEF EndsSpaced
  <2>2. p[n] \in C
    BY <1>1, ElementOfSeq
  <2> QED
    BY <2>1, <2>2
<1>3. PICK m \in 0..n : m = n - 1
  BY <1>1
<1>4. PICK r \in Seq(C) : r = SubSeq(p, 1, m)
  BY <1>1, <1>3, PrefixIs
<1>5. Len(r) = m /\ \A i \in 1..m : r[i] = p[i]
  BY <1>1, <1>3, <1>4, PrefixIs
<1>6. Front(p) = r
  BY <1>1, <1>3, <1>4 DEF Front
<1>7. Append(r, Space) = p
  <2>1. Append(r, Space) \in Seq(C) /\ Len(Append(r, Space)) = n
    BY <1>2, <1>3, <1>5
  <2>2. ASSUME NEW i \in 1..n
        PROVE  Append(r, Space)[i] = p[i]
    <3>1. CASE i = n
      BY <1>1, <1>2, <1>3, <1>5, <3>1
    <3>2. CASE i # n
      <4>1. i \in 1..m
        BY <1>3, <2>2, <3>2
      <4> QED
        BY <1>3, <1>5, <4>1
    <3> QED
      BY <3>1, <3>2
  <2> QED
    BY <1>1, <2>1, <2>2, SeqEqual
<1>8. Evaluates(r, <<v>>)
  BY <1>2, <1>7, EvalSpace
<1> QED
  BY <1>6, <1>8, EvaluatesTo

-----------------------------------------------------------------------------
(* The calculator: spaces                                                  *)

\* q is the text without its spaces, character by character.
Squeezed(s, c) == IF c = Space THEN s ELSE Append(s, c)
SqueezeRun(q, text) ==
  /\ q[0] = <<>>
  /\ \A i \in 1..Len(text) : q[i] = Squeezed(q[i - 1], text[i])

\* Unspaced() is such a run.
LEMMA UnspacedIs ==
  ASSUME NEW C, NEW text \in Seq(C)
  PROVE  \E q \in [0..Len(text) -> Seq(C)] :
           SqueezeRun(q, text) /\ Unspaced(text) = q[Len(text)]
<1> DEFINE n == Len(text)
           Rec(f) == [i \in 0..n |->
                        IF i = 0 THEN <<>>
                        ELSE IF text[i] = Space THEN f[i - 1] ELSE Append(f[i - 1], text[i])]
           g == CHOOSE h : h = Rec(h)
<1>1. Unspaced(text) = g[n]
  BY DEF Unspaced
<1>2. n \in Nat
  OBVIOUS
<1>3. \A k \in 1..n : text[k] \in C
  BY ElementOfSeq
<1>4. \A s \in Seq(C), k \in 1..n : Squeezed(s, text[k]) \in Seq(C)
  <2>1. ASSUME NEW s \in Seq(C), NEW k \in 1..n
        PROVE  Squeezed(s, text[k]) \in Seq(C)
    <3>1. Append(s, text[k]) \in Seq(C)
      BY <1>3, AppendProperties
    <3> QED
      BY <3>1 DEF Squeezed
  <2> QED
    BY <2>1
<1>5. PICK step : /\ step \in [Seq(C) \X (1..n) -> Seq(C)]
                  /\ \A s \in Seq(C), k \in 1..n : step[<<s, k>>] = Squeezed(s, text[k])
  <2> DEFINE st == [p \in Seq(C) \X (1..n) |-> Squeezed(p[1], text[p[2]])]
  <2>1. \A p \in Seq(C) \X (1..n) : p[1] \in Seq(C) /\ p[2] \in 1..n
    OBVIOUS
  <2>2. st \in [Seq(C) \X (1..n) -> Seq(C)]
    BY <1>4, <2>1
  <2>3. \A s \in Seq(C), k \in 1..n : st[<<s, k>>] = Squeezed(s, text[k])
    OBVIOUS
  <2> HIDE DEF st
  <2> QED
    BY <2>2, <2>3
<1> HIDE DEF n
<1>6. PICK f \in [0..n -> Seq(C)] : IsLoop(f, n, <<>>, step)
  <2>1. <<>> \in Seq(C)
    OBVIOUS
  <2> QED
    BY <1>2, <1>5, <2>1, RecursionExists
<1>7. f[0] = <<>> /\ \A i \in 1..n : f[i] = step[<<f[i - 1], i>>]
  BY <1>6 DEF IsLoop
<1>8. ASSUME NEW i \in 1..n
      PROVE  f[i] = Squeezed(f[i - 1], text[i])
  <2>1. f[i - 1] \in Seq(C)
    BY <1>2
  <2> QED
    BY <1>5, <1>7, <2>1
<1>9. f = Rec(f)
  <2>1. ASSUME NEW i \in 0..n
        PROVE  f[i] = IF i = 0 THEN <<>>
                      ELSE IF text[i] = Space THEN f[i - 1] ELSE Append(f[i - 1], text[i])
    <3>1. CASE i = 0
      BY <1>7, <3>1
    <3>2. CASE i # 0
      <4>1. i \in 1..n
        BY <1>2, <3>2
      <4> QED
        BY <1>8, <3>2, <4>1 DEF Squeezed
    <3> QED
      BY <3>1, <3>2
  <2> QED
    BY <2>1
<1>10. g = Rec(g)
  <2> HIDE DEF Rec
  <2> QED
    BY <1>9
<1> HIDE DEF g
<1>11. ASSUME NEW i \in 0..n
       PROVE  g[i] = IF i = 0 THEN <<>>
                     ELSE IF text[i] = Space THEN g[i - 1] ELSE Append(g[i - 1], text[i])
  <2>1. Rec(g)[i] = IF i = 0 THEN <<>>
                    ELSE IF text[i] = Space THEN g[i - 1] ELSE Append(g[i - 1], text[i])
    OBVIOUS
  <2> HIDE DEF Rec
  <2> QED
    BY <1>10, <2>1
<1>12. g[0] = <<>>
  <2>1. 0 \in 0..n
    BY <1>2
  <2> QED
    BY <1>11, <2>1
<1>13. ASSUME NEW i \in 1..n
       PROVE  g[i] = Squeezed(g[i - 1], text[i])
  <2>1. i \in 0..n /\ i # 0
    BY <1>2
  <2> QED
    BY <1>11, <2>1 DEF Squeezed
<1>14. \A i \in 0..n : g[i] \in Seq(C)
  <2>1. g[0] \in Seq(C)
    BY <1>12
  <2>2. ASSUME NEW i \in 1..n, g[i - 1] \in Seq(C)
        PROVE  g[i] \in Seq(C)
    BY <1>4, <1>13, <2>2
  <2> QED
    BY <1>2, <2>1, <2>2, RecursionTyped
<1>15. g \in [0..n -> Seq(C)]
  <2>1. g = [i \in 0..n |-> g[i]]
    BY <1>10
  <2> QED
    BY <1>14, <2>1
<1>16. SqueezeRun(g, text)
  BY <1>12, <1>13 DEF SqueezeRun, n
<1> QED
  BY <1>1, <1>15, <1>16 DEF n

Squeezing(q, text, C) ==
  text \in Seq(C) /\ q \in [0..Len(text) -> Seq(C)] /\ SqueezeRun(q, text)

\* t goes on where s ends.
GrowsInto(s, t) == Len(s) <= Len(t) /\ \A m \in 1..Len(s) : t[m] = s[m]
AddsTo(s, t, c) == Len(t) = Len(s) + 1 /\ t[Len(s) + 1] = c

\* One character.
LEMMA SqueezeStep ==
  ASSUME NEW C, NEW q, NEW text, Squeezing(q, text, C),
         NEW j \in 0..Len(text), NEW i \in 1..Len(text), j = i - 1
  PROVE  /\ GrowsInto(q[j], q[i]) /\ q[i] \in Seq(C) /\ q[j] \in Seq(C)
         /\ text[i] = Space => q[i] = q[j]
         /\ text[i] # Space => AddsTo(q[j], q[i], text[i])
<1>1. PICK s, t : s = q[j] /\ t = q[i]
  OBVIOUS
<1>2. s \in Seq(C) /\ t \in Seq(C) /\ text[i] \in C
  <2>1. text \in Seq(C) /\ q \in [0..Len(text) -> Seq(C)] /\ i \in 0..Len(text)
    BY DEF Squeezing
  <2>2. text[i] \in C
    BY <2>1, ElementOfSeq
  <2> QED
    BY <1>1, <2>1, <2>2
<1>3. t = IF text[i] = Space THEN s ELSE Append(s, text[i])
  BY <1>1 DEF Squeezing, SqueezeRun, Squeezed
<1>4. CASE text[i] = Space
  <2>1. t = s
    BY <1>3, <1>4
  <2>2. GrowsInto(s, t)
    BY <1>2, <2>1 DEF GrowsInto
  <2> QED
    BY <1>1, <1>2, <1>4, <2>1, <2>2
<1>5. CASE text[i] # Space
  <2>1. t = Append(s, text[i])
    BY <1>3, <1>5
  <2>2. /\ Len(t) = Len(s) + 1 /\ t[Len(s) + 1] = text[i]
        /\ \A m \in 1..Len(s) : t[m] = s[m]
    BY <1>2, <2>1, AppendProperties
  <2>3. GrowsInto(s, t) /\ AddsTo(s, t, text[i])
    BY <1>2, <2>2 DEF GrowsInto, AddsTo
  <2> QED
    BY <1>1, <1>2, <1>5, <2>3
<1> QED
  BY <1>4, <1>5

\* What has been copied stays.
LEMMA SqueezeGrows ==
  ASSUME NEW C, NEW q, NEW text, Squeezing(q, text, C)
  PROVE  \A k \in 0..Len(text), i \in 0..Len(text) : i <= k => GrowsInto(q[i], q[k])
<1>1. PICK n \in Nat : n = Len(text)
  <2>1. text \in Seq(C)
    BY DEF Squeezing
  <2> QED
    BY <2>1
<1>2. \A i \in 0..n : q[i] \in Seq(C)
  BY <1>1 DEF Squeezing
<1> DEFINE T == {k \in 0..n : \A i \in 0..n : i <= k => GrowsInto(q[i], q[k])}
<1>3. \A i \in 0..n : GrowsInto(q[i], q[i])
  BY <1>2 DEF GrowsInto
<1>4. 0 \in T
  <2>1. ASSUME NEW i \in 0..n, i <= 0
        PROVE  GrowsInto(q[i], q[0])
    <3>1. i = 0
      BY <2>1
    <3> QED
      BY <1>3, <3>1
  <2> QED
    BY <2>1
<1>5. ASSUME NEW j \in 0..n, j \in T, j < n
      PROVE  j + 1 \in T
  <2>1. PICK k \in 1..Len(text) : k = j + 1 /\ k \in 0..n
    BY <1>1, <1>5
  <2>2. GrowsInto(q[j], q[k])
    BY <1>1, <2>1, SqueezeStep
  <2>3. ASSUME NEW i \in 0..n, i <= k
        PROVE  GrowsInto(q[i], q[k])
    <3>1. CASE i = k
      BY <1>3, <3>1
    <3>2. CASE i # k
      <4>1. i <= j
        BY <2>1, <2>3, <3>2
      <4>2. GrowsInto(q[i], q[j])
        BY <1>5, <4>1
      <4>3. PICK r \in Seq(C), s \in Seq(C), t \in Seq(C) : r = q[i] /\ s = q[j] /\ t = q[k]
        BY <1>2, <2>1
      <4>4. GrowsInto(r, s) /\ GrowsInto(s, t)
        BY <2>2, <4>2, <4>3
      <4>5. GrowsInto(r, t)
        <5>1. Len(r) \in Nat /\ Len(s) \in Nat /\ Len(t) \in Nat
          BY <4>3
        <5> QED
          BY <4>4, <5>1 DEF GrowsInto
      <4> QED
        BY <4>3, <4>5
    <3> QED
      BY <3>1, <3>2
  <2> QED
    BY <2>1, <2>3
<1>6. \A k \in 0..n : k \in T
  <2> HIDE DEF T
  <2> QED
    BY <1>4, <1>5, UpTo
<1> QED
  BY <1>1, <1>6

\* Every character of the copy comes from the text: the one at m + 1 from the
\* first place where so much has been copied.
LEMMA SqueezeFrom ==
  ASSUME NEW C, NEW q, NEW text, Squeezing(q, text, C),
         NEW i \in 0..Len(text), NEW m \in Nat, m = Len(q[i]), m < Len(q[Len(text)])
  PROVE  \E k \in 1..Len(text) : /\ i < k /\ text[k] # Space
                                 /\ q[Len(text)][m + 1] = text[k]
                                 /\ \A l \in (i + 1)..(k - 1) : text[l] = Space
<1>1. PICK n \in Nat : n = Len(text)
  <2>1. text \in Seq(C)
    BY DEF Squeezing
  <2> QED
    BY <2>1
<1>2. \A h \in 0..n : q[h] \in Seq(C) /\ Len(q[h]) \in Nat
  BY <1>1 DEF Squeezing
<1>3. \A k \in 0..n, h \in 0..n : h <= k => GrowsInto(q[h], q[k])
  BY <1>1, SqueezeGrows
<1>4. \A k \in 1..n, j \in 0..n : j = k - 1 =>
        /\ text[k] = Space => q[k] = q[j]
        /\ text[k] # Space => AddsTo(q[j], q[k], text[k])
  <2>1. ASSUME NEW k \in 1..n, NEW j \in 0..n, j = k - 1
        PROVE  /\ text[k] = Space => q[k] = q[j]
               /\ text[k] # Space => AddsTo(q[j], q[k], text[k])
    <3>1. j \in 0..Len(text) /\ k \in 1..Len(text)
      BY <1>1
    <3> QED
      BY <2>1, <3>1, SqueezeStep
  <2> QED
    BY <2>1
<1> DEFINE S == {k \in 0..n : m < Len(q[k])}
<1>5. PICK k \in S : \A h \in S : k <= h
  <2>1. n \in S /\ S \in SUBSET Nat
    BY <1>1
  <2> HIDE DEF S
  <2> QED
    BY <2>1, LeastNat
<1>6. k \in 0..n /\ m < Len(q[k]) /\ i \in 0..n
  BY <1>1
<1>7. i < k
  <2>1. SUFFICES ASSUME k <= i
                 PROVE  FALSE
    BY <1>6
  <2>2. GrowsInto(q[k], q[i])
    BY <1>3, <1>6, <2>1
  <2>3. Len(q[k]) <= Len(q[i])
    BY <2>2 DEF GrowsInto
  <2> QED
    BY <1>2, <1>6, <2>3
<1>8. PICK j \in 0..n : j = k - 1 /\ i <= j /\ k \in 1..n
  BY <1>1, <1>6, <1>7
<1>9. Len(q[j]) = m
  <2>1. ~(m < Len(q[j]))
    BY <1>5, <1>6, <1>8
  <2>2. GrowsInto(q[i], q[j])
    BY <1>3, <1>6, <1>8
  <2>3. Len(q[i]) <= Len(q[j])
    BY <2>2 DEF GrowsInto
  <2> QED
    BY <1>2, <1>6, <2>1, <2>3
<1>10. text[k] # Space
  <2>1. SUFFICES ASSUME text[k] = Space
                 PROVE  FALSE
    OBVIOUS
  <2>2. q[k] = q[j]
    BY <1>4, <1>8, <2>1
  <2> QED
    BY <1>6, <1>9, <2>2
<1>11. Len(q[k]) = m + 1 /\ q[k][m + 1] = text[k]
  BY <1>4, <1>8, <1>9, <1>10 DEF AddsTo
<1>12. q[n][m + 1] = text[k]
  <2>1. GrowsInto(q[k], q[n])
    BY <1>3, <1>6
  <2>2. m + 1 \in 1..Len(q[k])
    BY <1>11
  <2> QED
    BY <1>11, <2>1, <2>2 DEF GrowsInto
<1>13. ASSUME NEW l \in (i + 1)..(k - 1), text[l] # Space
       PROVE  FALSE
  <2>1. PICK h \in 0..n : h = l - 1 /\ i <= h /\ l \in 1..n /\ l < k /\ l \in 0..n
    BY <1>6, <1>13
  <2>2. AddsTo(q[h], q[l], text[l])
    BY <1>4, <1>13, <2>1
  <2>3. GrowsInto(q[i], q[h])
    BY <1>3, <1>6, <2>1
  <2>4. m <= Len(q[h]) /\ Len(q[l]) = Len(q[h]) + 1
    BY <2>2, <2>3 DEF GrowsInto, AddsTo
  <2>5. m < Len(q[l])
    BY <1>2, <2>1, <2>4
  <2>6. k <= l
    BY <1>5, <2>1, <2>5
  <2> QED
    BY <1>6, <2>1, <2>6
<1> QED
  BY <1>1, <1>7, <1>8, <1>10, <1>12, <1>13

\* A space between two digits aside, a number ends in the copy where it ends in
\* the text.
LEMMA EndsAgree ==
  ASSUME NEW C, NEW q, NEW text, Squeezing(q, text, C), Spaced(text),
         NEW e, e = q[Len(text)],
         NEW i \in 1..Len(text), IsDigit(text[i]), NEW m, m = Len(q[i])
  PROVE  NumberEnds(text, i) <=> NumberEnds(e, m)
<1>1. PICK n \in Nat : n = Len(text)
  <2>1. text \in Seq(C)
    BY DEF Squeezing
  <2> QED
    BY <2>1
<1>2. \A h \in 0..n : q[h] \in Seq(C) /\ Len(q[h]) \in Nat
  BY <1>1 DEF Squeezing
<1>3. i \in 0..n /\ m \in Nat /\ m <= Len(e) /\ Len(e) \in Nat
  <2>1. i \in 0..n /\ n \in 0..n /\ i <= n
    BY <1>1
  <2>2. GrowsInto(q[i], q[n])
    BY <1>1, <2>1, SqueezeGrows
  <2> QED
    BY <1>1, <1>2, <2>1, <2>2 DEF GrowsInto
<1>4. ASSUME ~NumberEnds(text, i)
      PROVE  ~NumberEnds(e, m)
  <2>1. i # n /\ IsDigit(text[i + 1])
    BY <1>1, <1>4 DEF NumberEnds
  <2>2. PICK k \in 1..n : k = i + 1 /\ k \in 0..n
    BY <1>1, <2>1
  <2>3. text[k] # Space
    <3>1. IsDigit(text[k])
      BY <2>1, <2>2
    <3>2. text[k] \in DigitChar
      BY <3>1, DigitsAre
    <3> QED
      BY <3>2 DEF DigitChar, Space
  <2>4. AddsTo(q[i], q[k], text[k])
    <3>1. i \in 0..Len(text) /\ k \in 1..Len(text) /\ i = k - 1
      BY <1>1, <1>3, <2>2
    <3> QED
      BY <2>3, <3>1, SqueezeStep
  <2>5. GrowsInto(q[k], q[n])
    <3>1. k <= n /\ n \in 0..Len(text) /\ k \in 0..Len(text)
      BY <1>1, <2>2
    <3> QED
      BY <3>1, SqueezeGrows
  <2>6. Len(q[k]) = m + 1 /\ q[k][m + 1] = text[k]
    BY <2>4 DEF AddsTo
  <2>7. m + 1 <= Len(e) /\ e[m + 1] = text[k]
    <3>1. m + 1 \in 1..Len(q[k])
      BY <1>3, <2>6
    <3> QED
      BY <1>1, <2>5, <2>6, <3>1 DEF GrowsInto
  <2>8. IsDigit(e[m + 1])
    BY <2>1, <2>2, <2>7
  <2> QED
    BY <1>3, <2>7, <2>8 DEF NumberEnds
<1>5. ASSUME ~NumberEnds(e, m)
      PROVE  ~NumberEnds(text, i)
  <2>1. m < Len(e) /\ IsDigit(e[m + 1])
    BY <1>3, <1>5 DEF NumberEnds
  <2>2. PICK k \in 1..n : /\ i < k /\ text[k] # Space /\ e[m + 1] = text[k]
                          /\ \A l \in (i + 1)..(k - 1) : text[l] = Space
    <3>1. i \in 0..Len(text) /\ m < Len(q[Len(text)])
      BY <1>1, <1>3, <2>1
    <3> QED
      BY <1>1, <1>3, <3>1, SqueezeFrom
  <2>3. IsDigit(text[k])
    BY <2>1, <2>2
  <2>4. k = i + 1
    <3>1. ~(i + 1 < k)
      <4>1. SUFFICES ASSUME i + 1 < k
                     PROVE  FALSE
        OBVIOUS
      <4>2. i \in 1..Len(text) /\ k \in 1..Len(text)
        BY <1>1
      <4>3. \E l \in (i + 1)..(k - 1) : text[l] # Space
        BY <2>3, <4>1, <4>2 DEF Spaced
      <4> QED
        BY <2>2, <4>3
    <3> QED
      BY <1>1, <2>2, <3>1
  <2>5. i # Len(text)
    BY <1>1, <2>2, <2>4
  <2> QED
    BY <2>3, <2>4, <2>5 DEF NumberEnds
<1> QED
  BY <1>4, <1>5

\* infix_to_postfix() looks at a character, and behind a digit whether the
\* number ends.
LEMMA StepSame ==
  ASSUME NEW text, NEW e, NEW s, NEW i, NEW m, text[i] = e[m],
         IsDigit(text[i]) => (NumberEnds(text, i) <=> NumberEnds(e, m))
  PROVE  InfixStep(text, s, i) = InfixStep(e, s, m)
<1>1. PICK c : c = text[i] /\ c = e[m]
  OBVIOUS
<1>2. CASE IsDigit(c)
  <2>1. CASE NumberEnds(text, i) /\ NumberEnds(e, m)
    BY <1>1, <1>2, <2>1 DEF InfixStep, NumberEnds
  <2>2. CASE ~NumberEnds(text, i) /\ ~NumberEnds(e, m)
    BY <1>1, <1>2, <2>2 DEF InfixStep, NumberEnds
  <2> QED
    BY <1>1, <1>2, <2>1, <2>2
<1>3. CASE ~IsDigit(c)
  BY <1>1, <1>3 DEF InfixStep
<1> QED
  BY <1>2, <1>3

\* So spaces make no difference.
LEMMA SameState ==
  ASSUME NEW C, NEW q, NEW text, Squeezing(q, text, C), Spaced(text),
         NEW e, e = q[Len(text)], NEW f, Running(f, text, C), NEW g, Running(g, e, C)
  PROVE  \A i \in 0..Len(text) : f[i] = g[Len(q[i])]
<1>1. PICK n \in Nat : n = Len(text)
  <2>1. text \in Seq(C)
    BY DEF Squeezing
  <2> QED
    BY <2>1
<1>2. \A h \in 0..n : q[h] \in Seq(C) /\ Len(q[h]) \in Nat
  BY <1>1 DEF Squeezing
<1> DEFINE T == {i \in 0..n : f[i] = g[Len(q[i])]}
<1>3. 0 \in T
  <2>1. q[0] = <<>> /\ Len(<<>>) = 0
    BY DEF Squeezing, SqueezeRun
  <2>2. f[0] = g[0]
    BY DEF Running, InfixRun
  <2> QED
    BY <2>1, <2>2
<1>4. ASSUME NEW j \in 0..n, j \in T, j < n
      PROVE  j + 1 \in T
  <2>1. PICK i \in 1..n : i = j + 1 /\ j = i - 1 /\ i \in 0..n
    BY <1>1, <1>4
  <2>2. j \in 0..Len(text) /\ i \in 1..Len(text)
    BY <1>1, <2>1
  <2>3. /\ text[i] = Space => q[i] = q[j]
        /\ text[i] # Space => AddsTo(q[j], q[i], text[i])
    BY <2>1, <2>2, SqueezeStep
  <2>4. PICK s : s = f[j] /\ s = g[Len(q[j])]
    BY <1>4
  <2>5. f[i] = InfixStep(text, s, i)
    BY <2>1, <2>2, <2>4 DEF Running, InfixRun
  <2>6. CASE text[i] = Space
    <3>1. InfixStep(text, s, i) = s
      BY <2>6, InfixSpace
    <3> QED
      BY <2>1, <2>3, <2>4, <2>5, <2>6, <3>1
  <2>7. CASE text[i] # Space
    <3>1. PICK m, l \in Nat : m = Len(q[i]) /\ l = Len(q[j]) /\ m = l + 1 /\ q[i][m] = text[i]
      BY <1>2, <2>1, <2>3, <2>7 DEF AddsTo
    <3>2. e[m] = text[i] /\ m \in 1..Len(e)
      <4>1. GrowsInto(q[i], q[n])
        <5>1. i <= n /\ n \in 0..Len(text) /\ i \in 0..Len(text)
          BY <1>1, <2>1
        <5> QED
          BY <5>1, SqueezeGrows
      <4>2. m \in 1..Len(q[i])
        BY <3>1
      <4> QED
        BY <1>1, <1>2, <2>1, <3>1, <4>1, <4>2 DEF GrowsInto
    <3>3. g[m] = InfixStep(e, s, m)
      <4>1. g[m] = InfixStep(e, g[m - 1], m)
        BY <3>2 DEF Running, InfixRun
      <4> QED
        BY <2>4, <3>1, <4>1
    <3>4. IsDigit(text[i]) => (NumberEnds(text, i) <=> NumberEnds(e, m))
      BY <2>2, <3>1, EndsAgree
    <3>5. InfixStep(text, s, i) = InfixStep(e, s, m)
      BY <3>2, <3>4, StepSame
    <3> QED
      BY <2>1, <2>5, <3>1, <3>3, <3>5
  <2> QED
    BY <2>6, <2>7
<1>5. \A i \in 0..n : i \in T
  <2> HIDE DEF T
  <2> QED
    BY <1>3, <1>4, UpTo
<1> QED
  BY <1>1, <1>5

\* What an expression means is a value.
LEMMA MeaningValue ==
  ASSUME NEW C, NEW e \in Seq(C)
  PROVE  Meaning(e) \in Value
<1>1. CASE e = <<>>
  BY <1>1 DEF Meaning, Value
<1>2. CASE e # <<>>
  <2>1. PICK g \in [Parts(e) -> Value] : Valued(g, e)
    BY ValuesExist
  <2>2. PICK n \in Nat : n = Len(e) /\ n > 0
    BY <1>2, EmptySeq
  <2>3. Meaning(e) = g[<<1, n>>]
    BY <1>2, <2>1, <2>2, MeaningIs
  <2>4. 1 \in 1..Len(e) /\ n \in 0..Len(e)
    BY <2>2
  <2>5. <<1, n>> \in Parts(e)
    BY <2>4 DEF Parts
  <2> QED
    BY <2>3, <2>5
<1> QED
  BY <1>1, <1>2

\* So if it is one, it is an int, and the expression has characters.
LEMMA MeaningTyped ==
  ASSUME NEW C, NEW e \in Seq(C), NEW v, Meaning(e) = <<v>>
  PROVE  e # <<>> /\ v \in (-IntLimit)..(IntLimit - 1)
<1>1. e # <<>>
  <2>1. Meaning(<<>>) = <<>>
    BY DEF Meaning
  <2> QED
    BY <2>1, OneValue
<1>2. \E u \in (-IntLimit)..(IntLimit - 1) : <<v>> = <<u>>
  BY MeaningValue, OneValue DEF Value
<1> QED
  BY <1>1, <1>2, OneValue

\* A text without its spaces is a text.
LEMMA UnspacedTyped ==
  ASSUME NEW C, NEW text \in Seq(C)
  PROVE  Unspaced(text) \in Seq(C)
<1>1. PICK q \in [0..Len(text) -> Seq(C)] : Unspaced(text) = q[Len(text)]
  BY UnspacedIs
<1>2. Len(text) \in 0..Len(text)
  OBVIOUS
<1> QED
  BY <1>1, <1>2

\* However an expression is spaced, what it is translated to evaluates to its
\* value.
LEMMA ExpressionValue ==
  ASSUME NEW C, Space \in C, NEW text \in Seq(C), Spaced(text),
         NEW v, Meaning(Unspaced(text)) = <<v>>
  PROVE  /\ v \in (-IntLimit)..(IntLimit - 1)
         /\ evaluate_postfix(infix_to_postfix(text).text).end \in {"value", "astray"}
         /\ evaluate_postfix(infix_to_postfix(text).text).value = v
<1>1. PICK n \in Nat : n = Len(text)
  OBVIOUS
<1>2. PICK q \in [0..n -> Seq(C)] : SqueezeRun(q, text) /\ Unspaced(text) = q[n]
  BY <1>1, UnspacedIs
<1>3. Squeezing(q, text, C)
  BY <1>1, <1>2 DEF Squeezing
<1>4. PICK e \in Seq(C) : e = q[n] /\ Meaning(e) = <<v>>
  BY <1>1, <1>2
<1>5. e # <<>> /\ v \in (-IntLimit)..(IntLimit - 1)
  BY <1>4, MeaningTyped
<1>6. PICK f : Running(f, text, C) /\ infix_to_postfix(text) = InfixEnd(f[n])
  <2>1. PICK f \in [0..Len(text) -> InfixState(C)] :
          InfixRun(f, text) /\ infix_to_postfix(text) = InfixEnd(f[Len(text)])
    BY InfixIs
  <2>2. Running(f, text, C)
    BY <2>1 DEF Running
  <2> QED
    BY <1>1, <2>1, <2>2
<1>7. PICK g : Running(g, e, C)
  <2>1. PICK g \in [0..Len(e) -> InfixState(C)] : InfixRun(g, e)
    BY InfixIs
  <2>2. Running(g, e, C)
    BY <2>1 DEF Running
  <2> QED
    BY <2>2
<1>8. f[n] = g[Len(e)]
  <2>1. \A i \in 0..Len(text) : f[i] = g[Len(q[i])]
    BY <1>1, <1>3, <1>4, <1>6, <1>7, SameState
  <2> QED
    BY <1>1, <1>4, <2>1
<1>9. PICK p : p = AllOut(g[Len(e)])
  OBVIOUS
<1>10. p \in Seq(C) /\ EndsSpaced(p) /\ Evaluates(p, <<v>>)
  BY <1>4, <1>5, <1>7, <1>9, WholeTranslates
<1>11. /\ evaluate_postfix(Front(p)).end \in {"value", "astray"}
       /\ evaluate_postfix(Front(p)).value = v
  BY <1>10, FrontEvaluates
<1>12. infix_to_postfix(text).text = Front(p)
  BY <1>6, <1>8, <1>9, <1>10 DEF InfixEnd, EndsSpaced
<1> QED
  BY <1>5, <1>11, <1>12

-----------------------------------------------------------------------------
(* The calculator: the result in digits                                    *)

\* One digit more, when h has those of a tenth.
DigitsBy(h, n) == IF n = 0 THEN <<>> ELSE Append(h[n \div 10], Digits[(n % 10) + 1])
Solves(h, m) == h \in [Nat -> Seq(DigitChar)] /\ \A n \in 0..m : h[n] = DigitsBy(h, n)

\* A tenth is smaller.
LEMMA Tenth ==
  ASSUME NEW n \in Nat, n # 0
  PROVE  n \div 10 \in Nat /\ n \div 10 < n /\ n % 10 \in 0..9 /\ n = 10 * (n \div 10) + (n % 10)
OBVIOUS

\* The digits.
LEMMA DigitIs ==
  ASSUME NEW d \in 0..9
  PROVE  Digits[d + 1] \in DigitChar /\ DigitValue(Digits[d + 1]) = d
<1>1. PICK k \in 1..10 : k = d + 1
  OBVIOUS
<1>2. Digits[k] \in DigitChar
  BY DEF Digits, DigitChar
<1>3. \A j \in 1..10 : Digits[j] = Digits[k] => j = k
  BY DEF Digits
<1>4. DigitValue(Digits[k]) = k - 1
  BY <1>3 DEF DigitValue
<1> QED
  BY <1>1, <1>2, <1>4

\* It takes digits.
LEMMA DigitsByTyped ==
  ASSUME NEW h \in [Nat -> Seq(DigitChar)], NEW n \in Nat
  PROVE  DigitsBy(h, n) \in Seq(DigitChar)
<1>1. CASE n = 0
  BY <1>1 DEF DigitsBy
<1>2. CASE n # 0
  <2>1. n \div 10 \in Nat /\ n % 10 \in 0..9
    BY <1>2, Tenth
  <2>2. PICK s \in Seq(DigitChar) : s = h[n \div 10]
    BY <2>1
  <2>3. PICK d \in 0..9 : d = n % 10
    BY <2>1
  <2>4. Digits[d + 1] \in DigitChar
    BY DigitIs
  <2>5. Append(s, Digits[d + 1]) \in Seq(DigitChar)
    BY <2>4, AppendProperties
  <2> QED
    BY <1>2, <2>2, <2>3, <2>5 DEF DigitsBy
<1> QED
  BY <1>1, <1>2

\* The recursion has a solution up to any number,
LEMMA Solvable ==
  ASSUME NEW m \in Nat
  PROVE  \E h : Solves(h, m)
<1> DEFINE T == {k \in 0..m : \E h : Solves(h, k)}
<1>1. 0 \in T
  <2>1. PICK h \in [Nat -> Seq(DigitChar)] : \A n \in Nat : h[n] = <<>>
    <3>1. PICK e \in Seq(DigitChar) : e = <<>>
      <4>1. <<>> \in Seq(DigitChar)
        OBVIOUS
      <4> QED
        BY <4>1
    <3>2. [n \in Nat |-> e] \in [Nat -> Seq(DigitChar)]
      OBVIOUS
    <3> QED
      BY <3>1, <3>2
  <2>2. h[0] = DigitsBy(h, 0)
    BY <2>1 DEF DigitsBy
  <2>3. \A n \in 0..0 : n = 0
    OBVIOUS
  <2>4. Solves(h, 0)
    BY <2>2, <2>3 DEF Solves
  <2> QED
    BY <2>4
<1>2. ASSUME NEW k \in 0..m, k \in T, k < m
      PROVE  k + 1 \in T
  <2>1. PICK h : Solves(h, k)
    BY <1>2
  <2>2. PICK l \in 0..m : l = k + 1
    BY <1>2
  <2>3. h \in [Nat -> Seq(DigitChar)] /\ \A n \in 0..k : h[n] = DigitsBy(h, n)
    BY <2>1 DEF Solves
  <2>4. PICK s \in Seq(DigitChar) : s = DigitsBy(h, l)
    BY <2>3, DigitsByTyped
  <2>5. PICK g : g = [h EXCEPT ![l] = s]
    OBVIOUS
  <2>6. g \in [Nat -> Seq(DigitChar)] /\ g[l] = s /\ \A n \in Nat : n # l => g[n] = h[n]
    BY <2>3, <2>5
  <2>7. ASSUME NEW n \in 0..l
        PROVE  DigitsBy(g, n) = DigitsBy(h, n)
    <3>1. CASE n = 0
      BY <3>1 DEF DigitsBy
    <3>2. CASE n # 0
      <4>1. n \div 10 \in Nat /\ n \div 10 < n
        BY <3>2, Tenth
      <4>2. n \div 10 # l
        BY <2>2, <4>1
      <4>3. g[n \div 10] = h[n \div 10]
        BY <2>6, <4>1, <4>2
      <4> QED
        BY <3>2, <4>3 DEF DigitsBy
    <3> QED
      BY <3>1, <3>2
  <2>8. ASSUME NEW n \in 0..l
        PROVE  g[n] = DigitsBy(g, n)
    <3>1. CASE n = l
      BY <2>4, <2>6, <2>7, <3>1
    <3>2. CASE n # l
      <4>1. n \in 0..k /\ n \in Nat
        BY <2>2, <3>2
      <4> QED
        BY <2>3, <2>6, <2>7, <3>2, <4>1
    <3> QED
      BY <3>1, <3>2
  <2>9. Solves(g, l)
    BY <2>6, <2>8 DEF Solves
  <2> QED
    BY <2>2, <2>9
<1>3. \A k \in 0..m : k \in T
  <2> HIDE DEF T
  <2> QED
    BY <1>1, <1>2, UpTo
<1> QED
  BY <1>3

\* and only one.
LEMMA SolvedOnce ==
  ASSUME NEW m \in Nat, NEW l \in Nat, NEW g, NEW h, Solves(g, m), Solves(h, l), NEW n \in Nat,
         n <= m, n <= l
  PROVE  g[n] = h[n]
<1> DEFINE T == {k \in 0..n : \A j \in 0..k : g[j] = h[j]}
<1>0. \A j \in 0..n : g[j] = DigitsBy(g, j) /\ h[j] = DigitsBy(h, j)
  BY DEF Solves
<1>1. 0 \in T
  <2>1. g[0] = <<>> /\ h[0] = <<>> /\ \A j \in 0..0 : j = 0
    BY <1>0 DEF DigitsBy
  <2> QED
    BY <2>1
<1>2. ASSUME NEW k \in 0..n, k \in T, k < n
      PROVE  k + 1 \in T
  <2>1. PICK i \in 0..n : i = k + 1 /\ i # 0
    BY <1>2
  <2>2. i \div 10 \in Nat /\ i \div 10 < i
    BY <2>1, Tenth
  <2>3. i \div 10 \in 0..k
    BY <2>1, <2>2
  <2>4. g[i \div 10] = h[i \div 10]
    BY <1>2, <2>3
  <2>5. g[i] = h[i]
    BY <1>0, <2>1, <2>4 DEF DigitsBy
  <2>6. ASSUME NEW j \in 0..i
        PROVE  g[j] = h[j]
    <3>1. j = i \/ j \in 0..k
      BY <2>1
    <3> QED
      BY <1>2, <2>5, <3>1
  <2> QED
    BY <2>1, <2>6
<1>3. \A k \in 0..n : k \in T
  <2> HIDE DEF T
  <2> QED
    BY <1>1, <1>2, UpTo
<1>4. n \in T /\ n \in 0..n
  BY <1>3
<1> QED
  BY <1>4

\* So DecimalDigits is what its definition says.
LEMMA DecimalIs ==
  /\ DecimalDigits \in [Nat -> Seq(DigitChar)]
  /\ \A n \in Nat : DecimalDigits[n] = DigitsBy(DecimalDigits, n)
<1> DEFINE Rec(f) == [n \in Nat |-> IF n = 0 THEN <<>>
                                    ELSE Append(f[n \div 10], Digits[(n % 10) + 1])]
           One(n) == CHOOSE h : Solves(h, n)
           F == [n \in Nat |-> One(n)[n]]
           g == CHOOSE h : h = Rec(h)
<1>1. \A n \in Nat : Solves(One(n), n)
  BY Solvable
<1>2. ASSUME NEW n \in Nat
      PROVE  F[n] = One(n)[n] /\ F[n] \in Seq(DigitChar)
  <2>1. One(n) \in [Nat -> Seq(DigitChar)]
    BY <1>1 DEF Solves
  <2> HIDE DEF One
  <2> QED
    BY <2>1
<1> HIDE DEF One, F
<1>3. ASSUME NEW n \in Nat
      PROVE  F[n] = DigitsBy(F, n)
  <2>1. F[n] = DigitsBy(One(n), n)
    <3>1. n \in 0..n
      OBVIOUS
    <3> QED
      BY <1>1, <1>2, <3>1 DEF Solves
  <2>2. CASE n = 0
    BY <2>1, <2>2 DEF DigitsBy
  <2>3. CASE n # 0
    <3>1. PICK m \in Nat : m = n \div 10 /\ m < n
      BY <2>3, Tenth
    <3>2. PICK s, t : s = One(m) /\ t = One(n)
      OBVIOUS
    <3>3. s[m] = t[m]
      BY <1>1, <3>1, <3>2, SolvedOnce
    <3>4. F[m] = t[m]
      BY <1>2, <3>1, <3>2, <3>3
    <3> QED
      BY <2>1, <2>3, <3>1, <3>2, <3>4 DEF DigitsBy
  <2> QED
    BY <2>2, <2>3
<1>4. F = Rec(F)
  <2>1. F = [n \in Nat |-> F[n]]
    BY DEF F
  <2>2. \A n \in Nat : F[n] = Rec(F)[n]
    BY <1>3 DEF DigitsBy
  <2> QED
    BY <2>1, <2>2
<1>5. g = Rec(g)
  <2> HIDE DEF Rec
  <2> QED
    BY <1>4
<1>6. DecimalDigits = g
  BY DEF DecimalDigits
<1> HIDE DEF g
<1>7. ASSUME NEW n \in Nat
      PROVE  g[n] = DigitsBy(g, n)
  <2>1. Rec(g)[n] = DigitsBy(g, n)
    BY DEF DigitsBy
  <2> HIDE DEF Rec
  <2> QED
    BY <1>5, <2>1
<1>8. g = [n \in Nat |-> g[n]]
  BY <1>5
<1>9. ASSUME NEW n \in Nat
      PROVE  g[n] \in Seq(DigitChar)
  <2> DEFINE T == {k \in 0..n : \A j \in 0..k : g[j] \in Seq(DigitChar)}
  <2>1. 0 \in T
    <3>1. g[0] = DigitsBy(g, 0)
      BY <1>7
    <3>2. DigitsBy(g, 0) = <<>>
      BY DEF DigitsBy
    <3>3. g[0] \in Seq(DigitChar)
      <4>1. <<>> \in Seq(DigitChar)
        OBVIOUS
      <4> QED
        BY <3>1, <3>2, <4>1
    <3>4. ASSUME NEW j \in 0..0
          PROVE  g[j] \in Seq(DigitChar)
      BY <3>3
    <3> QED
      BY <3>4
  <2>2. ASSUME NEW k \in 0..n, k \in T, k < n
        PROVE  k + 1 \in T
    <3>1. PICK i \in 0..n : i = k + 1 /\ i # 0
      BY <2>2
    <3>2. i \div 10 \in Nat /\ i \div 10 < i /\ i % 10 \in 0..9
      BY <3>1, Tenth
    <3>3. i \div 10 \in 0..k
      BY <3>1, <3>2
    <3>4. PICK s \in Seq(DigitChar), d \in 0..9 : s = g[i \div 10] /\ d = i % 10
      BY <2>2, <3>2, <3>3
    <3>5. Append(s, Digits[d + 1]) \in Seq(DigitChar)
      BY DigitIs, AppendProperties
    <3>6. g[i] \in Seq(DigitChar)
      <4>1. g[i] = DigitsBy(g, i)
        BY <1>7, <3>1
      <4>2. DigitsBy(g, i) = Append(s, Digits[d + 1])
        BY <3>1, <3>4 DEF DigitsBy
      <4> QED
        BY <3>5, <4>1, <4>2
    <3>7. \A j \in 0..i : j = i \/ j \in 0..k
      BY <3>1
    <3> QED
      BY <2>2, <3>1, <3>6, <3>7
  <2>3. \A k \in 0..n : k \in T
    <3> HIDE DEF T
    <3> QED
      BY <2>1, <2>2, UpTo
  <2>4. n \in T /\ n \in 0..n
    BY <2>3
  <2> QED
    BY <2>4
<1> QED
  BY <1>6, <1>7, <1>8, <1>9

\* They are the digits of the number.
LEMMA DigitsMean ==
  ASSUME NEW n \in Nat
  PROVE  NumberOf(DecimalDigits[n]) = n
<1>1. PICK g \in [Nat -> Seq(DigitChar)] :
        g = DecimalDigits /\ \A k \in Nat : g[k] = DigitsBy(g, k)
  BY DecimalIs
<1> DEFINE T == {k \in 0..n : \A j \in 0..k : NumberOf(g[j]) = j}
<1>2. 0 \in T
  <2>1. g[0] = <<>>
    BY <1>1 DEF DigitsBy
  <2>2. NumberOf(g[0]) = 0
    BY <2>1, NumberGrows
  <2>3. ASSUME NEW j \in 0..0
        PROVE  NumberOf(g[j]) = j
    BY <2>2
  <2> QED
    BY <2>3
<1>3. ASSUME NEW k \in 0..n, k \in T, k < n
      PROVE  k + 1 \in T
  <2>1. PICK i \in 0..n : i = k + 1 /\ i # 0
    BY <1>3
  <2>2. PICK m \in Nat, d \in 0..9 : m = i \div 10 /\ d = i % 10 /\ m < i /\ i = 10 * m + d
    <3>1. i \in Nat
      OBVIOUS
    <3>2. /\ i \div 10 \in Nat /\ i \div 10 < i /\ i % 10 \in 0..9
          /\ i = 10 * (i \div 10) + (i % 10)
      BY <2>1, <3>1, Tenth
    <3>3. PICK m \in Nat, d \in 0..9 : m = i \div 10 /\ d = i % 10
      BY <3>2
    <3> QED
      BY <3>2, <3>3
  <2>3. PICK c : c = Digits[d + 1]
    OBVIOUS
  <2>4. c \in DigitChar /\ DigitValue(c) = d
    BY <2>3, DigitIs
  <2>5. g[i] = Append(g[m], c)
    <3>1. g[i] = DigitsBy(g, i)
      BY <1>1
    <3> QED
      BY <2>1, <2>2, <2>3, <3>1 DEF DigitsBy
  <2>6. g[m] \in Seq(DigitChar) /\ NumberOf(g[m]) = m
    <3>1. m \in 0..k
      BY <2>1, <2>2
    <3> QED
      BY <1>3, <2>2, <3>1
  <2>7. NumberOf(g[i]) = 10 * m + d
    BY <2>4, <2>5, <2>6, NumberGrows
  <2>8. ASSUME NEW j \in 0..i
        PROVE  NumberOf(g[j]) = j
    <3>1. j = i \/ j \in 0..k
      BY <2>1
    <3> QED
      BY <1>3, <2>2, <2>7, <3>1
  <2> QED
    BY <2>1, <2>8
<1>4. \A k \in 0..n : k \in T
  <2> HIDE DEF T
  <2> QED
    BY <1>2, <1>3, UpTo
<1>5. n \in 0..n /\ n \in T
  <2>1. n \in 0..n
    OBVIOUS
  <2> HIDE DEF T
  <2> QED
    BY <1>4, <2>1
<1> QED
  BY <1>1, <1>5

\* print_int() prints every int but the smallest as the number it is.
LEMMA PrintedIs ==
  ASSUME NEW v \in (-IntLimit)..(IntLimit - 1), v # -IntLimit
  PROVE  Denoted(print_int(v)) = v
<1>0. v \in Int
  BY CalculatorSizes
<1>1. \A c \in DigitChar : c # "-"
  BY DEF DigitChar
<1>2. CASE v = 0
  <2>1. print_int(v) = <<"0">>
    BY <1>2 DEF print_int
  <2>2. <<"0">>[1] = "0" /\ "0" # "-" /\ <<"0">> = Append(<<>>, "0") /\ <<>> \in Seq(DigitChar)
    OBVIOUS
  <2>3. "0" \in DigitChar /\ DigitValue("0") = 0
    <3>1. PICK d \in 0..9 : d = 0
      OBVIOUS
    <3>2. Digits[d + 1] = "0"
      BY <3>1 DEF Digits
    <3> QED
      BY <3>1, <3>2, DigitIs
  <2>4. NumberOf(Append(<<>>, "0")) = 10 * 0 + 0
    BY <2>2, <2>3, NumberGrows
  <2>5. Denoted(<<"0">>) = NumberOf(<<"0">>)
    BY <2>2 DEF Denoted
  <2> QED
    BY <1>2, <2>1, <2>2, <2>4, <2>5
<1>3. CASE v # 0
  <2>1. PICK n \in Nat : n = Abs(v) /\ n # 0
    BY <1>0, <1>3 DEF Abs
  <2>2. PICK s \in Seq(DigitChar) : s = DecimalDigits[n]
    BY DecimalIs
  <2>3. NumberOf(s) = n
    BY <2>2, DigitsMean
  <2>4. s # <<>>
    BY <2>1, <2>3, NumberGrows
  <2>5. s[1] \in DigitChar /\ s[1] # "-"
    <3>1. 1 \in 1..Len(s)
      BY <2>4, EmptySeq
    <3> QED
      BY <1>1, <3>1, ElementOfSeq
  <2>6. print_int(v) = (IF v < 0 THEN <<"-">> ELSE <<>>) \o s
    BY <1>3, <2>1, <2>2 DEF print_int
  <2>7. CASE v < 0
    <3>1. PICK t : t = <<"-">> \o s
      OBVIOUS
    <3>2. t[1] = "-" /\ Tail(t) = s
      <4>1. PICK C : s \in Seq(C) /\ "-" \in C
        <5>1. s \in Seq(DigitChar \cup {"-"})
          BY SeqMonotonic
        <5> QED
          BY <5>1
      <4>2. <<"-">> \in Seq(C) /\ Len(<<"-">>) = 1 /\ <<"-">>[1] = "-"
        BY <4>1
      <4>3. /\ t \in Seq(C) /\ Len(t) = 1 + Len(s) /\ t[1] = "-"
            /\ \A i \in 1..Len(s) : t[1 + i] = s[i]
        BY <3>1, <4>1, <4>2, ConcatProperties
      <4>4. Tail(t) \in Seq(C) /\ Len(Tail(t)) = Len(s) /\ \A i \in 1..Len(s) : Tail(t)[i] = t[i + 1]
        BY <4>1, <4>3
      <4>5. \A i \in 1..Len(s) : Tail(t)[i] = s[i]
        BY <4>3, <4>4
      <4> QED
        BY <4>1, <4>3, <4>4, <4>5, SeqEqual
    <3>3. Denoted(t) = -n
      BY <2>3, <3>2 DEF Denoted
    <3>4. -n = v
      BY <1>0, <2>1, <2>7 DEF Abs
    <3> QED
      BY <2>6, <2>7, <3>1, <3>3, <3>4
  <2>8. CASE ~(v < 0)
    <3>1. <<>> \o s = s
      BY ConcatEmptySeq
    <3>2. n = v
      BY <1>0, <2>1, <2>8 DEF Abs
    <3>3. Denoted(s) = n
      BY <2>3, <2>5 DEF Denoted
    <3> QED
      BY <2>6, <2>8, <3>1, <3>2, <3>3
  <2> QED
    BY <2>7, <2>8
<1> QED
  BY <1>2, <1>3

\* What calc shows of an expression with a value is the value, unless it ran
\* over its arrays.
LEMMA CalcShows ==
  ASSUME NEW C, Space \in C, NEW text \in Seq(C), Spaced(text),
         NEW v, Meaning(Unspaced(text)) = <<v>>, v # -IntLimit
  PROVE  \/ calculator_main(text).end = "astray"
         \/ /\ calculator_main(text).end = "value"
            /\ Denoted(calculator_main(text).text) = v
<1>1. PICK p : p = infix_to_postfix(text)
  OBVIOUS
<1>2. PICK r : r = evaluate_postfix(p.text)
  OBVIOUS
<1>3. v \in (-IntLimit)..(IntLimit - 1) /\ r.end \in {"value", "astray"} /\ r.value = v
  BY <1>1, <1>2, ExpressionValue
<1>4. Denoted(print_int(v)) = v
  BY <1>3, PrintedIs
<1>5. calculator_main(text) =
        IF p.high > StackSize \/ Len(p.text) + 1 > PostfixSize
        THEN [end |-> "astray", text |-> <<>>]
        ELSE [end |-> r.end, text |-> IF r.end = "value" THEN print_int(r.value) ELSE <<>>]
  BY <1>1, <1>2 DEF calculator_main
<1> QED
  BY <1>3, <1>4, <1>5

-----------------------------------------------------------------------------
(* What runs over its arrays                                               *)

\* The interpreter comes back at once from a program that begins with text.
LEMMA TextReturns ==
  ASSUME NEW code \in Seq(Nat), Len(code) > 0, Len(code) <= BufferSize, code[1] \in TextCell
  PROVE  Returns(code)
<1>1. PICK f : RunsFrom(f, code, 0) /\ interpret_bdx(code) = f[0]
  BY InterpretIs
<1>2. 0 \in 0..Len(code)
  OBVIOUS
<1>3. f[0] = Instruction(f, code, 0)
  BY <1>1, <1>2 DEF RunsFrom
<1>4. Opcode(code, 0) = code[1]
  BY DEF Opcode
<1>5. code[1] \notin {-1, 1, 3}
  <2>1. PICK c \in Nat : c = code[1] /\ c \in TextCell
    BY ElementOfSeq
  <2>2. c = 10 \/ c \in 32..126
    BY <2>1 DEF TextCell
  <2>3. c # -1 /\ c # 1 /\ c # 3
    BY <2>2
  <2> QED
    BY <2>1, <2>3
<1>6. f[0] = [calls |-> <<>>, end |-> "returned"]
  BY <1>3, <1>4, <1>5 DEF Instruction, OPCODE_SYSCALL_PRINT, OPCODE_SYSCALL_WRITE
<1> QED
  BY <1>1, <1>6 DEF Returns

\* What bdfs_read_file() brings of a file fits the buffers, and begins with
\* text unless the file has no bytes or starts in cell 0.
LEMMA ReadText ==
  ASSUME FilesSound, SavedText, NEW i \in Inode, IsFile(file_table, i),
         NEW bytes \in Seq(Nat), bytes = FileBytes(file_table, stored_data, i)
  PROVE  /\ Len(bytes) <= BufferSize
         /\ file_table[i].length # 0 /\ file_table[i].start_sector # 0 =>
              Len(bytes) > 0 /\ bytes[1] \in TextCell
<1>1. TypeOK /\ ContentIntegrity
  BY DEF FilesSound, Inv
<1>2. PICK n \in Nat, s \in Nat : n = file_table[i].length /\ s = file_table[i].start_sector
  BY <1>1 DEF TypeOK, Entry
<1>3. Len(bytes) = n /\ \A k \in 1..n : bytes[k] = stored_data[s * SectorSize + k - 1]
  <2>1. bytes = [k \in 1..n |-> stored_data[s * SectorSize + k - 1]]
    BY <1>2 DEF FileBytes
  <2>2. DOMAIN bytes = 1..n /\ DOMAIN bytes = 1..Len(bytes)
    BY <2>1, LenProperties
  <2>3. Len(bytes) = n
    BY <2>2
  <2> QED
    BY <2>1, <2>3
<1>4. PICK w : w = written[i]
  OBVIOUS
<1>5. /\ n = Len(w)
      /\ \A k \in 1..n : s * SectorSize + k - 1 # 0 =>
           stored_data[s * SectorSize + k - 1] = w[k]
  BY <1>1, <1>2, <1>4 DEF ContentIntegrity
<1>6. w = <<>> \/ w \in TextBuffer
  BY <1>4 DEF SavedText
<1>7. CASE w = <<>>
  BY <1>2, <1>3, <1>5, <1>7, SavesFitBuffers
<1>8. CASE w \in TextBuffer
  <2>1. n <= BufferSize /\ \A k \in 1..n : w[k] \in TextCell
    BY <1>5, <1>8 DEF TextBuffer
  <2>2. ASSUME n # 0, s # 0
        PROVE  n > 0 /\ bytes[1] \in TextCell
    <3>1. 1 \in 1..n
      BY <2>2
    <3>2. PICK m \in Nat : m = s * SectorSize /\ m # 0
      BY <2>2, SizesAssumption
    <3>3. m + 1 - 1 # 0
      BY <3>2
    <3>4. bytes[1] = w[1]
      BY <1>3, <1>5, <3>1, <3>2, <3>3
    <3> QED
      BY <2>1, <2>2, <3>1, <3>4
  <2> QED
    BY <1>2, <1>3, <2>1, <2>2
<1> QED
  BY <1>6, <1>7, <1>8

\* Only cat, calc and a program can run over their arrays.
LEMMA OnlyTheseOverrun ==
  ASSUME ShellInv, CommandsNext, pc' = "astray"
  PROVE  Cat \/ Calc \/ RunProgram
<1>1. ~Boot /\ ~Enter /\ ~NextPrompt
  BY DEF Boot, Enter, NextPrompt
<1>2. ~Touch /\ ~Write /\ ~Rm /\ ~Mv /\ ~Mkdir /\ ~Cd /\ ~Echo /\ ~Report /\ ~Unknown
  BY DEF Touch, Write, Rm, Mv, Mkdir, Cd, Echo, Report, Unknown, Usage, Done
<1>3. ~OpenEditor /\ ~Save /\ ~Quit
  BY DEF OpenEditor, Save, Quit, Usage, Done
<1>4. ~Reboot /\ ~Shutdown /\ ~PowerSwitch
  BY DEF Reboot, Shutdown, PowerSwitch, Restart, Done
<1> QED
  BY <1>1, <1>2, <1>3, <1>4 DEF CommandsNext

\* What bdfs_read_file() returns: nothing, or the bytes of a file.
LEMMA ReadReturns ==
  ASSUME FilesSound, FilesSound', NEW name, bdfs_read_file(name),
         NEW i, i = find_entry_in_dir(file_table, name, current_dir_inode)
  PROVE  /\ ret'.bytes \in Seq(Nat)
         /\ UNCHANGED <<file_table, current_dir_inode>>
         /\ \/ ret'.code # 0 /\ ret'.bytes = <<>>
            \/ /\ ret'.code = 0 /\ ret'.bytes = FileBytes(file_table, stored_data, i)
               /\ i \in Inode /\ i # -1
               /\ IsFile(file_table, i) /\ file_table[i].name = name
<1>1. ret'.bytes \in Seq(Nat)
  BY DEF FilesSound, Inv, TypeOK
<1>2. CASE (i = -1 /\ Refuse(-1)) \/ (i # -1 /\ file_table[i].type # "file" /\ Refuse(-2))
  <2>1. ret'.code \in {-1, -2} /\ ret'.bytes = <<>> /\ UNCHANGED <<file_table, current_dir_inode>>
    BY <1>2 DEF Refuse, Return
  <2> QED
    BY <1>1, <2>1
<1>3. CASE /\ i # -1 /\ file_table[i].type = "file"
           /\ ret' = [code |-> 0, bytes |-> FileBytes(file_table, stored_data, i)]
           /\ UNCHANGED <<up, file_table, current_dir_inode, storage, written>>
  <2>1. i \in Inode /\ Live(file_table, i) /\ file_table[i].name = name
    BY <1>3, FindEntryResult
  <2>2. ret'.code = 0 /\ ret'.bytes = FileBytes(file_table, stored_data, i)
    BY <1>3
  <2> QED
    BY <1>1, <1>3, <2>1, <2>2 DEF IsFile
<1> QED
  BY <1>2, <1>3 DEF bdfs_read_file

\* cat has room for every file.
LEMMA CatFits ==
  ASSUME FilesSound, FilesSound', SavedText, Cat
  PROVE  pc' # "astray"
<1> SUFFICES ASSUME pc' = "astray"
             PROVE  FALSE
  OBVIOUS
<1>1. PICK name : bdfs_read_file(name) /\ Len(ret'.bytes) > BufferSize
  <2>1. ~Usage
    BY DEF Usage, Done
  <2>2. bdfs_read_file(NameOf(Second.token))
    BY <2>1, Zenon DEF Cat
  <2>3. pc' = IF Len(ret'.bytes) > BufferSize THEN "astray" ELSE "done"
    BY <2>1, Zenon DEF Cat
  <2>4. Len(ret'.bytes) > BufferSize
    BY <2>3
  <2> QED
    BY <2>2, <2>4, Zenon
<1>2. PICK i : i = find_entry_in_dir(file_table, name, current_dir_inode)
  OBVIOUS
<1>3. PICK bytes \in Seq(Nat) : bytes = ret'.bytes
  BY <1>1, <1>2, ReadReturns
<1>4. \/ bytes = <<>>
      \/ i \in Inode /\ IsFile(file_table, i) /\ bytes = FileBytes(file_table, stored_data, i)
  BY <1>1, <1>2, <1>3, ReadReturns
<1>5. Len(bytes) <= BufferSize
  <2>1. CASE bytes = <<>>
    BY <2>1, SavesFitBuffers
  <2>2. CASE bytes # <<>>
    BY <1>4, <2>2, ReadText
  <2> QED
    BY <2>1, <2>2
<1>6. Len(bytes) > BufferSize /\ Len(bytes) \in Nat
  BY <1>1, <1>3
<1> QED
  BY <1>5, <1>6, SavesFitBuffers

\* calc runs over its arrays for a long text only.
LEMMA CalcOverruns ==
  ASSUME ShellInv, Calc, pc' = "astray"
  PROVE  /\ command' = command /\ HasWord(command, 1) /\ TheWord(command, 1) = <<"calc">>
         /\ Len(BehindWord(command, 1)) > StackSize
<1>1. First.token = <<"calc">>
  BY DEF Calc, Run
<1>2. PICK text : text = RestAfterFirst
  OBVIOUS
<1>3. /\ text # Null /\ command' = command
      /\ pc' = IF calculator_main(text).end = "value" THEN "done" ELSE calculator_main(text).end
  BY <1>2 DEF Calc, Usage, Done
<1>4. calculator_main(text).end = "astray"
  BY <1>3
<1>5. First.token # Null
  BY <1>1 DEF Null
<1>6. IsWord(command, 1, First) /\ RestAfterFirst = First.state
  BY <1>5, CommandType, Tokens
<1>7. /\ HasWord(command, 1) /\ TheWord(command, 1) = <<"calc">>
      /\ text = BehindWord(command, 1) /\ text \in Seq(Symbol)
  BY <1>1, <1>2, <1>6 DEF IsWord
<1>8. PICK C : Space \in C /\ text \in Seq(C)
  <2>1. Symbol \subseteq Symbol \cup {Space}
    OBVIOUS
  <2>2. text \in Seq(Symbol \cup {Space})
    BY <1>7, <2>1, SeqMonotonic
  <2> QED
    BY <2>2
<1>9. ~(Len(text) <= StackSize)
  BY <1>3, <1>4, <1>8, CalcFits DEF Null
<1>10. Len(text) > StackSize
  BY <1>7, <1>9, CalculatorSizes
<1> QED
  BY <1>3, <1>7, <1>10

\* A program runs astray only as an empty file or one that starts in cell 0.
LEMMA ProgramOverruns ==
  ASSUME FilesSound, FilesSound', SavedText, RunProgram, pc' = "astray",
         command \in Seq(Symbol),
         NEW i, i = find_entry_in_dir(file_table, Last(command), current_dir_inode)
  PROVE  /\ UNCHANGED <<command, file_table, current_dir_inode>>
         /\ Len(command) = 1 /\ i # -1
         /\ file_table[i].length = 0 \/ file_table[i].start_sector = 0
<1>1. PICK name : name = NameOf(command) /\ bdfs_read_file(name)
  <2>1. bdfs_read_file(NameOf(command))
    BY Zenon DEF RunProgram
  <2> QED
    BY <2>1, Zenon
<1>2. PICK j : j = find_entry_in_dir(file_table, name, current_dir_inode)
  OBVIOUS
<1>3. PICK bytes : bytes = ret'.bytes
  OBVIOUS
<1>4. ret'.code = 0 /\ ~Returns(bytes) /\ command' = command
  BY <1>3 DEF RunProgram, Done
<1>5. bytes \in Seq(Nat) /\ UNCHANGED <<file_table, current_dir_inode>>
  BY <1>1, <1>2, <1>3, ReadReturns
<1>6. /\ bytes = FileBytes(file_table, stored_data, j)
      /\ j \in Inode /\ j # -1 /\ IsFile(file_table, j) /\ file_table[j].name = name
  BY <1>1, <1>2, <1>3, <1>4, ReadReturns
<1>7. name # "other"
  BY <1>6 DEF SavedText
<1>8. Len(command) = 1 /\ name = command[1]
  BY <1>1, <1>7 DEF NameOf
<1>9. i = j
  BY <1>2, <1>8 DEF Last
<1>10. file_table[j].length = 0 \/ file_table[j].start_sector = 0
  <2> SUFFICES ASSUME file_table[j].length # 0, file_table[j].start_sector # 0
               PROVE  FALSE
    OBVIOUS
  <2>1. Len(bytes) <= BufferSize /\ Len(bytes) > 0 /\ bytes[1] \in TextCell
    BY <1>5, <1>6, ReadText
  <2> QED
    BY <1>4, <1>5, <2>1, TextReturns
<1> QED
  BY <1>4, <1>5, <1>6, <1>8, <1>9, <1>10

\* No command runs over its arrays but calc of a long text, and a program that
\* is an empty file or starts in the cell the file table spills into.
THEOREM OverrunsAreKnown == CommandsSpec => []OverrunsNeedLength
<1>1. CommandsInit => OverrunsNeedLength
  BY DEF CommandsInit, OverrunsNeedLength
<1>2. ShellInv /\ FilesSound /\ FilesSound' /\ SavedText /\ OverrunsNeedLength
        /\ [CommandsNext]_cmdvars => OverrunsNeedLength'
  <2> SUFFICES ASSUME ShellInv, FilesSound, FilesSound', SavedText, OverrunsNeedLength,
                      [CommandsNext]_cmdvars, pc' = "astray"
               PROVE  OverrunsNeedLength'
    BY DEF OverrunsNeedLength
  <2>1. CASE UNCHANGED cmdvars
    BY <2>1 DEF OverrunsNeedLength, cmdvars, vars
  <2>2. CASE CommandsNext
    <3>1. Cat \/ Calc \/ RunProgram
      BY <2>2, OnlyTheseOverrun
    <3>2. CASE Cat
      BY <3>2, CatFits
    <3>3. CASE Calc
      <4>1. /\ command' = command /\ HasWord(command, 1) /\ TheWord(command, 1) = <<"calc">>
            /\ Len(BehindWord(command, 1)) > StackSize
        BY <3>3, CalcOverruns
      <4> QED
        BY <4>1 DEF OverrunsNeedLength
    <3>4. CASE RunProgram
      <4>1. PICK i : i = find_entry_in_dir(file_table, Last(command), current_dir_inode)
        OBVIOUS
      <4>2. /\ UNCHANGED <<command, file_table, current_dir_inode>>
            /\ Len(command) = 1 /\ i # -1
            /\ file_table[i].length = 0 \/ file_table[i].start_sector = 0
        BY <3>4, <4>1, CommandType, ProgramOverruns
      <4> QED
        BY <4>1, <4>2 DEF OverrunsNeedLength
    <3> QED
      BY <3>1, <3>2, <3>3, <3>4
  <2> QED
    BY <2>1, <2>2
<1> QED
  BY <1>1, <1>2, ShellInvariance, PTL DEF CommandsSpec

-----------------------------------------------------------------------------
(* What calc prints                                                        *)

\* A result stays on the screen while the shell stays where calc left it.
ResultPlace == shown.msg = "result" => pc \in {"done", "astray", "exception"}

\* calc shows a result of its text.
LEMMA CalcResult ==
  ASSUME ShellInv, Calc
  PROVE  /\ pc' \in {"done", "astray", "exception"}
         /\ shown'.msg = "result" =>
              \E text \in Seq(Symbol) :
                /\ text = BehindWord(command, 1) /\ command' = command
                /\ shown'.text = calculator_main(text).text
                /\ pc' = IF calculator_main(text).end = "value" THEN "done"
                         ELSE calculator_main(text).end
<1>1. First.token = <<"calc">>
  BY DEF Calc, Run
<1>2. PICK text : text = RestAfterFirst
  OBVIOUS
<1>3. First.token # Null
  BY <1>1 DEF Null
<1>4. IsWord(command, 1, First) /\ RestAfterFirst = First.state
  BY <1>3, CommandType, Tokens
<1>5. text = BehindWord(command, 1) /\ text \in Seq(Symbol)
  BY <1>2, <1>4 DEF IsWord
<1>6. CASE Usage
  BY <1>6 DEF Usage, Done, Say
<1>7. CASE /\ Say("result", calculator_main(text).text) /\ command' = command
           /\ pc' = IF calculator_main(text).end = "value" THEN "done"
                    ELSE calculator_main(text).end
  <2>1. calculator_main(text).end \in {"value", "astray", "exception"}
    <3>1. \A p : evaluate_postfix(p).end \in {"value", "astray", "exception"}
      BY DEF evaluate_postfix
    <3> QED
      BY <3>1 DEF calculator_main
  <2> QED
    BY <1>5, <1>7, <2>1 DEF Say
<1> QED
  BY <1>2, <1>6, <1>7 DEF Calc

\* No other command shows a result.
LEMMA OnlyCalcShows ==
  ASSUME CommandsNext, ~Calc, shown'.msg = "result"
  PROVE  UNCHANGED shown /\ pc \in {"boot", "prompt", "edit"}
<1>1. ASSUME NEW msg, NEW text, Say(msg, text)
      PROVE  msg = "result"
  <2>1. [msg |-> msg, text |-> text].msg = msg
    OBVIOUS
  <2> QED
    BY <1>1, <2>1 DEF Say
<1>2. shown' # Nothing
  <2>1. Nothing.msg = ""
    BY DEF Nothing
  <2> QED
    BY <2>1
<1>3. \A text : ~Say("report", text) /\ ~Say("usage", text) /\ ~Say("", text)
  BY <1>1
<1>4. ~Usage
  BY <1>3 DEF Usage
<1>5. ~Touch /\ ~Write /\ ~Cat /\ ~Rm
  BY <1>1, <1>4 DEF Touch, Write, Cat, Rm
<1>6. ~Mv /\ ~Mkdir /\ ~Cd
  <2>1. \A code : /\ RenameMessage(code) # "result" /\ MkdirMessage(code) # "result"
                  /\ CdMessage(code) # "result"
    BY DEF RenameMessage, MkdirMessage, CdMessage
  <2> QED
    BY <1>1, <1>4, <2>1 DEF Mv, Mkdir, Cd
<1>7. ~Echo /\ ~Report /\ ~Unknown
  BY <1>1, <1>3 DEF Echo, Report, Unknown
<1>8. ~OpenEditor /\ ~RunProgram
  BY <1>1, <1>2, <1>4 DEF OpenEditor, RunProgram
<1>9. ~Reboot /\ ~Shutdown /\ ~PowerSwitch /\ ~NextPrompt
  BY <1>2, <1>3 DEF Reboot, Shutdown, PowerSwitch, Restart, NextPrompt
<1>10. Boot \/ Enter \/ Save \/ Quit
  BY <1>5, <1>6, <1>7, <1>8, <1>9 DEF CommandsNext
<1> QED
  BY <1>10 DEF Boot, Enter, Save, Quit

\* The number printed is the value.
LEMMA CalcPrints ==
  ASSUME ShellInv, Calc, shown'.msg = "result"
  PROVE  CalcIsRight'
<1>1. PICK text \in Seq(Symbol) :
        /\ text = BehindWord(command, 1) /\ command' = command
        /\ shown'.text = calculator_main(text).text
        /\ pc' = IF calculator_main(text).end = "value" THEN "done"
                 ELSE calculator_main(text).end
  BY CalcResult
<1>2. PICK C : Space \in C /\ text \in Seq(C)
  <2>1. Symbol \subseteq Symbol \cup {Space}
    OBVIOUS
  <2>2. text \in Seq(Symbol \cup {Space})
    BY <2>1, SeqMonotonic
  <2> QED
    BY <2>2
<1>3. ASSUME NEW m, m = Meaning(Unspaced(text)), Spaced(text), m \notin {<<>>, <<-IntLimit>>}
      PROVE  (pc' = "done" /\ Denoted(shown'.text) = m[1]) \/ pc' = "astray"
  <2>1. PICK v : m = <<v>> /\ v # -IntLimit
    <3>1. PICK e \in Seq(C) : e = Unspaced(text)
      BY <1>2, UnspacedTyped
    <3>2. m \in Value
      BY <1>3, <3>1, MeaningValue
    <3>3. PICK v : m = <<v>>
      BY <1>3, <3>2 DEF Value
    <3>4. v # -IntLimit
      BY <1>3, <3>3
    <3> QED
      BY <3>3, <3>4
  <2>2. m[1] = v
    BY <2>1
  <2>3. \/ calculator_main(text).end = "astray"
        \/ /\ calculator_main(text).end = "value"
           /\ Denoted(calculator_main(text).text) = v
    BY <1>2, <1>3, <2>1, CalcShows
  <2> QED
    BY <1>1, <2>2, <2>3
<1>4. BehindWord(command, 1)' = text
  BY <1>1 DEF BehindWord, EndOf, StartOf, WordStarts
<1> QED
  BY <1>3, <1>4 DEF CalcIsRight

\* calc prints what the expression means by the grammar of arithmetic, however
\* its operators nest and wherever its spaces are, unless it is too long for
\* the arrays: for every size of them and every width of an int.
THEOREM CalcCorrect == CommandsSpec => []CalcIsRight
<1>1. CommandsInit => CalcIsRight /\ ResultPlace
  <2>1. Nothing.msg = "" /\ "" # "result"
    BY DEF Nothing
  <2> QED
    BY <2>1 DEF CommandsInit, CalcIsRight, ResultPlace
<1>2. ShellInv /\ CalcIsRight /\ ResultPlace /\ [CommandsNext]_cmdvars
        => CalcIsRight' /\ ResultPlace'
  <2> SUFFICES ASSUME ShellInv, CalcIsRight, ResultPlace, [CommandsNext]_cmdvars,
                      shown'.msg = "result"
               PROVE  CalcIsRight' /\ ResultPlace'
    BY DEF CalcIsRight, ResultPlace
  <2>1. CASE UNCHANGED cmdvars
    BY <2>1 DEF CalcIsRight, ResultPlace, cmdvars
  <2>2. CASE Calc
    BY <2>2, CalcPrints, CalcResult DEF ResultPlace
  <2>3. CASE CommandsNext /\ ~Calc
    <3>1. UNCHANGED shown /\ pc \in {"boot", "prompt", "edit"}
      BY <2>3, OnlyCalcShows
    <3> QED
      BY <3>1 DEF ResultPlace
  <2> QED
    BY <2>1, <2>2, <2>3
<1> QED
  BY <1>1, <1>2, ShellInvariance, PTL DEF CommandsSpec
=============================================================================
