----------------------------- MODULE FoldTheorems -----------------------------
(***************************************************************************)
(* Induction over numbers, what recursions over sequences compute, and the *)
(* flattening and slicing of sequences.  A predicate is given as the set of what       *)
(* satisfies it and a step as a function, since lemmas have no operators   *)
(* for parameters.                                                         *)
(***************************************************************************)
EXTENDS SequencesExt, Integers, SequenceTheorems, WellFoundedInduction, TLAPS

LEMMA SmallestNumber ==
  ASSUME NEW numbers \in SUBSET Nat, numbers # {}
  PROVE  \E i \in numbers : \A j \in numbers : i <= j
<1>1. \E i \in numbers : \A j \in numbers : ~(<<j, i>> \in OpToRel(<, Nat))
  BY NatLessThanWellFounded, WFMin
<1>2. ASSUME NEW i \in numbers, NEW j \in numbers, ~(<<j, i>> \in OpToRel(<, Nat))
      PROVE  i <= j
  <2>1. i \in Nat /\ j \in Nat
    OBVIOUS
  <2>2. ~(j < i)
    BY <1>2, <2>1 DEF OpToRel
  <2> QED
    BY <2>1, <2>2
<1> QED
  BY <1>1, <1>2

(* What is true of 0 and, if of a number, of the next one. *)
LEMMA CountedNumbers ==
  ASSUME NEW n \in Nat, NEW numbers,
         0 \in numbers, \A i \in 0 .. n - 1 : i \in numbers => i + 1 \in numbers
  PROVE  \A i \in 0 .. n : i \in numbers
<1> DEFINE others == {i \in 0 .. n : i \notin numbers}
<1> SUFFICES ASSUME others # {} PROVE FALSE
  OBVIOUS
<1>1. PICK i \in others : \A j \in others : i <= j
  <2>1. others \in SUBSET Nat
    OBVIOUS
  <2> HIDE DEF others
  <2> QED
    BY <2>1, SmallestNumber
<1>2. i # 0 /\ i \in 0 .. n
  OBVIOUS
<1>3. i - 1 \in 0 .. n - 1 /\ i - 1 \in numbers
  BY <1>1, <1>2
<1> QED
  BY <1>2, <1>3

LEMMA LargestNumber ==
  ASSUME NEW n \in Nat, NEW numbers \in SUBSET (1 .. n), numbers # {}
  PROVE  Max(numbers) \in numbers /\ \A i \in numbers : i <= Max(numbers)
<1> DEFINE below == {n - i : i \in numbers}
<1>0. \A i \in numbers : i \in Nat /\ n - i \in Nat
  OBVIOUS
<1>1. PICK d \in below : \A e \in below : d <= e
  <2>1. below \in SUBSET Nat /\ below # {}
    BY <1>0
  <2> HIDE DEF below
  <2> QED
    BY <2>1, SmallestNumber
<1>2. PICK i \in numbers : d = n - i
  OBVIOUS
<1>3. \A j \in numbers : i >= j
  <2>1. ASSUME NEW j \in numbers
        PROVE  n - i <= n - j
    BY <1>1, <1>2
  <2> QED
    BY <1>0, <2>1
<1>4. \E k \in numbers : \A j \in numbers : k >= j
  BY <1>3
<1>5. Max(numbers) \in numbers /\ \A j \in numbers : Max(numbers) >= j
  BY <1>4 DEF Max
<1> QED
  BY <1>5

------------------------------------------------------------------------------
(* Recursion over the numbers up to n. *)
IsStepped(f, n, next) == \A i \in 1 .. n : f[i] = next[i][f[i - 1]]

IsRun(f, T, n, base, next) ==
  /\ f \in [0 .. n -> T]
  /\ f[0] = base
  /\ \A i \in 1 .. n : f[i] = next[i][f[i - 1]]

LEMMA RunExists ==
  ASSUME NEW T, NEW n \in Nat, NEW base \in T, NEW next \in [1 .. n -> [T -> T]]
  PROVE  \E f : IsRun(f, T, n, base, next)
<1> DEFINE numbers == {m \in 0 .. n : \E f : IsRun(f, T, m, base, next)}
<1>1. 0 \in numbers
  <2>1. IsRun([i \in 0 .. 0 |-> base], T, 0, base, next)
    BY DEF IsRun
  <2> QED
    BY <2>1
<1>2. ASSUME NEW m \in 0 .. n - 1, m \in numbers
      PROVE  m + 1 \in numbers
  <2>1. PICK f : IsRun(f, T, m, base, next)
    BY <1>2
  <2>0. m \in Nat /\ m + 1 \in 1 .. n
    OBVIOUS
  <2> DEFINE g == [i \in 0 .. m + 1 |-> IF i = m + 1 THEN next[m + 1][f[m]] ELSE f[i]]
  <2>2. next[m + 1][f[m]] \in T
    BY <2>0, <2>1 DEF IsRun
  <2>3. IsRun(g, T, m + 1, base, next)
    <3>1. g \in [0 .. m + 1 -> T] /\ g[0] = base
      BY <2>0, <2>1, <2>2 DEF IsRun
    <3>2. ASSUME NEW i \in 1 .. m + 1
          PROVE  g[i] = next[i][g[i - 1]]
      <4>1. g[i - 1] = f[i - 1] /\ i \in 0 .. m + 1
        BY <2>0
      <4>2. CASE i = m + 1
        BY <2>0, <4>1, <4>2
      <4>3. CASE i # m + 1
        <5>1. i \in 1 .. m
          BY <2>0, <4>3
        <5>2. f[i] = next[i][f[i - 1]]
          BY <2>1, <5>1 DEF IsRun
        <5>3. g[i] = f[i]
          BY <4>1, <4>3
        <5> QED
          BY <4>1, <5>2, <5>3, Zenon
      <4> QED
        BY <4>2, <4>3
    <3> QED
      BY <3>1, <3>2 DEF IsRun
  <2>4. \E h : IsRun(h, T, m + 1, base, next)
    BY <2>3
  <2> QED
    BY <2>4
<1> HIDE DEF numbers
<1>3. \A m \in 0 .. n : m \in numbers
  BY <1>1, <1>2, CountedNumbers
<1>4. n \in numbers
  BY <1>3
<1> QED
  BY <1>4 DEF numbers

------------------------------------------------------------------------------
(* Recursion over the sets of numbers up to n, the largest number last, as *)
(* folds over sequences are defined.                                       *)
IsFold(it, T, n, base, next) ==
  /\ it \in [SUBSET (1 .. n) -> T]
  /\ \A s \in SUBSET (1 .. n) :
       it[s] = IF s = {} THEN base ELSE next[Max(s)][it[s \ {Max(s)}]]

LEMMA FoldExists ==
  ASSUME NEW T, NEW n \in Nat, NEW base \in T, NEW next \in [1 .. n -> [T -> T]]
  PROVE  \E it : IsFold(it, T, n, base, next)
<1> DEFINE numbers == {m \in 0 .. n : \E it : IsFold(it, T, m, base, next)}
<1>1. 0 \in numbers
  <2> DEFINE it == [s \in SUBSET (1 .. 0) |-> base]
  <2>1. \A s \in SUBSET (1 .. 0) : s = {}
    OBVIOUS
  <2>2. IsFold(it, T, 0, base, next)
    BY <2>1 DEF IsFold
  <2> HIDE DEF it
  <2> QED
    BY <2>2
<1>2. ASSUME NEW m \in 0 .. n - 1, m \in numbers
      PROVE  m + 1 \in numbers
  <2>1. PICK f : IsFold(f, T, m, base, next)
    BY <1>2
  <2>2. \A s \in SUBSET (1 .. m + 1) : s \ {m + 1} \in SUBSET (1 .. m)
    OBVIOUS
  <2>3. \A s \in SUBSET (1 .. m) : s \in SUBSET (1 .. m + 1) /\ f[s] \in T
    <3>1. 1 .. m \subseteq 1 .. m + 1
      OBVIOUS
    <3> QED
      BY <2>1, <3>1 DEF IsFold
  <2> DEFINE g == [s \in SUBSET (1 .. m + 1) |->
                     IF m + 1 \in s THEN next[m + 1][f[s \ {m + 1}]] ELSE f[s]]
  <2>4. m + 1 \in 1 .. n
    OBVIOUS
  <2>5. ASSUME NEW s \in SUBSET (1 .. m + 1)
        PROVE  g[s] \in T
    <3>1. CASE m + 1 \in s
      <4>1. f[s \ {m + 1}] \in T
        BY <2>2, <2>3
      <4> QED
        BY <2>4, <3>1, <4>1
    <3>2. CASE m + 1 \notin s
      <4>1. s \in SUBSET (1 .. m)
        BY <3>2
      <4> QED
        BY <2>3, <3>2, <4>1
    <3> QED
      BY <3>1, <3>2
  <2>6. ASSUME NEW s \in SUBSET (1 .. m + 1)
        PROVE  g[s] = IF s = {} THEN base ELSE next[Max(s)][g[s \ {Max(s)}]]
    <3>1. CASE m + 1 \in s
      <4>1. Max(s) = m + 1
        <5>1. m + 1 \in Nat /\ s # {}
          BY <3>1
        <5>2. Max(s) \in s /\ \A i \in s : i <= Max(s)
          BY <5>1, LargestNumber
        <5>3. m + 1 <= Max(s) /\ Max(s) \in 1 .. m + 1
          BY <3>1, <5>2
        <5> QED
          BY <5>1, <5>3
      <4>2. s \ {m + 1} \in SUBSET (1 .. m) /\ m + 1 \notin s \ {m + 1}
        OBVIOUS
      <4>3. g[s \ {m + 1}] = f[s \ {m + 1}]
        BY <2>3, <4>2
      <4>4. g[s] = next[m + 1][f[s \ {m + 1}]] /\ s # {}
        BY <3>1
      <4> HIDE DEF g
      <4> QED
        BY <4>1, <4>3, <4>4
    <3>2. CASE m + 1 \notin s
      <4>1. s \in SUBSET (1 .. m)
        BY <3>2
      <4>2. g[s] = f[s]
        BY <3>2
      <4>3. f[s] = IF s = {} THEN base ELSE next[Max(s)][f[s \ {Max(s)}]]
        BY <2>1, <4>1 DEF IsFold
      <4>4. s \ {Max(s)} \in SUBSET (1 .. m + 1) /\ m + 1 \notin s \ {Max(s)}
        BY <3>2
      <4>5. g[s \ {Max(s)}] = f[s \ {Max(s)}]
        BY <4>4
      <4> HIDE DEF g
      <4> QED
        BY <4>2, <4>3, <4>5
    <3> QED
      BY <3>1, <3>2
  <2>7. g \in [SUBSET (1 .. m + 1) -> T]
    <3>1. g = [s \in SUBSET (1 .. m + 1) |-> g[s]]
      OBVIOUS
    <3> HIDE DEF g
    <3> QED
      BY <2>5, <3>1
  <2> HIDE DEF g
  <2>8. IsFold(g, T, m + 1, base, next)
    BY <2>6, <2>7 DEF IsFold
  <2>9. m + 1 \in 0 .. n
    OBVIOUS
  <2> QED
    BY <2>8, <2>9
<1> HIDE DEF numbers
<1>3. \A m \in 0 .. n : m \in numbers
  BY <1>1, <1>2, CountedNumbers
<1>4. n \in numbers
  BY <1>3
<1> QED
  BY <1>4 DEF numbers

LEMMA MaxOfRange ==
  ASSUME NEW i \in Nat, i # 0
  PROVE  Max(1 .. i) = i /\ (1 .. i) \ {i} = 1 .. i - 1 /\ 1 .. i # {}
<1>1. Max(1 .. i) \in 1 .. i /\ \A j \in 1 .. i : j <= Max(1 .. i)
  <2>1. 1 .. i # {}
    OBVIOUS
  <2> QED
    BY <2>1, LargestNumber
<1>2. (1 .. i) \ {i} = 1 .. i - 1
  OBVIOUS
<1> QED
  BY <1>1, <1>2

(* A fold computes a run of its steps, whatever it gives for other sets.    *)
FoldsTo(it, T, n, base, next) ==
  \A s \in SUBSET (1 .. n) :
    IF s = {} THEN it[s] = base
    ELSE it[s \ {Max(s)}] \in T => it[s] = next[Max(s)][it[s \ {Max(s)}]]

LEMMA FoldIsRun ==
  ASSUME NEW T, NEW n \in Nat, NEW base \in T, NEW next \in [1 .. n -> [T -> T]],
         NEW it, FoldsTo(it, T, n, base, next)
  PROVE  \E f : IsRun(f, T, n, base, next) /\ it[1 .. n] = f[n]
<1>1. PICK f : IsRun(f, T, n, base, next)
  BY RunExists
<1> DEFINE numbers == {i \in 0 .. n : it[1 .. i] = f[i]}
<1>2. 0 \in numbers
  <2>1. 1 .. 0 = {} /\ {} \in SUBSET (1 .. n)
    OBVIOUS
  <2>2. it[{}] = base
    BY <2>1 DEF FoldsTo
  <2> QED
    BY <1>1, <2>1, <2>2 DEF IsRun
<1>3. ASSUME NEW i \in 0 .. n - 1, i \in numbers
      PROVE  i + 1 \in numbers
  <2>1. i + 1 \in Nat /\ i + 1 # 0 /\ i + 1 \in 1 .. n /\ (i + 1) - 1 = i
    OBVIOUS
  <2>2. Max(1 .. i + 1) = i + 1 /\ (1 .. i + 1) \ {i + 1} = 1 .. i /\ 1 .. i + 1 # {}
    BY <2>1, MaxOfRange
  <2>3. 1 .. i + 1 \in SUBSET (1 .. n)
    BY <2>1
  <2>4. it[1 .. i] = f[i] /\ f[i] \in T /\ f[i + 1] = next[i + 1][f[i]]
    BY <1>1, <1>3, <2>1 DEF IsRun
  <2>5. it[1 .. i + 1] = next[i + 1][it[1 .. i]]
    BY <2>2, <2>3, <2>4 DEF FoldsTo
  <2> QED
    BY <2>1, <2>4, <2>5
<1> HIDE DEF numbers
<1>4. \A i \in 0 .. n : i \in numbers
  BY <1>2, <1>3, CountedNumbers
<1> QED
  BY <1>1, <1>4 DEF numbers

LEMMA RunsAgree ==
  ASSUME NEW n \in Nat, NEW next, NEW f, NEW g,
         f[0] = g[0], IsStepped(f, n, next), IsStepped(g, n, next)
  PROVE  \A i \in 0 .. n : f[i] = g[i]
<1> DEFINE numbers == {i \in 0 .. n : f[i] = g[i]}
<1>1. 0 \in numbers
  OBVIOUS
<1>2. ASSUME NEW i \in 0 .. n - 1, i \in numbers
      PROVE  i + 1 \in numbers
  <2>1. i + 1 \in 1 .. n /\ (i + 1) - 1 = i /\ f[i] = g[i]
    BY <1>2
  <2>2. f[i + 1] = next[i + 1][f[i]] /\ g[i + 1] = next[i + 1][g[i]]
    BY <2>1 DEF IsStepped
  <2> QED
    BY <2>1, <2>2
<1> HIDE DEF numbers
<1>3. \A i \in 0 .. n : i \in numbers
  BY <1>1, <1>2, CountedNumbers
<1> QED
  BY <1>3 DEF numbers

------------------------------------------------------------------------------
(* Flattening goes over the sequences one by one. *)
Longer(S, seqs) == [i \in 1 .. Len(seqs) |-> [t \in Seq(S) |-> t \o seqs[i]]]

LEMMA FlattenRun ==
  ASSUME NEW S, NEW seqs \in Seq(Seq(S))
  PROVE  \E f : /\ IsRun(f, Seq(S), Len(seqs), <<>>, Longer(S, seqs))
                /\ FlattenSeq(seqs) = f[Len(seqs)]
<1> DEFINE n == Len(seqs)
           Step(h) == [i \in 1 .. Len(seqs) |-> IF i = 1 THEN seqs[i] ELSE h[i - 1] \o seqs[i]]
           flatten == CHOOSE h : h = Step(h)
<1>1. n \in Nat /\ \A i \in 1 .. n : seqs[i] \in Seq(S)
  OBVIOUS
<1>2. Longer(S, seqs) \in [1 .. n -> [Seq(S) -> Seq(S)]]
  BY <1>1 DEF Longer
<1>3. PICK f : IsRun(f, Seq(S), n, <<>>, Longer(S, seqs))
  <2>1. <<>> \in Seq(S)
    OBVIOUS
  <2> QED
    BY <1>1, <1>2, <2>1, RunExists
<1>4. /\ f[0] = <<>> /\ \A i \in 0 .. n : f[i] \in Seq(S)
      /\ \A i \in 1 .. n : f[i] = f[i - 1] \o seqs[i]
  <2>1. \A i \in 1 .. n : i - 1 \in 0 .. n
    BY <1>1
  <2> QED
    BY <1>1, <1>3, <2>1 DEF IsRun, Longer
<1>5. CASE n = 0
  <2>1. FlattenSeq(seqs) = <<>>
    BY <1>5 DEF FlattenSeq
  <2> QED
    BY <1>3, <1>4, <1>5, <2>1
<1>6. CASE n # 0
  <2>1. FlattenSeq(seqs) = flatten[n]
    BY <1>6 DEF FlattenSeq
  <2> DEFINE g == [i \in 1 .. n |-> f[i]]
  <2>2. g = Step(g)
    <3>1. ASSUME NEW i \in 1 .. n
          PROVE  f[i] = IF i = 1 THEN seqs[i] ELSE g[i - 1] \o seqs[i]
      <4>1. CASE i = 1
        <5>1. seqs[i] \in Seq(S) /\ i - 1 = 0
          BY <1>1, <4>1
        <5>2. <<>> \o seqs[i] = seqs[i]
          BY <5>1, ConcatEmptySeq
        <5>3. f[i] = f[0] \o seqs[i] /\ f[0] = <<>>
          BY <1>4, <5>1
        <5> QED
          BY <4>1, <5>2, <5>3
      <4>2. CASE i # 1
        <5>1. i - 1 \in 1 .. n
          BY <1>1, <4>2
        <5> QED
          BY <1>4, <4>2, <5>1
      <4> QED
        BY <4>1, <4>2
    <3> QED
      BY <3>1
  <2> HIDE DEF g
  <2>3. flatten = Step(flatten)
    <3>1. \E h : h = Step(h)
      BY <2>2
    <3> HIDE DEF Step
    <3> QED
      BY <3>1
  <2> HIDE DEF flatten
  <2> DEFINE numbers == {i \in 0 .. n : i = 0 \/ flatten[i] = f[i]}
  <2>4. 0 \in numbers
    BY <1>1
  <2>5. ASSUME NEW i \in 0 .. n - 1, i \in numbers
        PROVE  i + 1 \in numbers
    <3>1. i + 1 \in 1 .. n /\ (i + 1) - 1 = i
      BY <1>1
    <3>2. flatten[i + 1] = IF i + 1 = 1 THEN seqs[i + 1] ELSE flatten[i] \o seqs[i + 1]
      BY <2>3, <3>1
    <3>3. f[i + 1] = f[i] \o seqs[i + 1]
      BY <1>4, <3>1
    <3>4. flatten[i + 1] = f[i + 1]
      <4>1. CASE i = 0
        <5>1. <<>> \o seqs[i + 1] = seqs[i + 1]
          BY <1>1, <3>1, ConcatEmptySeq
        <5>2. i + 1 = 1 /\ f[i] = <<>>
          BY <1>4, <4>1
        <5>3. flatten[i + 1] = seqs[i + 1]
          BY <3>2, <5>2
        <5>4. f[i + 1] = <<>> \o seqs[i + 1]
          BY <3>3, <5>2
        <5> QED
          BY <5>1, <5>3, <5>4
      <4>2. CASE i # 0
        <5>1. flatten[i] = f[i] /\ i + 1 # 1
          BY <2>5, <4>2
        <5> QED
          BY <3>2, <3>3, <5>1
      <4> QED
        BY <4>1, <4>2
    <3> QED
      BY <3>1, <3>4
  <2> HIDE DEF numbers
  <2>6. \A i \in 0 .. n : i \in numbers
    BY <1>1, <2>4, <2>5, CountedNumbers
  <2>7. n \in numbers
    BY <1>1, <2>6
  <2>8. FlattenSeq(seqs) = f[n]
    BY <1>6, <2>1, <2>7 DEF numbers
  <2> QED
    BY <1>3, <2>8
<1> QED
  BY <1>5, <1>6

LEMMA FlattenAppend ==
  ASSUME NEW S, NEW seqs \in Seq(Seq(S)), NEW s \in Seq(S)
  PROVE  /\ FlattenSeq(seqs) \in Seq(S)
         /\ FlattenSeq(Append(seqs, s)) = FlattenSeq(seqs) \o s
<1> DEFINE n == Len(seqs)
           more == Append(seqs, s)
<1>1. /\ n \in Nat /\ more \in Seq(Seq(S)) /\ Len(more) = n + 1
      /\ \A i \in 1 .. n : more[i] = seqs[i]
      /\ more[n + 1] = s
  OBVIOUS
<1> HIDE DEF more
<1>2. PICK f : /\ IsRun(f, Seq(S), n, <<>>, Longer(S, seqs))
               /\ FlattenSeq(seqs) = f[n]
  BY FlattenRun
<1>3. PICK g : /\ IsRun(g, Seq(S), n + 1, <<>>, Longer(S, more))
               /\ FlattenSeq(more) = g[n + 1]
  BY <1>1, FlattenRun
<1>4. ASSUME NEW i \in 1 .. n
      PROVE  Longer(S, seqs)[i] = Longer(S, more)[i]
  <2>1. i \in 1 .. n + 1
    BY <1>1
  <2>2. Longer(S, seqs)[i] = [t \in Seq(S) |-> t \o seqs[i]]
    BY DEF Longer
  <2>3. Longer(S, more)[i] = [t \in Seq(S) |-> t \o more[i]]
    BY <1>1, <2>1 DEF Longer
  <2> QED
    BY <1>1, <2>2, <2>3
<1>5. f[n] = g[n]
  <2>1. f[0] = g[0] /\ n \in 0 .. n
    BY <1>1, <1>2, <1>3 DEF IsRun
  <2>2. ASSUME NEW i \in 1 .. n
        PROVE  /\ f[i] = Longer(S, seqs)[i][f[i - 1]]
               /\ g[i] = Longer(S, seqs)[i][g[i - 1]]
    <3>1. f[i] = Longer(S, seqs)[i][f[i - 1]]
      BY <1>2 DEF IsRun
    <3>2. i \in 1 .. n + 1
      BY <1>1
    <3>3. g[i] = Longer(S, more)[i][g[i - 1]]
      BY <1>3, <3>2 DEF IsRun
    <3> QED
      BY <1>4, <3>1, <3>3
  <2> DEFINE next == Longer(S, seqs)
  <2>3. n \in Nat /\ IsStepped(f, n, next) /\ IsStepped(g, n, next)
    BY <1>1, <2>2 DEF IsStepped
  <2> HIDE DEF next, n
  <2> QED
    BY <2>1, <2>3, RunsAgree
<1>6. f[n] \in Seq(S) /\ g[n + 1] = Longer(S, more)[n + 1][g[n]]
  <2>1. n \in 0 .. n /\ n + 1 \in 1 .. n + 1 /\ (n + 1) - 1 = n
    BY <1>1
  <2>2. f \in [0 .. n -> Seq(S)]
    BY <1>2 DEF IsRun
  <2>3. \A i \in 1 .. n + 1 : g[i] = Longer(S, more)[i][g[i - 1]]
    BY <1>3 DEF IsRun
  <2> HIDE DEF n
  <2>4. g[n + 1] = Longer(S, more)[n + 1][g[n]]
    BY <2>1, <2>3
  <2> QED
    BY <2>1, <2>2, <2>4
<1>7. g[n + 1] = g[n] \o s
  <2>1. g[n] \in Seq(S) /\ n + 1 \in 1 .. Len(more)
    BY <1>1, <1>5, <1>6
  <2>2. Longer(S, more)[n + 1][g[n]] = g[n] \o more[n + 1]
    BY <2>1 DEF Longer
  <2> QED
    BY <1>1, <1>6, <2>2
<1> QED
  BY <1>2, <1>3, <1>5, <1>6, <1>7 DEF more

(* Concatenation under a name of its own, which the provers leave as it is. *)
Cat(s, t) == s \o t
Then(s, x) == s \o <<x>>

(* Prefixes, one element longer. *)
LEMMA NextPrefix ==
  ASSUME NEW S, NEW s \in Seq(S), NEW i \in 0 .. Len(s) - 1
  PROVE  /\ SubSeq(s, 1, i) \in Seq(S) /\ Len(SubSeq(s, 1, i)) = i
         /\ s[i + 1] \in S
         /\ SubSeq(s, 1, i + 1) = Append(SubSeq(s, 1, i), s[i + 1])
<1>1. Len(s) \in Nat /\ i + 1 \in 1 .. Len(s) /\ (i + 1) - 1 = i /\ 1 \in 1 .. Len(s)
  OBVIOUS
<1>2. SubSeq(s, 1, i) \in Seq(S) /\ Len(SubSeq(s, 1, i)) = i /\ s[i + 1] \in S
  <2>1. \A j \in 1 .. i : j \in 1 .. Len(s)
    BY <1>1
  <2>2. \A j \in 1 .. i : s[j] \in S
    BY <2>1, ElementOfSeq
  <2>3. SubSeq(s, 1, i) \in Seq(S) /\ Len(SubSeq(s, 1, i)) = IF 1 <= i THEN i - 1 + 1 ELSE 0
    BY <2>2, SubSeqProperties
  <2>4. (IF 1 <= i THEN i - 1 + 1 ELSE 0) = i
    OBVIOUS
  <2> QED
    BY <1>1, <2>3, <2>4, ElementOfSeq
<1>3. SubSeq(s, 1, i + 1) = SubSeq(s, 1, i) \o <<s[i + 1]>>
  <2>1. i + 1 \in 1 .. Len(s)
    BY <1>1
  <2> QED
    BY <1>1, <2>1, SubSeqRecursiveSecond
<1> QED
  BY <1>2, <1>3, AppendIsConcat

FlattenTo(seqs, i) == FlattenSeq(SubSeq(seqs, 1, i))

LEMMA FlattenNext ==
  ASSUME NEW S, NEW seqs \in Seq(Seq(S)), NEW i \in 0 .. Len(seqs) - 1
  PROVE  /\ FlattenTo(seqs, i) \in Seq(S) /\ seqs[i + 1] \in Seq(S)
         /\ FlattenTo(seqs, i + 1) = Cat(FlattenTo(seqs, i), seqs[i + 1])
<1>1. /\ SubSeq(seqs, 1, i) \in Seq(Seq(S)) /\ seqs[i + 1] \in Seq(S)
      /\ SubSeq(seqs, 1, i + 1) = Append(SubSeq(seqs, 1, i), seqs[i + 1])
  <2> DEFINE Q == Seq(S)
  <2>1. seqs \in Seq(Q)
    OBVIOUS
  <2> HIDE DEF Q
  <2>2. /\ SubSeq(seqs, 1, i) \in Seq(Q) /\ seqs[i + 1] \in Q
        /\ SubSeq(seqs, 1, i + 1) = Append(SubSeq(seqs, 1, i), seqs[i + 1])
    BY <2>1, NextPrefix
  <2> QED
    BY <2>2 DEF Q
<1> QED
  BY <1>1, FlattenAppend DEF FlattenTo, Cat

LEMMA FlattenNone == FlattenSeq(<<>>) = <<>>
BY DEF FlattenSeq

LEMMA FlattenSequence ==
  ASSUME NEW S, NEW seqs \in Seq(Seq(S))
  PROVE  FlattenSeq(seqs) \in Seq(S)
<1>1. CASE seqs = <<>>
  BY <1>1, FlattenNone, EmptySeq
<1>2. CASE seqs # <<>>
  <2>1. PICK f : IsRun(f, Seq(S), Len(seqs), <<>>, Longer(S, seqs)) /\ FlattenSeq(seqs) = f[Len(seqs)]
    BY FlattenRun
  <2>2. Len(seqs) \in 0 .. Len(seqs)
    OBVIOUS
  <2> QED
    BY <2>1, <2>2 DEF IsRun
<1> QED
  BY <1>1, <1>2

LEMMA FlattenEnds ==
  ASSUME NEW S, NEW seqs \in Seq(Seq(S))
  PROVE  FlattenTo(seqs, 0) = <<>> /\ FlattenTo(seqs, Len(seqs)) = FlattenSeq(seqs)
<1>1. SubSeq(seqs, 1, 0) = <<>>
  BY SubSeqEmpty
<1>2. SubSeq(seqs, 1, Len(seqs)) = seqs
  <2> DEFINE Q == Seq(S)
  <2>1. seqs \in Seq(Q)
    OBVIOUS
  <2> HIDE DEF Q
  <2> QED
    BY <2>1, SubSeqFull
<1> QED
  BY <1>1, <1>2, FlattenNone DEF FlattenTo

LEMMA CatNothing ==
  ASSUME NEW S, NEW s \in Seq(S)
  PROVE  Cat(s, <<>>) = s /\ Cat(<<>>, s) = s
BY ConcatEmptySeq DEF Cat

(* Short sequences, and their ends one by one. *)
LEMMA Pair ==
  ASSUME NEW S, NEW b \in S, NEW c \in S
  PROVE  <<b>> \in Seq(S) /\ <<b, c>> \in Seq(S) /\ <<b>> \o <<c>> = <<b, c>>
<1> DEFINE s == <<b>> \o <<c>>
           t == <<b, c>>
<1>1. s \in Seq(S) /\ Len(s) = 2 /\ s[1] = b /\ s[2] = c
  OBVIOUS
<1>2. t \in Seq(S) /\ Len(t) = 2 /\ t[1] = b /\ t[2] = c
  OBVIOUS
<1> HIDE DEF s, t
<1>3. s = t
  <2>1. \A i \in 1 .. Len(s) : s[i] = t[i]
    BY <1>1, <1>2
  <2> QED
    BY <1>1, <1>2, <2>1, SeqEqual
<1> QED
  BY <1>2, <1>3 DEF s, t

LEMMA Triple ==
  ASSUME NEW S, NEW b \in S, NEW c \in S, NEW d \in S
  PROVE  <<b, c, d>> \in Seq(S) /\ <<b, c>> \o <<d>> = <<b, c, d>>
<1> DEFINE s == <<b, c>> \o <<d>>
           t == <<b, c, d>>
<1>1. s \in Seq(S) /\ Len(s) = 3 /\ s[1] = b /\ s[2] = c /\ s[3] = d
  OBVIOUS
<1>2. t \in Seq(S) /\ Len(t) = 3 /\ t[1] = b /\ t[2] = c /\ t[3] = d
  OBVIOUS
<1> HIDE DEF s, t
<1>3. s = t
  <2>1. \A i \in 1 .. Len(s) : s[i] = t[i]
    BY <1>1, <1>2
  <2> QED
    BY <1>1, <1>2, <2>1, SeqEqual
<1> QED
  BY <1>2, <1>3 DEF s, t

LEMMA CatThree ==
  ASSUME NEW S, NEW s \in Seq(S), NEW t \in Seq(S), NEW u \in Seq(S)
  PROVE  Cat(s, t) \in Seq(S) /\ Cat(Cat(s, t), u) = Cat(s, Cat(t, u))
BY ConcatProperties, ConcatAssociative DEF Cat

LEMMA CatLength ==
  ASSUME NEW S, NEW s \in Seq(S), NEW t \in Seq(S)
  PROVE  /\ Cat(s, t) \in Seq(S) /\ Len(s) \in Nat /\ Len(t) \in Nat
         /\ Len(Cat(s, t)) = Len(s) + Len(t)
BY ConcatProperties DEF Cat

LEMMA CatFive ==
  ASSUME NEW S, NEW t \in Seq(S), NEW q \in Seq(S), NEW r \in Seq(S), NEW s \in Seq(S),
         NEW u \in Seq(S)
  PROVE  /\ Cat(q, Cat(Cat(r, s), u)) \in Seq(S)
         /\ Cat(t, Cat(q, Cat(Cat(r, s), u))) = Cat(Cat(Cat(Cat(t, q), r), s), u)
<1>1. Cat(r, s) \in Seq(S) /\ Cat(t, q) \in Seq(S)
  BY CatThree
<1>2. Cat(Cat(r, s), u) \in Seq(S) /\ Cat(Cat(t, q), r) \in Seq(S)
  BY <1>1, CatThree
<1>3. Cat(q, Cat(Cat(r, s), u)) \in Seq(S)
  BY <1>2, CatThree
<1>4. Cat(t, Cat(q, Cat(Cat(r, s), u))) = Cat(Cat(t, q), Cat(Cat(r, s), u))
  BY <1>2, CatThree
<1>5. Cat(Cat(t, q), Cat(Cat(r, s), u)) = Cat(Cat(Cat(t, q), Cat(r, s)), u)
  BY <1>1, CatThree
<1>6. Cat(Cat(t, q), Cat(r, s)) = Cat(Cat(Cat(t, q), r), s)
  BY <1>1, CatThree
<1> QED
  BY <1>3, <1>4, <1>5, <1>6

LEMMA TwoByOne ==
  ASSUME NEW S, NEW t \in Seq(S), NEW a \in S, NEW b \in S
  PROVE  <<a, b>> \in Seq(S) /\ Cat(t, <<a, b>>) = Then(Then(t, a), b)
<1> DEFINE q == <<a>>  r == <<b>>
<1>1. q \in Seq(S) /\ r \in Seq(S) /\ q \o r = <<a, b>> /\ <<a, b>> \in Seq(S)
  BY Pair
<1> HIDE DEF q, r
<1>2. Cat(t, Cat(q, r)) = Cat(Cat(t, q), r)
  BY <1>1, CatThree
<1> QED
  BY <1>1, <1>2 DEF Cat, Then, q, r

LEMMA OneByOne ==
  ASSUME NEW S, NEW t \in Seq(S), NEW a \in S, NEW b \in S, NEW c \in S, NEW d \in S
  PROVE  /\ Cat(<<a>>, <<b, c, d>>) \in Seq(S)
         /\ Cat(t, Cat(<<a>>, <<b, c, d>>)) = Then(Then(Then(Then(t, a), b), c), d)
<1> DEFINE q == <<a>>  r == <<b>>  s == <<c>>  u == <<d>>
<1>1. q \in Seq(S) /\ r \in Seq(S) /\ s \in Seq(S) /\ u \in Seq(S)
  BY Pair
<1>2. (r \o s) \o u = <<b, c, d>>
  <2>1. r \o s = <<b, c>>
    BY Pair
  <2>2. <<b, c>> \o u = <<b, c, d>>
    BY Triple
  <2> QED
    BY <2>1, <2>2
<1> HIDE DEF q, r, s, u
<1>3. /\ Cat(q, Cat(Cat(r, s), u)) \in Seq(S)
      /\ Cat(t, Cat(q, Cat(Cat(r, s), u))) = Cat(Cat(Cat(Cat(t, q), r), s), u)
  BY <1>1, CatFive
<1> QED
  BY <1>2, <1>3 DEF Cat, Then, q, r, s, u

(* What is written apart is read apart. *)
LEMMA SameStart ==
  ASSUME NEW S, NEW s \in Seq(S), NEW t \in Seq(S), NEW u \in Seq(S), NEW v \in Seq(S),
         Len(s) = Len(t), Cat(s, u) = Cat(t, v)
  PROVE  s = t /\ u = v
<1>1. Len(s) \in Nat /\ Len(t) \in Nat /\ Len(u) \in Nat /\ Len(v) \in Nat
  OBVIOUS
<1>2. ASSUME NEW i \in 1 .. Len(s)
      PROVE  s[i] = t[i]
  <2>1. i \in 1 .. Len(s) + Len(u) /\ i <= Len(s)
    BY <1>1
  <2>2. i \in 1 .. Len(t) + Len(v) /\ i <= Len(t)
    BY <1>1
  <2>3. (s \o u)[i] = s[i]
    BY <2>1, ConcatProperties
  <2>4. (t \o v)[i] = t[i]
    BY <2>2, ConcatProperties
  <2> QED
    BY <2>3, <2>4 DEF Cat
<1>3. s = t
  BY <1>2, SeqEqual
<1>4. u = v
  BY <1>3, ConcatSimplifications DEF Cat
<1> QED
  BY <1>3, <1>4

LEMMA SameEnd ==
  ASSUME NEW S, NEW s \in Seq(S), NEW u \in Seq(S), NEW v \in Seq(S), Cat(s, u) = Cat(s, v)
  PROVE  u = v
BY ConcatSimplifications DEF Cat

LEMMA FlattenSplit ==
  ASSUME NEW S, NEW seqs \in Seq(Seq(S)), NEW i \in 0 .. Len(seqs)
  PROVE  \E s \in Seq(S) : FlattenSeq(seqs) = Cat(FlattenTo(seqs, i), s)
<1> DEFINE n == Len(seqs)
           numbers == {j \in 0 .. n : \E s \in Seq(S) : FlattenSeq(seqs) = Cat(FlattenTo(seqs, n - j), s)}
<1>1. n \in Nat
  OBVIOUS
<1>2. 0 \in numbers
  <2>1. FlattenSeq(seqs) = FlattenTo(seqs, n) /\ FlattenSeq(seqs) \in Seq(S)
    BY FlattenEnds, FlattenSequence
  <2>2. FlattenSeq(seqs) = Cat(FlattenSeq(seqs), <<>>)
    BY <2>1, CatNothing
  <2>3. n - 0 = n /\ 0 \in 0 .. n /\ <<>> \in Seq(S)
    BY <1>1
  <2> QED
    BY <2>1, <2>2, <2>3
<1>3. ASSUME NEW j \in 0 .. n - 1, j \in numbers
      PROVE  j + 1 \in numbers
  <2> DEFINE k == n - (j + 1)
  <2>1. k \in 0 .. n - 1 /\ k + 1 = n - j /\ j + 1 \in 0 .. n
    BY <1>1
  <2>2. PICK s \in Seq(S) : FlattenSeq(seqs) = Cat(FlattenTo(seqs, k + 1), s)
    BY <1>3, <2>1
  <2> HIDE DEF k
  <2>3. /\ FlattenTo(seqs, k) \in Seq(S) /\ seqs[k + 1] \in Seq(S)
        /\ FlattenTo(seqs, k + 1) = Cat(FlattenTo(seqs, k), seqs[k + 1])
    BY <2>1, FlattenNext
  <2>4. Cat(FlattenTo(seqs, k + 1), s) = Cat(FlattenTo(seqs, k), Cat(seqs[k + 1], s))
    BY <2>3, CatThree
  <2>5. Cat(seqs[k + 1], s) \in Seq(S)
    BY <2>3, CatLength
  <2>6. \E t \in Seq(S) : FlattenSeq(seqs) = Cat(FlattenTo(seqs, k), t)
    BY <2>2, <2>4, <2>5
  <2> QED
    BY <2>1, <2>6 DEF k
<1> HIDE DEF numbers
<1>4. n - i \in numbers
  <2>1. \A j \in 0 .. n : j \in numbers
    BY <1>1, <1>2, <1>3, CountedNumbers
  <2> QED
    BY <1>1, <2>1
<1>5. n - (n - i) = i
  BY <1>1
<1> QED
  BY <1>4, <1>5 DEF numbers

(* No part of the one begins a different part of the other. *)
Apart(S, p, q) ==
  \A i \in 1 .. Len(p) :
    i <= Len(q) => \A s, t \in Seq(S) : Cat(p[i], s) = Cat(q[i], t) => p[i] = q[i]

GoesOn(S, p, r, i) ==
  /\ FlattenTo(p, i) \in Seq(S) /\ p[i + 1] \in Seq(S)
  /\ FlattenTo(p, i + 1) = Cat(FlattenTo(p, i), p[i + 1])
  /\ \E s \in Seq(S) : /\ Cat(p[i + 1], s) \in Seq(S)
                       /\ Cat(FlattenSeq(p), r) = Cat(FlattenTo(p, i), Cat(p[i + 1], s))

LEMMA PartAfter ==
  ASSUME NEW S, NEW p \in Seq(Seq(S)), NEW r \in Seq(S), NEW i \in 0 .. Len(p) - 1
  PROVE  GoesOn(S, p, r, i)
<1> DEFINE before == FlattenTo(p, i)
           part == p[i + 1]
           after == FlattenTo(p, i + 1)
<1>1. i + 1 \in 0 .. Len(p)
  OBVIOUS
<1>2. before \in Seq(S) /\ part \in Seq(S) /\ after = Cat(before, part)
  BY FlattenNext
<1>3. PICK s \in Seq(S) : FlattenSeq(p) = Cat(after, s)
  BY <1>1, FlattenSplit
<1> HIDE DEF before, part, after
<1>4. Cat(before, part) \in Seq(S) /\ Cat(part, s) \in Seq(S) /\ Cat(s, r) \in Seq(S)
  BY <1>2, CatLength
<1>5. Cat(Cat(after, s), r) = Cat(after, Cat(s, r))
  BY <1>2, <1>4, CatThree
<1>6. Cat(Cat(before, part), Cat(s, r)) = Cat(before, Cat(part, Cat(s, r)))
  BY <1>2, <1>4, CatThree
<1>7. Cat(part, Cat(s, r)) \in Seq(S)
  BY <1>2, <1>4, CatLength
<1>8. /\ before \in Seq(S) /\ part \in Seq(S) /\ after = Cat(before, part)
      /\ \E t \in Seq(S) : /\ Cat(part, t) \in Seq(S)
                           /\ Cat(FlattenSeq(p), r) = Cat(before, Cat(part, t))
  BY <1>2, <1>3, <1>4, <1>5, <1>6, <1>7
<1> QED
  BY <1>8 DEF before, part, after, GoesOn

SameTo(p, q, i) == FlattenTo(p, i) = FlattenTo(q, i) /\ (i # 0 => p[i] = q[i])

LEMMA PartsAgree ==
  ASSUME NEW S, NEW p \in Seq(Seq(S)), NEW q \in Seq(Seq(S)), NEW r \in Seq(S), NEW u \in Seq(S),
         Apart(S, p, q), Cat(FlattenSeq(p), r) = Cat(FlattenSeq(q), u)
  PROVE  \A i \in 0 .. Len(p) : i <= Len(q) => SameTo(p, q, i)
<1> DEFINE n == Len(p)
           numbers == {i \in 0 .. n : i <= Len(q) => SameTo(p, q, i)}
<1>1. n \in Nat /\ Len(q) \in Nat
  OBVIOUS
<1>2. 0 \in numbers
  BY <1>1, FlattenEnds DEF SameTo
<1>3. ASSUME NEW i \in 0 .. n - 1, i \in numbers
      PROVE  i + 1 \in numbers
  <2>1. i + 1 \in 0 .. n /\ i + 1 \in 1 .. n
    BY <1>1
  <2>2. CASE i + 1 <= Len(q)
    <3>1. i \in 0 .. Len(q) - 1 /\ SameTo(p, q, i)
      BY <1>1, <1>3, <2>2
    <3> DEFINE before == FlattenTo(p, i)  a == p[i + 1]  b == q[i + 1]
    <3>2. /\ before \in Seq(S) /\ a \in Seq(S) /\ FlattenTo(p, i + 1) = Cat(before, a)
          /\ \E s \in Seq(S) : /\ Cat(a, s) \in Seq(S)
                               /\ Cat(FlattenSeq(p), r) = Cat(before, Cat(a, s))
      <4>1. i \in 0 .. Len(p) - 1
        OBVIOUS
      <4>2. GoesOn(S, p, r, i)
        BY <4>1, PartAfter
      <4> QED
        BY <4>2 DEF GoesOn
    <3>3. PICK s \in Seq(S) : Cat(a, s) \in Seq(S) /\ Cat(FlattenSeq(p), r) = Cat(before, Cat(a, s))
      BY <3>2
    <3>4. before = FlattenTo(q, i)
      BY <3>1 DEF SameTo
    <3>5. /\ b \in Seq(S) /\ FlattenTo(q, i + 1) = Cat(FlattenTo(q, i), b)
          /\ \E t \in Seq(S) : /\ Cat(b, t) \in Seq(S)
                               /\ Cat(FlattenSeq(q), u) = Cat(FlattenTo(q, i), Cat(b, t))
      <4>1. GoesOn(S, q, u, i)
        BY <3>1, PartAfter
      <4> QED
        BY <4>1 DEF GoesOn
    <3>6. PICK t \in Seq(S) : Cat(b, t) \in Seq(S) /\ Cat(FlattenSeq(q), u) = Cat(before, Cat(b, t))
      BY <3>4, <3>5
    <3>7. Cat(a, s) = Cat(b, t)
      <4> DEFINE x == Cat(a, s)  y == Cat(b, t)
      <4>1. x \in Seq(S) /\ y \in Seq(S) /\ Cat(before, x) = Cat(before, y)
        BY <3>3, <3>6
      <4> HIDE DEF x, y, before
      <4>2. x = y
        BY <3>2, <4>1, SameEnd
      <4> QED
        BY <4>2 DEF x, y
    <3>8. a = b
      BY <2>1, <2>2, <3>7 DEF Apart
    <3>9. FlattenTo(p, i + 1) = FlattenTo(q, i + 1) /\ p[i + 1] = q[i + 1]
      BY <3>2, <3>4, <3>5, <3>8
    <3>10. SameTo(p, q, i + 1)
      BY <3>9 DEF SameTo
    <3> QED
      BY <2>1, <3>10
  <2> QED
    BY <2>1, <2>2
<1> HIDE DEF numbers
<1>4. \A i \in 0 .. n : i \in numbers
  BY <1>1, <1>2, <1>3, CountedNumbers
<1> QED
  BY <1>4 DEF numbers

LEMMA NoPartMore ==
  ASSUME NEW S, NEW p \in Seq(Seq(S)), NEW q \in Seq(Seq(S)), Apart(S, p, q),
         FlattenSeq(p) = FlattenSeq(q), \A i \in 1 .. Len(q) : q[i] # <<>>
  PROVE  Len(q) <= Len(p)
<1> DEFINE n == Len(p)  none == <<>>
<1>1. n \in Nat /\ Len(q) \in Nat /\ none \in Seq(S)
  OBVIOUS
<1>2. SUFFICES ASSUME n < Len(q) PROVE FALSE
  BY <1>1
<1>3. n \in 0 .. Len(p) /\ n <= Len(q) /\ n \in 0 .. Len(q) - 1 /\ n + 1 \in 1 .. Len(q)
  BY <1>1, <1>2
<1> HIDE DEF none
<1>4. SameTo(p, q, n)
  BY <1>1, <1>3, PartsAgree
<1>5. FlattenTo(p, n) = FlattenSeq(p) /\ FlattenSeq(p) \in Seq(S)
  BY FlattenEnds, FlattenSequence
<1> HIDE DEF n
<1> DEFINE all == FlattenSeq(q)  b == q[n + 1]
<1>6. /\ b \in Seq(S) /\ FlattenTo(q, n) = all
      /\ \E t \in Seq(S) : Cat(b, t) \in Seq(S) /\ Cat(all, none) = Cat(FlattenTo(q, n), Cat(b, t))
  <2>1. n \in 0 .. Len(q) - 1
    BY <1>3
  <2>2. FlattenTo(q, n) = all
    BY <1>4, <1>5 DEF SameTo
  <2>3. /\ b \in Seq(S)
        /\ \E t \in Seq(S) : Cat(b, t) \in Seq(S) /\ Cat(all, none) = Cat(FlattenTo(q, n), Cat(b, t))
    <3>1. GoesOn(S, q, none, n)
      BY <1>1, <2>1, PartAfter
    <3> QED
      BY <3>1 DEF GoesOn
  <2> QED
    BY <2>2, <2>3
<1>7. PICK t \in Seq(S) : Cat(b, t) \in Seq(S) /\ Cat(all, none) = Cat(all, Cat(b, t))
  BY <1>6
<1>8. b # <<>>
  BY <1>3
<1>9. all \in Seq(S)
  BY <1>5
<1> DEFINE x == Cat(b, t)
<1>10. x = none
  <2> HIDE DEF all, x
  <2> QED
    BY <1>1, <1>7, <1>9, SameEnd DEF x
<1> HIDE DEF b
<1> QED
  BY <1>6, <1>8, <1>10, ConcatEqualIffEmpty DEF Cat, none

LEMMA FlattenApart ==
  ASSUME NEW S, NEW p \in Seq(Seq(S)), NEW q \in Seq(Seq(S)), Apart(S, p, q), Apart(S, q, p),
         FlattenSeq(p) = FlattenSeq(q),
         \A i \in 1 .. Len(p) : p[i] # <<>>, \A i \in 1 .. Len(q) : q[i] # <<>>
  PROVE  p = q
<1>1. Len(p) \in Nat /\ Len(q) \in Nat
  OBVIOUS
<1>2. Len(q) <= Len(p)
  BY NoPartMore
<1>3. Len(p) <= Len(q)
  BY NoPartMore
<1>4. Len(p) = Len(q)
  BY <1>1, <1>2, <1>3
<1> DEFINE none == <<>>
<1>5. none \in Seq(S)
  OBVIOUS
<1> HIDE DEF none
<1>6. \A i \in 0 .. Len(p) : i <= Len(q) => SameTo(p, q, i)
  BY <1>5, PartsAgree
<1>7. \A i \in 1 .. Len(p) : p[i] = q[i]
  BY <1>1, <1>4, <1>6 DEF SameTo
<1> DEFINE Q == Seq(S)
<1>8. p \in Seq(Q) /\ q \in Seq(Q)
  OBVIOUS
<1> HIDE DEF Q
<1> QED
  BY <1>4, <1>7, <1>8, SeqEqual

------------------------------------------------------------------------------
(* What was put together is found in its parts. *)
LEMMA CatFirst ==
  ASSUME NEW S, NEW s \in Seq(S), NEW t \in Seq(S), NEW i \in 1 .. Len(s)
  PROVE  Cat(s, t)[i] = s[i]
<1>1. Len(s) \in Nat /\ Len(t) \in Nat
  OBVIOUS
<1>2. i \in 1 .. Len(s) + Len(t) /\ i <= Len(s)
  BY <1>1
<1> QED
  BY <1>2, ConcatProperties DEF Cat

Behind(s, t, i, j) == i \in 1 .. Len(t) /\ j = Len(s) + i

LEMMA CatSecond ==
  ASSUME NEW S, NEW s \in Seq(S), NEW t \in Seq(S), NEW i, NEW j, Behind(s, t, i, j)
  PROVE  Cat(s, t)[j] = t[i]
<1> DEFINE m == Len(s)  n == Len(t)
<1>1. m \in Nat /\ n \in Nat /\ i \in 1 .. n /\ j = m + i
  BY DEF Behind
<1> HIDE DEF m, n
<1>2. j \in 1 .. m + n /\ ~(j <= m) /\ j - m = i
  BY <1>1
<1> USE DEF m, n
<1> QED
  BY <1>2, ConcatProperties DEF Cat

LEMMA SliceMiddle ==
  ASSUME NEW S, NEW s \in Seq(S), NEW t \in Seq(S), NEW u \in Seq(S)
  PROVE  SubSeq(Cat(Cat(s, t), u), Len(s) + 1, Len(s) + Len(t)) = t
<1> DEFINE m == Len(s)  n == Len(t)  k == Len(u)  all == Cat(Cat(s, t), u)
           some == SubSeq(all, m + 1, m + n)
<1>1. m \in Nat /\ n \in Nat /\ k \in Nat /\ Cat(s, t) \in Seq(S) /\ Len(Cat(s, t)) = m + n
  BY CatLength
<1>2. all \in Seq(S) /\ Len(all) = m + n + k
  <2> DEFINE st == Cat(s, t)
  <2> HIDE DEF st
  <2>1. st \in Seq(S) /\ Len(st) = m + n
    BY <1>1 DEF st
  <2>2. Cat(st, u) \in Seq(S) /\ Len(Cat(st, u)) = Len(st) + Len(u)
    BY <2>1, CatLength
  <2>3. Len(Cat(st, u)) = m + n + k
    BY <2>1, <2>2
  <2> QED
    BY <2>2, <2>3 DEF st
<1>3. ASSUME NEW i \in 1 .. n
      PROVE  all[m + i] = t[i]
  <2>1. Cat(s, t)[m + i] = t[i]
    <3> DEFINE j == m + i
    <3>1. Behind(s, t, i, j)
      BY DEF Behind
    <3> HIDE DEF j
    <3>2. Cat(s, t)[j] = t[i]
      BY <3>1, CatSecond
    <3> QED
      BY <3>2 DEF j
  <2>2. m + i \in 1 .. Len(Cat(s, t))
    <3> HIDE DEF m, n
    <3> QED
      BY <1>1
  <2>3. all[m + i] = Cat(s, t)[m + i]
    <3> DEFINE st == Cat(s, t)  j == m + i
    <3>1. st \in Seq(S) /\ j \in 1 .. Len(st)
      BY <1>1, <2>2
    <3> HIDE DEF st, j
    <3>2. Cat(st, u)[j] = st[j]
      BY <3>1, CatFirst
    <3> QED
      BY <3>2 DEF st, j
  <2> QED
    BY <2>1, <2>3
<1> HIDE DEF m, n, k, all
<1>4. \A i \in m + 1 .. m + n : all[i] \in S
  <2>1. \A i \in m + 1 .. m + n : i \in 1 .. Len(all)
    BY <1>1, <1>2
  <2> QED
    BY <1>2, <2>1, ElementOfSeq
<1>5. /\ some \in Seq(S)
      /\ Len(some) = IF m + 1 <= m + n THEN m + n - (m + 1) + 1 ELSE 0
      /\ \A i \in 1 .. m + n - (m + 1) + 1 : some[i] = all[m + 1 + i - 1]
  BY <1>1, <1>4, SubSeqProperties
<1>6. Len(some) = n /\ \A i \in 1 .. n : some[i] = all[m + i]
  <2>1. m + n - (m + 1) + 1 = n /\ (m + 1 <= m + n <=> n # 0)
    BY <1>1
  <2>2. \A i \in 1 .. n : m + 1 + i - 1 = m + i
    BY <1>1
  <2> QED
    BY <1>5, <2>1, <2>2
<1>7. some = t
  <2>1. \A i \in 1 .. n : some[i] = t[i]
    BY <1>3, <1>6
  <2> HIDE DEF some
  <2> QED
    BY <1>5, <1>6, <2>1, SeqEqual DEF n
<1> QED
  BY <1>7 DEF m, n, all

LEMMA SliceAfter ==
  ASSUME NEW S, NEW s \in Seq(S), NEW t \in Seq(S)
  PROVE  SubSeq(Cat(s, t), Len(s) + 1, Len(Cat(s, t))) = t
<1> DEFINE none == <<>>  all == Cat(s, t)
<1>1. none \in Seq(S) /\ all \in Seq(S) /\ Len(all) = Len(s) + Len(t)
  BY CatLength
<1>2. Cat(all, none) = all
  BY <1>1, CatNothing
<1> HIDE DEF none
<1>3. SubSeq(Cat(all, none), Len(s) + 1, Len(s) + Len(t)) = t
  BY <1>1, SliceMiddle
<1> QED
  BY <1>1, <1>2, <1>3

LEMMA SliceBefore ==
  ASSUME NEW S, NEW s \in Seq(S), NEW t \in Seq(S)
  PROVE  SubSeq(Cat(s, t), 1, Len(s)) = s
<1> DEFINE none == <<>>
<1>1. none \in Seq(S) /\ Len(none) = 0 /\ Len(s) \in Nat
  OBVIOUS
<1>2. Cat(none, s) = s
  BY CatNothing
<1> HIDE DEF none
<1>3. SubSeq(Cat(Cat(none, s), t), Len(none) + 1, Len(none) + Len(s)) = s
  BY <1>1, SliceMiddle
<1>4. Len(none) + 1 = 1 /\ Len(none) + Len(s) = Len(s)
  BY <1>1
<1> QED
  BY <1>2, <1>3, <1>4
==============================================================================
