---------------------------- MODULE FoldTheorems ----------------------------
(***************************************************************************)
(* Induction for the folds of the community modules. MapThenFoldSet is a   *)
(* recursive function on the subsets of a set; those of the models here    *)
(* take the greatest element of a set of numbers off each time (FoldLeft,  *)
(* on the places of its sequence). That there is such a function, and what *)
(* holds of all its values, follows from the lemmas of this module, which  *)
(* speak of sets and functions and take no operator.                       *)
(***************************************************************************)
EXTENDS Integers, SequencesExt, FiniteSetTheorems, SequenceTheorems, WellFoundedInduction, TLAPS

LEMMA SmallestOf ==
    ASSUME NEW S \in SUBSET Nat, S # {}
    PROVE  \E n \in S : \A m \in S : n <= m
  <1> DEFINE Below == OpToRel(<, Nat)
  <1>1. IsWellFoundedOn(Below, Nat)
    BY NatLessThanWellFounded
  <1>2. \A x, y \in Nat : <<y, x>> \in Below <=> y < x
    BY DEF OpToRel
  <1> HIDE DEF Below
  <1>3. PICK n \in S : \A m \in S : <<m, n>> \notin Below
    BY <1>1, WFMin
  <1>4. ASSUME NEW m \in S PROVE n <= m
    <2>1. n \in Nat /\ m \in Nat
      OBVIOUS
    <2>2. ~(m < n)
      BY <1>2, <1>3, <2>1
    <2> QED
      BY <2>1, <2>2
  <1> QED
    BY <1>4

\* Induction up to n, for a set instead of a predicate.
LEMMA UpTo ==
    ASSUME NEW n \in Nat, NEW T, 0 \in T, \A i \in 1..n : i - 1 \in T => i \in T
    PROVE  \A i \in 0..n : i \in T
  <1> DEFINE U == {i \in 0..n : i \notin T}
  <1> SUFFICES ASSUME U # {} PROVE FALSE
    OBVIOUS
  <1>1. PICK m \in U : \A k \in U : m <= k
    <2>1. U \in SUBSET Nat
      OBVIOUS
    <2> HIDE DEF U
    <2> QED
      BY <2>1, SmallestOf
  <1>2. m \in 1..n /\ m - 1 \notin U
    BY <1>1
  <1> QED
    BY <1>1, <1>2

\* A set of numbers of which one is the greatest.
LEMMA MaxIs ==
    ASSUME NEW S \in SUBSET Int, NEW x \in S, \A y \in S : x >= y
    PROVE  Max(S) = x
  <1>1. \A z \in S : (\A y \in S : z >= y) => z = x
    OBVIOUS
  <1> QED
    BY <1>1 DEF Max

LEMMA MaxOfInterval ==
    ASSUME NEW k \in Nat \ {0}
    PROVE  Max(1..k) = k /\ (1..k) \ {k} = 1..(k - 1)
  <1>1. k \in 1..k /\ (\A y \in 1..k : k >= y) /\ 1..k \in SUBSET Int
    OBVIOUS
  <1>2. Max(1..k) = k
    BY <1>1, MaxIs
  <1> QED
    BY <1>2

LEMMA FiniteMax ==
    ASSUME NEW S \in SUBSET Int, IsFiniteSet(S), S # {}
    PROVE  Max(S) \in S /\ \A y \in S : Max(S) >= y
  <1> DEFINE Without == {s \in SUBSET S : s # {} /\ \A x \in s : \E y \in s : y > x}
             Sizes   == {Cardinality(s) : s \in Without}
  <1>1. ASSUME Without # {} PROVE FALSE
    <2>1. Sizes \in SUBSET Nat /\ Sizes # {}
      <3>1. ASSUME NEW s \in Without PROVE Cardinality(s) \in Nat
        BY FS_Subset, FS_CardinalityType
      <3> QED
        BY <1>1, <3>1
    <2>2. PICK n \in Sizes : \A m \in Sizes : n <= m
      <3> HIDE DEF Sizes
      <3> QED
        BY <2>1, SmallestOf
    <2>3. PICK s \in Without : Cardinality(s) = n
      BY <2>2
    <2>4. PICK x \in s : TRUE
      BY <2>3
    <2>5. PICK z \in s : z > x
      BY <2>3, <2>4
    <2>6. IsFiniteSet(s) /\ Cardinality(s) \in Nat
      BY <2>3, FS_Subset, FS_CardinalityType
    <2>7. Cardinality(s \ {x}) = Cardinality(s) - 1
      BY <2>4, <2>6, FS_RemoveElement
    <2>8. s \ {x} \notin Without
      <3> SUFFICES ASSUME s \ {x} \in Without PROVE FALSE
        OBVIOUS
      <3>1. n <= Cardinality(s \ {x})
        BY <2>2
      <3> QED
        BY <2>3, <2>6, <2>7, <3>1
    <2>9. s \ {x} \in SUBSET S /\ z \in s \ {x}
      BY <2>3, <2>4, <2>5
    <2>10. PICK y \in s \ {x} : \A w \in s \ {x} : ~(w > y)
      BY <2>8, <2>9
    <2>11. y >= z /\ z > x /\ y \in Int /\ z \in Int /\ x \in Int
      BY <2>3, <2>4, <2>5, <2>9, <2>10
    <2>12. \A w \in s : ~(w > y)
      BY <2>10, <2>11
    <2> QED
      BY <2>3, <2>10, <2>12
  <1>2. PICK x \in S : \A y \in S : ~(y > x)
    BY <1>1
  <1>3. \A y \in S : x >= y
    BY <1>2
  <1> QED
    BY <1>3, MaxIs

\* What holds of the empty set, and of a set when it does of the set without its
\* greatest element, holds of every subset.
LEMMA FoldInduction ==
    ASSUME NEW S \in SUBSET Int, IsFiniteSet(S), NEW T, {} \in T,
           \A s \in SUBSET S : s # {} /\ s \ {Max(s)} \in T => s \in T
    PROVE  \A s \in SUBSET S : s \in T
  <1> DEFINE Others == {s \in SUBSET S : s \notin T}
             Sizes  == {Cardinality(s) : s \in Others}
  <1>1. ASSUME Others # {} PROVE FALSE
    <2>1. Sizes \in SUBSET Nat /\ Sizes # {}
      <3>1. ASSUME NEW s \in Others PROVE Cardinality(s) \in Nat
        BY FS_Subset, FS_CardinalityType
      <3> QED
        BY <1>1, <3>1
    <2>2. PICK n \in Sizes : \A m \in Sizes : n <= m
      <3> HIDE DEF Sizes
      <3> QED
        BY <2>1, SmallestOf
    <2>3. PICK s \in Others : Cardinality(s) = n
      BY <2>2
    <2>4. s # {} /\ s \in SUBSET Int /\ IsFiniteSet(s) /\ Cardinality(s) \in Nat
      BY <2>3, FS_Subset, FS_CardinalityType
    <2>5. Max(s) \in s
      BY <2>4, FiniteMax
    <2>6. Cardinality(s \ {Max(s)}) = Cardinality(s) - 1
      BY <2>4, <2>5, FS_RemoveElement
    <2>7. s \ {Max(s)} \in Others
      BY <2>3, <2>4
    <2>8. Cardinality(s \ {Max(s)}) \in Sizes
      BY <2>7
    <2> QED
      BY <2>1, <2>2, <2>3, <2>4, <2>6, <2>8
  <1> QED
    BY <1>1

\* A function on the subsets that starts in a set, and stays in it with each element.
LEMMA FoldStays ==
    ASSUME NEW S \in SUBSET Int, IsFiniteSet(S), NEW A, NEW h, h[{}] \in A,
           \A s \in SUBSET S : s # {} /\ h[s \ {Max(s)}] \in A /\ Max(s) \in S => h[s] \in A
    PROVE  \A s \in SUBSET S : h[s] \in A
  <1> DEFINE T == {s \in SUBSET S : h[s] \in A}
  <1>1. {} \in T
    OBVIOUS
  <1>2. ASSUME NEW s \in SUBSET S, s # {}, s \ {Max(s)} \in T PROVE s \in T
    <2>1. Max(s) \in S
      BY <1>2, FS_Subset, FiniteMax
    <2> QED
      BY <1>2, <2>1
  <1> HIDE DEF T
  <1>3. \A s \in SUBSET S : s \in T
    BY <1>1, <1>2, FoldInduction
  <1> QED
    BY <1>3 DEF T

\* h is the recursive function of a fold of step over the elements of S.
Folds(h, S, base, step) ==
    \A s \in SUBSET S : h[s] = IF s = {} THEN base ELSE step[<<h[s \ {Max(s)}], Max(s)>>]

\* There is such a function, when step stays in a set.
THEOREM FoldExists ==
    ASSUME NEW S \in SUBSET Int, IsFiniteSet(S), NEW A, NEW base \in A,
           NEW step \in [A \X S -> A]
    PROVE  \E h \in [SUBSET S -> A] : Folds(h, S, base, step)
  <1> DEFINE T == {s \in SUBSET S : \E h \in [SUBSET s -> A] : Folds(h, s, base, step)}
  <1>1. {} \in T
    <2> DEFINE h == [s \in SUBSET {} |-> base]
    <2>1. h \in [SUBSET {} -> A] /\ Folds(h, {}, base, step)
      BY DEF Folds
    <2> QED
      BY <2>1
  <1>2. ASSUME NEW s \in SUBSET S, s # {}, s \ {Max(s)} \in T PROVE s \in T
    <2> DEFINE m == Max(s)
    <2>1. m \in s /\ \A x \in s : m >= x
      BY <1>2, FS_Subset, FiniteMax
    <2>2. PICK h \in [SUBSET (s \ {m}) -> A] : Folds(h, s \ {m}, base, step)
      BY <1>2
    <2> HIDE DEF m
    <2> DEFINE g == [u \in SUBSET s |-> IF m \in u THEN step[<<h[u \ {m}], m>>] ELSE h[u]]
    <2>3. g \in [SUBSET s -> A]
      <3>1. ASSUME NEW u \in SUBSET s PROVE g[u] \in A
        <4>1. u \ {m} \in SUBSET (s \ {m}) /\ (m \notin u => u \in SUBSET (s \ {m}))
          OBVIOUS
        <4> QED
          BY <1>2, <2>1, <4>1
      <3> QED
        BY <3>1
    <2>4. ASSUME NEW u \in SUBSET s
          PROVE  g[u] = IF u = {} THEN base ELSE step[<<g[u \ {Max(u)}], Max(u)>>]
      <3>1. CASE m \in u
        <4>1. Max(u) = m
          BY <1>2, <2>1, <3>1, MaxIs
        <4>2. g[u] = step[<<h[u \ {m}], m>>] /\ g[u \ {m}] = h[u \ {m}]
          BY <3>1
        <4> QED
          BY <3>1, <4>1, <4>2
      <3>2. CASE m \notin u
        <4>1. u \in SUBSET (s \ {m}) /\ u \ {Max(u)} \in SUBSET s /\ m \notin u \ {Max(u)}
          BY <3>2
        <4>2. g[u] = h[u] /\ g[u \ {Max(u)}] = h[u \ {Max(u)}]
          BY <3>2, <4>1
        <4>3. h[u] = IF u = {} THEN base ELSE step[<<h[u \ {Max(u)}], Max(u)>>]
          BY <2>2, <4>1 DEF Folds
        <4> QED
          BY <4>2, <4>3
      <3> QED
        BY <3>1, <3>2
    <2> HIDE DEF g
    <2> QED
      BY <2>3, <2>4 DEF Folds
  <1>3. S \in T
    <2> HIDE DEF T
    <2> QED
      BY <1>1, <1>2, FoldInduction
  <1> QED
    BY <1>3

-----------------------------------------------------------------------------
(* FlattenSeq *)

\* f is the recursive function of FlattenSeq over the first n sequences.
Flattens(f, seqs, n) ==
    f = [i \in 1..n |-> IF i = 1 THEN seqs[i] ELSE f[i - 1] \o seqs[i]]

\* The first n sequences are the same.
SameUpTo(seqs, more, n) == \A i \in 1..n : seqs[i] = more[i]

LEMMA FlattenExists ==
    ASSUME NEW S, NEW seqs \in Seq(Seq(S)), NEW n \in 0..Len(seqs)
    PROVE  \E f \in [1..n -> Seq(S)] : Flattens(f, seqs, n)
  <1> DEFINE T == {k \in 0..n : \E f \in [1..k -> Seq(S)] : Flattens(f, seqs, k)}
  <1>1. 0 \in T
    <2>1. <<>> \in [1..0 -> Seq(S)] /\ Flattens(<<>>, seqs, 0)
      BY DEF Flattens
    <2>2. 0 \in 0..n
      BY LenProperties
    <2>3. \E f \in [1..0 -> Seq(S)] : Flattens(f, seqs, 0)
      BY <2>1
    <2> QED
      BY <2>2, <2>3
  <1>2. ASSUME NEW i \in 1..n, i - 1 \in T PROVE i \in T
    <2>1. PICK f \in [1..(i - 1) -> Seq(S)] : Flattens(f, seqs, i - 1)
      BY <1>2
    <2> DEFINE more == IF i = 1 THEN seqs[i] ELSE f[i - 1] \o seqs[i]
               g == [k \in 1..i |-> IF k = i THEN more ELSE f[k]]
    <2>2. i \in 1..Len(seqs) /\ seqs[i] \in Seq(S)
      BY ElementOfSeq
    <2>3. more \in Seq(S)
      <3>1. CASE i # 1
        <4>1. f[i - 1] \in Seq(S)
          BY <3>1
        <4> QED
          BY <2>2, <3>1, <4>1, ConcatProperties
      <3> QED
        BY <2>2, <3>1
    <2>4. g \in [1..i -> Seq(S)]
      <3> HIDE DEF more
      <3> QED
        BY <2>3
    <2>5. ASSUME NEW k \in 1..i
          PROVE  g[k] = IF k = 1 THEN seqs[k] ELSE g[k - 1] \o seqs[k]
      <3>1. k # 1 => k - 1 \in 1..(i - 1) /\ g[k - 1] = f[k - 1]
        OBVIOUS
      <3>2. CASE k = i
        BY <3>1, <3>2
      <3>3. CASE k # i
        <4>1. k \in 1..(i - 1) /\ g[k] = f[k]
          BY <3>3
        <4> QED
          BY <2>1, <3>1, <4>1 DEF Flattens
      <3> QED
        BY <3>2, <3>3
    <2>6. Flattens(g, seqs, i)
      <3>1. g = [k \in 1..i |-> g[k]]
        BY <2>4
      <3> HIDE DEF g
      <3> QED
        BY <2>5, <3>1 DEF Flattens
    <2>7. i \in 0..n
      OBVIOUS
    <2> HIDE DEF g
    <2>8. \E x \in [1..i -> Seq(S)] : Flattens(x, seqs, i)
      BY <2>4, <2>6
    <2> QED
      BY <2>7, <2>8
  <1>3. n \in Nat
    BY LenProperties
  <1> HIDE DEF T
  <1>4. \A k \in 0..n : k \in T
    BY <1>1, <1>2, <1>3, UpTo
  <1>5. n \in T
    BY <1>3, <1>4
  <1> QED
    BY <1>5 DEF T

\* It is the same for the sequences that are there when there are more.
LEMMA FlattenAgrees ==
    ASSUME NEW seqs, NEW more, NEW n \in Nat, NEW m \in Nat, n <= m, SameUpTo(seqs, more, n)
    PROVE  \A f, g : Flattens(f, seqs, n) /\ Flattens(g, more, m) => \A i \in 1..n : f[i] = g[i]
  <1> SUFFICES ASSUME NEW f, NEW g, Flattens(f, seqs, n), Flattens(g, more, m)
               PROVE  \A i \in 1..n : f[i] = g[i]
    OBVIOUS
  <1> DEFINE T == {k \in 0..n : k = 0 \/ f[k] = g[k]}
  <1>1. 0 \in T
    OBVIOUS
  <1>2. ASSUME NEW i \in 1..n, i - 1 \in T PROVE i \in T
    <2>1. f[i] = IF i = 1 THEN seqs[i] ELSE f[i - 1] \o seqs[i]
      BY DEF Flattens
    <2>2. i \in 1..m
      OBVIOUS
    <2>3. g[i] = IF i = 1 THEN more[i] ELSE g[i - 1] \o more[i]
      BY <2>2 DEF Flattens
    <2> QED
      BY <1>2, <2>1, <2>3 DEF SameUpTo
  <1> HIDE DEF T
  <1>3. \A k \in 0..n : k \in T
    BY <1>1, <1>2, UpTo
  <1> QED
    BY <1>3 DEF T

LEMMA FlattenIs ==
    ASSUME NEW S, NEW seqs \in Seq(Seq(S)), Len(seqs) # 0
    PROVE  \E f \in [1..Len(seqs) -> Seq(S)] :
              Flattens(f, seqs, Len(seqs)) /\ FlattenSeq(seqs) = f[Len(seqs)]
  <1> DEFINE n == Len(seqs)
             h == CHOOSE f : Flattens(f, seqs, n)
  <1>1. n \in Nat
    BY LenProperties
  <1>2. PICK f \in [1..n -> Seq(S)] : Flattens(f, seqs, n)
    <2>1. n \in 0..Len(seqs)
      BY <1>1
    <2> HIDE DEF n
    <2> QED
      BY <2>1, FlattenExists
  <1>3. Flattens(h, seqs, n)
    BY <1>2
  <1>4. FlattenSeq(seqs) = h[n]
    BY DEF FlattenSeq, Flattens
  <1> HIDE DEF h, n
  <1>5. \A i \in 1..n : h[i] = f[i]
    <2>1. n <= n /\ SameUpTo(seqs, seqs, n)
      BY <1>1 DEF SameUpTo
    <2> QED
      BY <1>1, <1>2, <1>3, <2>1, FlattenAgrees
  <1>6. n \in 1..n
    BY <1>1 DEF n
  <1> QED
    BY <1>2, <1>4, <1>5, <1>6 DEF n

THEOREM FlattenNone == FlattenSeq(<<>>) = <<>>
  BY DEF FlattenSeq

LEMMA FlattenIsSeq ==
    ASSUME NEW S, NEW seqs \in Seq(Seq(S))
    PROVE  FlattenSeq(seqs) \in Seq(S)
  <1>1. CASE Len(seqs) = 0
    <2>1. seqs = <<>>
      BY <1>1, EmptySeq
    <2> QED
      BY <2>1, FlattenNone, EmptySeq
  <1>2. CASE Len(seqs) # 0
    <2>1. Len(seqs) \in 1..Len(seqs)
      BY <1>2, LenProperties
    <2>2. PICK f \in [1..Len(seqs) -> Seq(S)] : FlattenSeq(seqs) = f[Len(seqs)]
      BY <1>2, FlattenIs
    <2> QED
      BY <2>1, <2>2
  <1> QED
    BY <1>1, <1>2

\* One sequence more goes at the end.
THEOREM FlattenAppend ==
    ASSUME NEW S, NEW seqs \in Seq(Seq(S)), NEW s \in Seq(S)
    PROVE  /\ FlattenSeq(seqs) \in Seq(S)
           /\ FlattenSeq(Append(seqs, s)) = FlattenSeq(seqs) \o s
  <1> DEFINE n    == Len(seqs)
             more == Append(seqs, s)
  <1>1. /\ n \in Nat /\ more \in Seq(Seq(S)) /\ Len(more) = n + 1
        /\ more[n + 1] = s /\ \A i \in 1..n : more[i] = seqs[i]
    BY LenProperties, AppendProperties
  <1> HIDE DEF n, more
  <1>2. PICK g \in [1..(n + 1) -> Seq(S)] :
          Flattens(g, more, n + 1) /\ FlattenSeq(more) = g[n + 1]
    <2>1. Len(more) # 0 /\ Len(more) = n + 1 /\ more \in Seq(Seq(S))
      BY <1>1
    <2>2. PICK g \in [1..Len(more) -> Seq(S)] :
            Flattens(g, more, Len(more)) /\ FlattenSeq(more) = g[Len(more)]
      BY <2>1, FlattenIs, Zenon
    <2> QED
      BY <2>1, <2>2
  <1>3. g[n + 1] = IF n + 1 = 1 THEN s ELSE g[n] \o s
    <2>1. n + 1 \in 1..(n + 1) /\ (n + 1) - 1 = n
      BY <1>1
    <2>2. g[n + 1] = IF n + 1 = 1 THEN more[n + 1] ELSE g[(n + 1) - 1] \o more[n + 1]
      BY <1>2, <2>1 DEF Flattens
    <2> QED
      BY <1>1, <2>1, <2>2
  <1>4. CASE n = 0
    <2>1. seqs = <<>>
      BY <1>4, EmptySeq DEF n
    <2>2. FlattenSeq(seqs) = <<>>
      BY <2>1, FlattenNone
    <2>3. <<>> \o s = s
      OBVIOUS
    <2>4. g[n + 1] = s
      BY <1>3, <1>4
    <2> QED
      BY <1>2, <2>2, <2>3, <2>4, FlattenIsSeq DEF more
  <1>5. CASE n # 0
    <2>1. PICK f \in [1..n -> Seq(S)] : Flattens(f, seqs, n) /\ FlattenSeq(seqs) = f[n]
      BY <1>5, FlattenIs DEF n
    <2>2. n <= n + 1 /\ n + 1 \in Nat /\ n \in 1..n
      BY <1>1, <1>5
    <2>3. \A i \in 1..n : f[i] = g[i]
      <3>1. SameUpTo(seqs, more, n)
        BY <1>1 DEF SameUpTo
      <3> QED
        BY <1>2, <2>1, <2>2, <3>1, FlattenAgrees
    <2>4. g[n + 1] = g[n] \o s
      BY <1>1, <1>3, <1>5, SMTT(30)
    <2> QED
      BY <1>2, <2>1, <2>2, <2>3, <2>4, FlattenIsSeq DEF more
  <1> QED
    BY <1>4, <1>5
=============================================================================
