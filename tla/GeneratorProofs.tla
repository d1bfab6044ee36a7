-------------------------- MODULE GeneratorProofs --------------------------
(***************************************************************************)
(* What the operators of Generator give, for any context and from any      *)
(* state of the generator: the lemmas that the theorems about its messages *)
(* (SourceConfigProofs) rest on. What the loops of the code build up, a    *)
(* sum or the fields of a message, is a fold, and is taken step by step    *)
(* with FoldTheorems.                                                      *)
(***************************************************************************)
EXTENDS Generator, FoldTheorems, SequenceTheorems

\* What a message may be generated with.
Contexts == [cfg : Configs, seed : Seeds, now : Nat]

-----------------------------------------------------------------------------
(* The generator after a draw *)

LEMMA NewGenType == NewGen \in Gens
  BY WrapAssumption DEF NewGen, Gens

LEMMA NowType ==
    ASSUME NEW c \in Configs, NEW s \in Seeds, NEW time \in Nat PROVE Now(c, s, time) \in Nat
  <1>1. s \in Int
    BY SeedsAssumption
  <1>2. SeedOffset(s) \in Nat
    <2>1. s % WordSize \in Nat
      BY <1>1, WrapAssumption
    <2> QED
      BY <2>1, WrapAssumption DEF SeedOffset
  <1> QED
    BY <1>2 DEF Now

LEMMA DrawsType ==
    ASSUME NEW ctx, NEW g \in Gens, NEW k \in Nat, NEW n PROVE Draws(ctx, g, k, n).gen \in Gens
  BY DEF Draws, Gens

\* Of n numbers, each draw is one.
LEMMA DrawsValue ==
    ASSUME NEW ctx \in Contexts, NEW g \in Gens, NEW k \in Nat, NEW n \in Nat \ {0}
    PROVE  Draws(ctx, g, k, n).value \in [1..k -> 0..(n - 1)]
  <1> DEFINE stream == Stream[ctx.seed]
  <1>1. stream \in Seq(Nat) /\ Len(stream) \in Nat \ {0}
    <2>1. stream \in Seq(Nat) /\ stream # <<>>
      BY SeedsAssumption DEF Contexts
    <2> QED
      BY <2>1, EmptySeq
  <1>2. ASSUME NEW i \in 1..k PROVE stream[((g.pos + i - 1) % Len(stream)) + 1] % n \in 0..(n - 1)
    <2>1. g.pos + i - 1 \in Nat
      BY DEF Gens
    <2>2. ((g.pos + i - 1) % Len(stream)) + 1 \in 1..Len(stream)
      <3> HIDE DEF stream
      <3> QED
        BY <1>1, <2>1
    <2>3. stream[((g.pos + i - 1) % Len(stream)) + 1] \in Nat
      BY <1>1, <2>2, ElementOfSeq
    <2> QED
      BY <2>3
  <1> QED
    BY <1>2 DEF Draws

LEMMA ChooseFromEnumType ==
    ASSUME NEW ctx, NEW g \in Gens, NEW name, NEW weights
    PROVE  ChooseFromEnum(ctx, g, name, weights).gen \in Gens
  BY DrawsType DEF ChooseFromEnum, Nothing

LEMMA PANType ==
    ASSUME NEW ctx, NEW g \in Gens, NEW prefix, NEW length, prefix \in Seq(Int), length \in Int
    PROVE  PAN(ctx, g, prefix, length).gen \in Gens
  <1> DEFINE missing == IF Len(prefix) < length - 1 THEN length - 1 - Len(prefix) ELSE 0
  <1>1. missing \in Nat
    BY LenProperties
  <1> HIDE DEF missing
  <1>2. Draws(ctx, g, missing, 10).gen \in Gens
    BY <1>1, DrawsType
  <1> QED
    BY <1>2 DEF PAN, missing

LEMMA SEQType ==
    ASSUME NEW g \in Gens, NEW name \in Names, NEW start \in 0..(WordSize - 1)
    PROVE  SEQ(g, name, start).gen \in Gens
  <1> DEFINE n == IF g.seq[name] = 0 THEN start ELSE g.seq[name]
  <1>1. n \in Nat
    BY DEF Gens
  <1> HIDE DEF n
  <1>2. (n + 1) % WordSize \in 0..(WordSize - 1)
    BY <1>1, WrapAssumption
  <1>3. SEQ(g, name, start).gen = [g EXCEPT !.seq[name] = (n + 1) % WordSize]
    BY DEF SEQ, n
  <1> QED
    BY <1>2, <1>3 DEF Gens

LEMMA ExpandType ==
    ASSUME NEW ctx, NEW g \in Gens, NEW t \in Templates, NEW f
    PROVE  Expand(ctx, g, t, f).gen \in Gens
  <1>1. CASE t.macro = "PAN"
    <2>1. t.prefix \in Seq(Int) /\ t.length \in Int
      BY <1>1, TemplatesAssumption
    <2> QED
      BY <1>1, <2>1, PANType DEF Expand
  <1>2. CASE t.macro = "STAN"
    <2>1. (g.stan + 1) % WordSize \in 0..(WordSize - 1)
      BY WrapAssumption DEF Gens
    <2>2. Expand(ctx, g, t, f).gen = [g EXCEPT !.stan = (@ + 1) % WordSize]
      BY <1>2 DEF Expand
    <2> QED
      BY <2>1, <2>2 DEF Gens
  <1>3. CASE t.macro = "RRN"
    <2>1. (g.rrn + 1) % WordSize \in 0..(WordSize - 1)
      BY WrapAssumption DEF Gens
    <2>2. Expand(ctx, g, t, f).gen = [g EXCEPT !.rrn = (@ + 1) % WordSize]
      BY <1>3 DEF Expand
    <2> QED
      BY <2>1, <2>2 DEF Gens
  <1>4. CASE t.macro = "SEQ"
    <2>1. t.name \in Names /\ t.start \in 0..(WordSize - 1)
      BY <1>4, TemplatesAssumption DEF Names
    <2> QED
      BY <1>4, <2>1, SEQType DEF Expand
  <1>5. CASE t.macro \in {"RAND", "UUID", "AUTH"}
    BY <1>5, DrawsType DEF Expand, RAND
  <1>6. CASE t.macro = "ENUM"
    BY <1>6, ChooseFromEnumType DEF Expand
  <1>7. CASE t.macro \notin {"PAN", "STAN", "RRN", "SEQ", "RAND", "UUID", "AUTH", "ENUM"}
    BY <1>7 DEF Expand
  <1> QED
    BY <1>1, <1>2, <1>3, <1>4, <1>5, <1>6, <1>7

LEMMA ExpiryType ==
    ASSUME NEW ctx, NEW g \in Gens PROVE Expiry(ctx, g).gen \in Gens
  <1>1. Draws(ctx, g, 1, 100).gen \in Gens
    BY DrawsType
  <1>2. MonthsBack(ctx, Draws(ctx, g, 1, 100).gen).gen \in Gens
    BY <1>1, DrawsType DEF MonthsBack, RAND
  <1> QED
    BY <1>1, <1>2 DEF Expiry

LEMMA SynthesizeType ==
    ASSUME NEW ctx, NEW g \in Gens, NEW f PROVE Synthesize(ctx, g, f).gen \in Gens
  <1>1. DefaultPrefix \in Seq(Int) /\ 16 \in Int
    BY DEF DefaultPrefix
  <1>2. CASE f \notin DOMAIN Fields
    BY <1>2 DEF Synthesize, Nothing
  <1>3. CASE f \in DOMAIN Fields /\ Fields[f].enum \in DOMAIN Enums
             /\ Enums[Fields[f].enum].values # <<>>
    BY <1>3, ChooseFromEnumType DEF Synthesize
  <1>4. CASE f \in DOMAIN Fields /\ ~(Fields[f].enum \in DOMAIN Enums
             /\ Enums[Fields[f].enum].values # <<>>)
    <2>1. CASE Fields[f].kind = "pan"
      BY <1>1, <1>4, <2>1, PANType DEF Synthesize
    <2>2. CASE Fields[f].kind = "amount"
      BY <1>4, <2>2, DrawsType DEF Synthesize, RAND
    <2>3. CASE Fields[f].kind = "date"
      BY <1>4, <2>3, ExpiryType DEF Synthesize
    <2>4. CASE Fields[f].kind \notin {"pan", "amount", "date"}
      BY <1>4, <2>4 DEF Synthesize, Nothing
    <2> QED
      BY <2>1, <2>2, <2>3, <2>4
  <1> QED
    BY <1>2, <1>3, <1>4

\* Overrides hold templates.
IsOverrides(m) == \A f \in DOMAIN m : m[f] \in Templates

LEMMA ExpandSimValueType ==
    ASSUME NEW ctx, NEW g \in Gens, NEW v, v.template \in Templates, NEW f
    PROVE  ExpandSimValue(ctx, g, v, f).gen \in Gens
  BY ChooseFromEnumType, ExpandType DEF ExpandSimValue

LEMMA SimTemplatesType ==
    /\ \A f \in DOMAIN SimDefaults : SimDefaults[f].template \in Templates
    /\ \A mti : \A f \in DOMAIN SimTemplate(mti) : SimTemplate(mti)[f].template \in Templates
  <1>1. ASSUME NEW f \in DOMAIN SimDefaults PROVE SimDefaults[f].template \in Templates
    <2>1. SimDefaults[f] \in SimValues
      BY DEF SimValues
    <2> QED
      BY <2>1 DEF Templates
  <1>2. ASSUME NEW mti, NEW f \in DOMAIN SimTemplate(mti)
        PROVE  SimTemplate(mti)[f].template \in Templates
    <2>1. mti \in DOMAIN SimTemplates /\ SimTemplate(mti) = SimTemplates[mti]
      BY DEF SimTemplate
    <2>2. SimTemplate(mti)[f] \in SimValues
      BY <2>1 DEF SimValues
    <2> QED
      BY <2>2 DEF Templates
  <1> QED
    BY <1>1, <1>2

LEMMA ValueOfType ==
    ASSUME NEW ctx, NEW g \in Gens, NEW f, NEW mti,
           NEW templates, IsOverrides(templates), NEW defaults, IsOverrides(defaults)
    PROVE  ValueOf(ctx, g, f, mti, templates, defaults).gen \in Gens
  BY SimTemplatesType, ExpandType, ExpandSimValueType, SynthesizeType DEF ValueOf, IsOverrides

\* Each value of a resolved map is that of an entry for its field, and every field that
\* an entry names has one.
LEMMA ResolvedIs ==
    ASSUME NEW entries, NEW m \in Resolved(entries)
    PROVE  /\ DOMAIN m = {FieldOf(e.key) : e \in {d \in entries : FieldOf(d.key) > 0}}
           /\ \A f \in DOMAIN m : \E e \in entries :
                  FieldOf(e.key) > 0 /\ FieldOf(e.key) = f /\ m[f] = e.template
  BY DEF Resolved

\* What overrides of a configuration resolve to.
LEMMA ResolvedType ==
    ASSUME NEW c \in Configs, NEW entries \in SUBSET OverridesOf(c), NEW m \in Resolved(entries)
    PROVE  IsOverrides(m)
  <1>1. ASSUME NEW e \in entries PROVE e.template \in Templates
    BY DEF Templates
  <1>2. ASSUME NEW f \in DOMAIN m PROVE m[f] \in Templates
    <2>1. PICK e \in entries : FieldOf(e.key) > 0 /\ FieldOf(e.key) = f /\ m[f] = e.template
      BY ResolvedIs, ZenonT(30)
    <2> QED
      BY <1>1, <2>1
  <1> QED
    BY <1>2 DEF IsOverrides

-----------------------------------------------------------------------------
(* Sums *)

\* The recursive function of a sum.
Sums(h, weights) ==
    h = [s \in SUBSET DOMAIN weights |->
            IF s = {} THEN 0 ELSE h[s \ {Max(s)}] + weights[Max(s)]]

LEMMA SumsExists ==
    ASSUME NEW n \in Nat, NEW weights \in [1..n -> Int]
    PROVE  \E h \in [SUBSET (1..n) -> Int] : Sums(h, weights)
  <1> DEFINE step == [p \in Int \X (1..n) |-> p[1] + weights[p[2]]]
  <1>1. step \in [Int \X (1..n) -> Int]
    OBVIOUS
  <1>2. IsFiniteSet(1..n) /\ 1..n \in SUBSET Int /\ 0 \in Int
    BY FS_Interval
  <1>3. PICK h \in [SUBSET (1..n) -> Int] : Folds(h, 1..n, 0, step)
    <2> HIDE DEF step
    <2> QED
      BY <1>1, <1>2, FoldExists, Zenon
  <1>4. ASSUME NEW s \in SUBSET (1..n)
        PROVE  h[s] = IF s = {} THEN 0 ELSE h[s \ {Max(s)}] + weights[Max(s)]
    <2>1. CASE s # {}
      <3>1. Max(s) \in 1..n
        BY <1>2, <2>1, FS_Subset, FiniteMax
      <3>2. h[s] = step[<<h[s \ {Max(s)}], Max(s)>>]
        BY <1>3, <2>1 DEF Folds
      <3>3. h[s \ {Max(s)}] \in Int
        OBVIOUS
      <3> QED
        BY <2>1, <3>1, <3>2, <3>3
    <2> QED
      BY <1>3, <2>1 DEF Folds
  <1>5. h = [s \in SUBSET (1..n) |-> h[s]]
    OBVIOUS
  <1>6. Sums(h, weights)
    BY <1>4, <1>5 DEF Sums
  <1> QED
    BY <1>6

\* The sum as the code makes it, from the first on.
LEMMA SumSteps ==
    ASSUME NEW n \in Nat, NEW weights \in [1..n -> Int]
    PROVE  \E sums \in [0..n -> Int] :
              /\ sums[0] = 0 /\ \A i \in 1..n : sums[i] = sums[i - 1] + weights[i]
              /\ SumOf(weights) = sums[n]
  <1> DEFINE h == CHOOSE h : Sums(h, weights)
             sums == [i \in 0..n |-> h[1..i]]
  <1>1. SumOf(weights) = h[1..n]
    BY DEF SumOf, FoldLeft, MapThenFoldSet, Max, Sums
  <1>2. Sums(h, weights)
    BY SumsExists
  <1> HIDE DEF h
  <1>3. sums[0] = 0
    <2>1. 1..0 = {}
      OBVIOUS
    <2> QED
      BY <1>2, <2>1 DEF Sums
  <1>4. ASSUME NEW i \in 1..n PROVE sums[i] = sums[i - 1] + weights[i]
    <2>1. 1..i \in SUBSET (1..n) /\ 1..i # {}
      OBVIOUS
    <2>2. Max(1..i) = i /\ (1..i) \ {i} = 1..(i - 1)
      BY MaxOfInterval
    <2>3. h[1..i] = h[1..(i - 1)] + weights[i]
      BY <1>2, <2>1, <2>2 DEF Sums
    <2> QED
      BY <2>3
  <1>5. sums \in [0..n -> Int]
    <2> DEFINE T == {i \in 0..n : sums[i] \in Int}
    <2>1. 0 \in T /\ \A i \in 1..n : i - 1 \in T => i \in T
      <3> HIDE DEF sums
      <3> QED
        BY <1>3, <1>4
    <2>2. \A i \in 0..n : i \in T
      <3> HIDE DEF T
      <3> QED
        BY <2>1, UpTo
    <2> QED
      BY <2>2
  <1>6. SumOf(weights) = sums[n]
    BY <1>1
  <1> HIDE DEF sums
  <1> QED
    BY <1>3, <1>4, <1>5, <1>6

\* A sum is that of all but the last, and the last.
LEMMA SumOfLast ==
    ASSUME NEW n \in Nat, NEW weights \in [1..(n + 1) -> Int]
    PROVE  LET shorter == [i \in 1..n |-> weights[i]]
           IN SumOf(shorter) \in Int /\ SumOf(weights) = SumOf(shorter) + weights[n + 1]
  <1> DEFINE shorter == [i \in 1..n |-> weights[i]]
  <1>1. shorter \in [1..n -> Int] /\ n + 1 \in Nat
    OBVIOUS
  <1>2. PICK sums \in [0..(n + 1) -> Int] :
            /\ sums[0] = 0 /\ \A i \in 1..(n + 1) : sums[i] = sums[i - 1] + weights[i]
            /\ SumOf(weights) = sums[n + 1]
    BY <1>1, SumSteps
  <1>3. PICK part \in [0..n -> Int] :
            /\ part[0] = 0 /\ \A i \in 1..n : part[i] = part[i - 1] + shorter[i]
            /\ SumOf(shorter) = part[n]
    BY <1>1, SumSteps
  <1>4. \A i \in 0..n : part[i] = sums[i]
    <2> DEFINE T == {i \in 0..n : part[i] = sums[i]}
    <2>1. 0 \in T
      BY <1>2, <1>3
    <2>2. ASSUME NEW i \in 1..n, i - 1 \in T PROVE i \in T
      <3>1. part[i] = part[i - 1] + weights[i] /\ sums[i] = sums[i - 1] + weights[i]
        BY <1>2, <1>3, SMTT(30)
      <3> QED
        BY <2>2, <3>1
    <2> HIDE DEF T
    <2>3. \A i \in 0..n : i \in T
      BY <2>1, <2>2, UpTo
    <2> QED
      BY <2>3 DEF T
  <1>5. SumOf(shorter) = sums[n] /\ sums[n] \in Int
    BY <1>3, <1>4
  <1>6. SumOf(weights) = sums[n] + weights[n + 1]
    BY <1>2
  <1> QED
    BY <1>5, <1>6

\* The sums of the prefixes, one weight after the other.
LEMMA PrefixSums ==
    ASSUME NEW n \in Nat, NEW weights \in [1..n -> Int]
    PROVE  /\ \A i \in 0..n : SumOf(SubSeq(weights, 1, i)) \in Int
           /\ SumOf(SubSeq(weights, 1, 0)) = 0
           /\ \A i \in 1..n : SumOf(SubSeq(weights, 1, i)) = SumOf(SubSeq(weights, 1, i - 1)) + weights[i]
           /\ SumOf(SubSeq(weights, 1, n)) = SumOf(weights)
  <1> DEFINE part(i) == [j \in 1..i |-> weights[j]]
  <1>1. ASSUME NEW i \in 0..n PROVE SubSeq(weights, 1, i) = part(i) /\ part(i) \in [1..i -> Int]
    <2>1. weights \in Seq(Int) /\ Len(weights) = n
      OBVIOUS
    <2> QED
      BY <2>1
  <1>2. part(n) = weights
    OBVIOUS
  <1>3. SumOf(part(0)) = 0
    <2>1. part(0) \in [1..0 -> Int] /\ 0 \in Nat
      OBVIOUS
    <2>2. PICK sums \in [0..0 -> Int] : sums[0] = 0 /\ SumOf(part(0)) = sums[0]
      <3> HIDE DEF part
      <3> QED
        BY <2>1, SumSteps
    <2> QED
      BY <2>2
  <1>4. ASSUME NEW i \in 1..n
        PROVE  SumOf(part(i)) = SumOf(part(i - 1)) + weights[i] /\ SumOf(part(i - 1)) \in Int
    <2>1. part(i) \in [1..((i - 1) + 1) -> Int] /\ i - 1 \in Nat
      OBVIOUS
    <2>2. part(i - 1) = [j \in 1..(i - 1) |-> part(i)[j]] /\ part(i)[(i - 1) + 1] = weights[i]
      OBVIOUS
    <2> HIDE DEF part
    <2>3. LET shorter == [j \in 1..(i - 1) |-> part(i)[j]]
          IN SumOf(shorter) \in Int /\ SumOf(part(i)) = SumOf(shorter) + part(i)[(i - 1) + 1]
      BY <2>1, SumOfLast
    <2> QED
      BY <2>2, <2>3
  <1> HIDE DEF part
  <1>5. \A i \in 0..n : SumOf(part(i)) \in Int
    <2>1. ASSUME NEW i \in 0..n PROVE SumOf(part(i)) \in Int
      <3>1. CASE i = 0
        BY <1>3, <3>1
      <3>2. CASE i \in 1..n
        BY <1>4, <3>2
      <3> QED
        BY <3>1, <3>2
    <2> QED
      BY <2>1
  <1>6. ASSUME NEW i \in 0..n PROVE SumOf(SubSeq(weights, 1, i)) = SumOf(part(i))
    BY <1>1
  <1>7. 0 \in 0..n /\ n \in 0..n /\ \A i \in 1..n : i \in 0..n /\ i - 1 \in 0..n
    OBVIOUS
  <1> QED
    BY <1>2, <1>3, <1>4, <1>5, <1>6, <1>7

\* What counts of a number of weights: those at the places of a set.
CountedAt(weights, places) == [i \in DOMAIN weights |-> IF i \in places THEN weights[i] ELSE 0]

\* A draw below the total falls in one place only, and in a set of places as often as they
\* are wide.
LEMMA DrawsFollowWeights ==
    ASSUME NEW n \in Nat, NEW weights \in [1..n -> Nat \ {0}], NEW places
    PROVE  /\ \A r \in 0..(SumOf(weights) - 1) : PlaceOf(weights, r) \in 1..n
           /\ Cardinality({r \in 0..(SumOf(weights) - 1) : PlaceOf(weights, r) \in places})
                  = SumOf(CountedAt(weights, places))
  <1> DEFINE sum(i) == SumOf(SubSeq(weights, 1, i))
             counted == CountedAt(weights, places)
             count(i) == SumOf(SubSeq(counted, 1, i))
             draws(i) == {r \in 0..(sum(i) - 1) : PlaceOf(weights, r) \in places}
  <1>1. /\ \A i \in 0..n : sum(i) \in Int
        /\ sum(0) = 0 /\ sum(n) = SumOf(weights)
        /\ \A i \in 1..n : sum(i) = sum(i - 1) + weights[i]
    <2>1. weights \in [1..n -> Int]
      OBVIOUS
    <2> QED
      BY <2>1, PrefixSums
  <1>2. counted \in [1..n -> Int] /\ \A i \in 1..n : counted[i] = IF i \in places THEN weights[i] ELSE 0
    BY DEF CountedAt
  <1>3. /\ \A i \in 0..n : count(i) \in Int
        /\ count(0) = 0 /\ count(n) = SumOf(counted)
        /\ \A i \in 1..n : count(i) = count(i - 1) + counted[i]
    <2> HIDE DEF counted
    <2> QED
      BY <1>2, PrefixSums
  <1>4. DOMAIN weights = 1..n
    OBVIOUS
  <1>5. \A i \in DOMAIN weights : \A r \in Int :
            (sum(i) > r /\ sum(i - 1) <= r) => PlaceOf(weights, r) \in DOMAIN weights
                /\ sum(PlaceOf(weights, r)) > r /\ sum(PlaceOf(weights, r) - 1) <= r
    BY DEF PlaceOf
  <1> HIDE DEF sum, counted, count
  <1>6. \A i \in 0..n : \A j \in 0..i : sum(j) <= sum(i)
    <2> DEFINE T == {i \in 0..n : \A j \in 0..i : sum(j) <= sum(i)}
    <2>1. 0 \in T
      BY <1>1
    <2>2. ASSUME NEW i \in 1..n, i - 1 \in T PROVE i \in T
      <3>1. sum(i - 1) <= sum(i) /\ sum(i) \in Int /\ sum(i - 1) \in Int
        BY <1>1
      <3>2. ASSUME NEW j \in 0..i PROVE sum(j) <= sum(i)
        <4>1. CASE j = i
          BY <3>1, <4>1
        <4>2. CASE j \in 0..(i - 1)
          <5>1. sum(j) <= sum(i - 1)
            BY <2>2, <4>2
          <5>2. sum(j) \in Int
            BY <1>1, <4>2
          <5> QED
            BY <3>1, <5>1, <5>2
        <4> QED
          BY <4>1, <4>2
      <3> QED
        BY <3>2
    <2> HIDE DEF T
    <2>3. \A i \in 0..n : i \in T
      BY <2>1, <2>2, UpTo
    <2> QED
      BY <2>3 DEF T
  <1>7. ASSUME NEW i \in 1..n, NEW r \in sum(i - 1)..(sum(i) - 1) PROVE PlaceOf(weights, r) = i
    <2> DEFINE p == PlaceOf(weights, r)
    <2>1. sum(i) \in Int /\ sum(i - 1) \in Int /\ sum(i) > r /\ sum(i - 1) <= r
      BY <1>1
    <2>2. p \in 1..n /\ sum(p) > r /\ sum(p - 1) <= r
      BY <1>4, <1>5, <2>1
    <2> HIDE DEF p
    <2>3. sum(p) \in Int /\ sum(p - 1) \in Int
      BY <1>1, <2>2
    <2>4. ~(p < i)
      <3> SUFFICES ASSUME p < i PROVE FALSE
        OBVIOUS
      <3>1. sum(p) <= sum(i - 1)
        BY <1>6, <2>2
      <3> QED
        BY <2>1, <2>2, <2>3, <3>1
    <2>5. ~(i < p)
      <3> SUFFICES ASSUME i < p PROVE FALSE
        OBVIOUS
      <3>1. sum(i) <= sum(p - 1)
        BY <1>6, <2>2
      <3> QED
        BY <2>1, <2>2, <2>3, <3>1
    <2>6. p = i
      BY <2>2, <2>4, <2>5
    <2> QED
      BY <2>6 DEF p
  <1>8. \A i \in 0..n : /\ \A r \in 0..(sum(i) - 1) : PlaceOf(weights, r) \in 1..n
                       /\ IsFiniteSet(draws(i)) /\ Cardinality(draws(i)) = count(i)
    <2> DEFINE T == {i \in 0..n : /\ \A r \in 0..(sum(i) - 1) : PlaceOf(weights, r) \in 1..n
                                 /\ IsFiniteSet(draws(i)) /\ Cardinality(draws(i)) = count(i)}
    <2>1. 0 \in T
      <3>1. 0..(sum(0) - 1) = {} /\ draws(0) = {}
        BY <1>1
      <3> HIDE DEF draws
      <3>2. IsFiniteSet(draws(0)) /\ Cardinality(draws(0)) = count(0)
        BY <1>3, <3>1, FS_EmptySet
      <3> QED
        BY <3>1, <3>2
    <2>2. ASSUME NEW i \in 1..n, i - 1 \in T PROVE i \in T
      <3>1. /\ sum(i - 1) \in Int /\ sum(i) = sum(i - 1) + weights[i] /\ weights[i] \in Nat \ {0}
            /\ 0 <= sum(i - 1)
        <4>1. sum(0) <= sum(i - 1)
          BY <1>6
        <4> QED
          BY <1>1, <4>1
      <3> DEFINE last == sum(i - 1)..(sum(i) - 1)
      <3>2. 0..(sum(i) - 1) = (0..(sum(i - 1) - 1)) \union last
        BY <3>1
      <3>3. \A r \in 0..(sum(i) - 1) : PlaceOf(weights, r) \in 1..n
        BY <1>7, <2>2, <3>2
      <3>4. IsFiniteSet(last) /\ Cardinality(last) = weights[i]
        <4>1. sum(i - 1) \in Int /\ sum(i) - 1 \in Int
          BY <3>1
        <4>2. /\ IsFiniteSet(last)
              /\ Cardinality(last)
                   = IF sum(i - 1) > sum(i) - 1 THEN 0 ELSE (sum(i) - 1) - sum(i - 1) + 1
          BY <4>1, FS_Interval
        <4> HIDE DEF last
        <4> QED
          BY <3>1, <4>2
      <3>5. count(i) = count(i - 1) + counted[i] /\ count(i - 1) \in Int
        BY <1>3
      <3>6. CASE i \in places
        <4>1. draws(i) = draws(i - 1) \union last /\ draws(i - 1) \intersect last = {}
          BY <1>7, <3>1, <3>2, <3>6
        <4>2. IsFiniteSet(draws(i)) /\ Cardinality(draws(i)) = Cardinality(draws(i - 1)) + Cardinality(last)
          <5> HIDE DEF last, draws
          <5>1. IsFiniteSet(draws(i - 1))
            BY <2>2
          <5>2. Cardinality({}) = 0
            BY FS_EmptySet
          <5>3. /\ IsFiniteSet(draws(i - 1) \union last)
                /\ Cardinality(draws(i - 1) \union last)
                      = Cardinality(draws(i - 1)) + Cardinality(last)
                          - Cardinality(draws(i - 1) \intersect last)
            BY <3>4, <5>1, FS_Union
          <5>4. Cardinality(draws(i - 1)) \in Nat /\ Cardinality(last) \in Nat
            BY <3>4, <5>1, FS_CardinalityType
          <5>5. Cardinality(draws(i - 1) \intersect last) = 0
            BY <4>1, <5>2
          <5>6. draws(i) = draws(i - 1) \union last
            BY <4>1
          <5> QED
            BY <5>3, <5>4, <5>5, <5>6
        <4> QED
          BY <1>2, <2>2, <3>3, <3>4, <3>5, <3>6, <4>2
      <3>7. CASE i \notin places
        <4>1. draws(i) = draws(i - 1)
          BY <1>7, <3>1, <3>2, <3>7
        <4>2. IsFiniteSet(draws(i - 1)) /\ Cardinality(draws(i - 1)) = count(i - 1)
          BY <2>2
        <4>3. count(i) = count(i - 1)
          BY <1>2, <3>5, <3>7
        <4> HIDE DEF draws
        <4> QED
          BY <3>3, <4>1, <4>2, <4>3
      <3> QED
        BY <3>6, <3>7
    <2> HIDE DEF T
    <2>3. \A i \in 0..n : i \in T
      BY <2>1, <2>2, UpTo
    <2> QED
      BY <2>3 DEF T
  <1>9. n \in 0..n
    OBVIOUS
  <1> QED
    BY <1>1, <1>3, <1>8, <1>9 DEF counted

-----------------------------------------------------------------------------
(* PANs *)

Digits == 0..9

\* macroPAN doubles a digit and takes nine off when that is two digits, which is the
\* sum of the two.
LEMMA DoubledIs ==
    ASSUME NEW d \in Digits PROVE Doubled(d) = ((2 * d) \div 10) + ((2 * d) % 10) /\ Doubled(d) \in Int
  <1>1. CASE d \in 0..4
    BY <1>1 DEF Doubled
  <1>2. CASE d \in 5..9
    BY <1>2 DEF Doubled
  <1> QED
    BY <1>1, <1>2 DEF Digits

LEMMA ToNextTen == ASSUME NEW n \in Int PROVE (n + ((10 - (n % 10)) % 10)) % 10 = 0
  <1>1. n % 10 \in 0..9 /\ n = 10 * (n \div 10) + (n % 10)
    OBVIOUS
  <1>2. CASE n % 10 = 0
    BY <1>1, <1>2
  <1>3. CASE n % 10 \in 1..9
    <2>1. (10 - (n % 10)) % 10 = 10 - (n % 10)
      BY <1>3
    <2>2. n + (10 - (n % 10)) = 10 * ((n \div 10) + 1)
      BY <1>1
    <2> QED
      BY <2>1, <2>2
  <1> QED
    BY <1>1, <1>2, <1>3

\* The check digit makes the sum a multiple of ten.
LEMMA CheckDigitMakesValid ==
    ASSUME NEW body \in Seq(Digits)
    PROVE  LuhnValid(Append(body, CheckDigit(body)))
  <1> DEFINE n == Len(body)
             counted == [i \in DOMAIN body |->
                            IF (n - i) % 2 = 0 THEN Doubled(body[i]) ELSE body[i]]
             digits  == Append(body, CheckDigit(body))
             value(i) == IF (Len(digits) - i) % 2 = 1
                         THEN ((2 * digits[i]) \div 10) + ((2 * digits[i]) % 10) ELSE digits[i]
             values  == [i \in DOMAIN digits |-> value(i)]
  <1>1. n \in Nat /\ DOMAIN body = 1..n /\ \A i \in 1..n : body[i] \in Digits
    BY LenProperties, ElementOfSeq
  <1>2. CheckDigit(body) = (10 - (SumOf(counted) % 10)) % 10
    BY DEF CheckDigit
  <1>3. /\ DOMAIN digits = 1..(n + 1) /\ Len(digits) = n + 1
        /\ digits[n + 1] = CheckDigit(body) /\ \A i \in 1..n : digits[i] = body[i]
    OBVIOUS
  <1>4. counted \in [1..n -> Int]
    BY <1>1, DoubledIs DEF Digits
  <1> HIDE DEF n, digits
  <1>5. SumOf(counted) \in Int
    <2>1. PICK sums \in [0..n -> Int] : SumOf(counted) = sums[n]
      <3> HIDE DEF counted
      <3> QED
        BY <1>1, <1>4, SumSteps
    <2> QED
      BY <1>1, <2>1
  <1>6. ASSUME NEW i \in 1..n PROVE value(i) = counted[i]
    <2>1. (n + 1 - i) % 2 = 1 <=> (n - i) % 2 = 0
      BY <1>1
    <2> QED
      BY <1>1, <1>3, <2>1, DoubledIs
  <1>7. value(n + 1) = CheckDigit(body)
    BY <1>1, <1>3
  <1>8. CheckDigit(body) \in Int
    BY <1>2, <1>5
  <1>9. /\ values \in [1..(n + 1) -> Int] /\ values[n + 1] = CheckDigit(body)
        /\ counted = [i \in 1..n |-> values[i]]
    <2>1. \A i \in 1..n : counted[i] \in Int
      BY <1>4
    <2> HIDE DEF value
    <2>2. \A i \in 1..(n + 1) : value(i) \in Int
      BY <1>1, <1>6, <1>7, <1>8, <2>1
    <2>3. values \in [1..(n + 1) -> Int] /\ \A i \in 1..(n + 1) : values[i] = value(i)
      BY <1>3, <2>2
    <2> QED
      BY <1>1, <1>4, <1>6, <1>7, <2>3
  <1> HIDE DEF counted
  <1>10. SumOf(values) = SumOf(counted) + CheckDigit(body)
    <2> HIDE DEF values
    <2> QED
      BY <1>1, <1>9, SumOfLast
  <1>11. SumOf(values) % 10 = 0
    BY <1>2, <1>5, <1>10, ToNextTen
  <1> QED
    BY <1>11 DEF LuhnValid, digits

\* What macroPAN gives for a prefix of digits is a PAN.
LEMMA PANIsValid ==
    ASSUME NEW ctx \in Contexts, NEW g \in Gens, NEW prefix \in Seq(Digits),
           NEW length \in Nat \ {0, 1}
    PROVE  LuhnValid(PAN(ctx, g, prefix, length).value)
  <1> DEFINE missing == IF Len(prefix) < length - 1 THEN length - 1 - Len(prefix) ELSE 0
             drawn == Draws(ctx, g, missing, 10).value
             body  == SubSeq(prefix \o drawn, 1, length - 1)
  <1>1. Len(prefix) \in Nat /\ missing \in Nat
    BY LenProperties
  <1> HIDE DEF missing
  <1>2. drawn \in [1..missing -> 0..9]
    <2>1. drawn \in [1..missing -> 0..(10 - 1)]
      <3>1. 10 \in Nat \ {0}
        OBVIOUS
      <3> QED
        BY <1>1, <3>1, DrawsValue, Zenon
    <2> QED
      BY <2>1
  <1> HIDE DEF drawn
  <1>3. drawn \in Seq(Digits) /\ Len(drawn) = missing
    BY <1>1, <1>2 DEF Digits
  <1>4. prefix \o drawn \in Seq(Digits) /\ Len(prefix \o drawn) = Len(prefix) + missing
    BY <1>3, ConcatProperties
  <1>5. body \in Seq(Digits)
    <2>1. length - 1 \in 0..Len(prefix \o drawn)
      BY <1>1, <1>4 DEF missing
    <2> QED
      BY <1>4, <2>1, SubSeqProperties
  <1> HIDE DEF body
  <1>6. PAN(ctx, g, prefix, length).value = Append(body, CheckDigit(body))
    BY DEF PAN, missing, drawn, body
  <1> QED
    BY <1>5, <1>6, CheckDigitMakesValid

-----------------------------------------------------------------------------
(* The fields of a message *)

\* The recursive function of DetermineFields.
Determines(h, mti, fields) ==
    h = [s \in SUBSET fields |->
            IF s = {} THEN <<>>
            ELSE h[s \ {Max(s)}] \o [i \in 1..Cardinality(RulesFor(Max(s), mti)) |-> Max(s)]]

OnceAtMost(f, list) == \A i, j \in DOMAIN list : list[i] = f /\ list[j] = f => i = j

LEMMA DetermineFieldsFolds ==
    ASSUME NEW mti, NEW fields \in SUBSET DOMAIN Fields
    PROVE  \E h : Determines(h, mti, fields) /\ DetermineFields(mti, fields) = h[fields]
  <1> DEFINE times(f) == [i \in 1..Cardinality(RulesFor(f, mti)) |-> f]
             step == [p \in Seq(fields) \X fields |-> p[1] \o times(p[2])]
             h == CHOOSE h : Determines(h, mti, fields)
  <1>1. fields \in SUBSET Int /\ IsFiniteSet(fields)
    BY FieldsAssumption, FS_Subset
  <1>2. ASSUME NEW f \in fields PROVE times(f) \in Seq(fields)
    <2>1. RulesFor(f, mti) \in SUBSET DOMAIN Fields[f].rules
      BY DEF RulesFor
    <2>2. Cardinality(RulesFor(f, mti)) \in Nat
      BY <2>1, FieldsAssumption, FS_Subset, FS_CardinalityType
    <2> QED
      BY <2>2
  <1> HIDE DEF times
  <1>3. step \in [Seq(fields) \X fields -> Seq(fields)]
    BY <1>2, ConcatProperties
  <1>4. PICK k \in [SUBSET fields -> Seq(fields)] : Folds(k, fields, <<>>, step)
    <2>1. <<>> \in Seq(fields)
      OBVIOUS
    <2> HIDE DEF step
    <2> QED
      BY <1>1, <1>3, <2>1, FoldExists, Zenon
  <1>5. ASSUME NEW s \in SUBSET fields
        PROVE  k[s] = IF s = {} THEN <<>> ELSE k[s \ {Max(s)}] \o times(Max(s))
    <2>1. CASE s # {}
      <3>1. Max(s) \in fields
        BY <1>1, <2>1, FS_Subset, FiniteMax
      <3>2. k[s] = step[<<k[s \ {Max(s)}], Max(s)>>]
        BY <1>4, <2>1 DEF Folds
      <3>3. k[s \ {Max(s)}] \in Seq(fields)
        OBVIOUS
      <3> QED
        BY <2>1, <3>1, <3>2, <3>3
    <2> QED
      BY <1>4, <2>1 DEF Folds
  <1>6. Determines(k, mti, fields)
    <2>1. k = [s \in SUBSET fields |-> k[s]]
      OBVIOUS
    <2> QED
      BY <1>5, <2>1 DEF Determines, times
  <1>7. Determines(h, mti, fields)
    BY <1>6
  <1>8. DetermineFields(mti, fields) = h[fields]
    BY DEF DetermineFields, FoldUp, MapThenFoldSet, Max, Determines
  <1> QED
    BY <1>7, <1>8

LEMMA TimesType ==
    ASSUME NEW mti, NEW f \in DOMAIN Fields
    PROVE  Cardinality(RulesFor(f, mti)) \in Nat
  <1>1. RulesFor(f, mti) \in SUBSET DOMAIN Fields[f].rules
    BY DEF RulesFor
  <1> QED
    BY <1>1, FieldsAssumption, FS_Subset, FS_CardinalityType

\* Each field of the set, and it alone, as often as it has rules.
LEMMA DetermineFieldsType ==
    ASSUME NEW mti, NEW fields \in SUBSET DOMAIN Fields
    PROVE  /\ DetermineFields(mti, fields) \in Seq(fields)
           /\ \A f \in fields : Cardinality(RulesFor(f, mti)) <= 1 =>
                 OnceAtMost(f, DetermineFields(mti, fields))
  <1> DEFINE times(f) == [i \in 1..Cardinality(RulesFor(f, mti)) |-> f]
             once(f, list) == Cardinality(RulesFor(f, mti)) <= 1 => OnceAtMost(f, list)
  <1>1. fields \in SUBSET Int /\ IsFiniteSet(fields)
    BY FieldsAssumption, FS_Subset
  <1>2. PICK h : Determines(h, mti, fields) /\ DetermineFields(mti, fields) = h[fields]
    BY DetermineFieldsFolds
  <1> DEFINE T == {s \in SUBSET fields : h[s] \in Seq(s) /\ \A f \in s : once(f, h[s])}
  <1>3. {} \in T
    <2>1. h[{}] = <<>>
      BY <1>2 DEF Determines
    <2>2. h[{}] \in Seq({}) /\ {} \in SUBSET fields
      <3>1. <<>> \in Seq({})
        OBVIOUS
      <3> QED
        BY <2>1, <3>1
    <2> HIDE DEF once
    <2> QED
      BY <2>2
  <1>4. ASSUME NEW s \in SUBSET fields, s # {}, s \ {Max(s)} \in T PROVE s \in T
    <2> DEFINE m == Max(s)
               r == s \ {m}
               k == Cardinality(RulesFor(m, mti))
    <2>1. m \in s /\ m \in DOMAIN Fields
      BY <1>1, <1>4, FS_Subset, FiniteMax
    <2>2. k \in Nat
      BY <2>1, TimesType
    <2>3. h[s] = h[r] \o times(m)
      BY <1>2, <1>4 DEF Determines
    <2>4. h[r] \in Seq(r) /\ \A f \in r : once(f, h[r])
      BY <1>4
    <2> HIDE DEF m, k, once
    <2>5. /\ times(m) \in Seq({m}) /\ Len(times(m)) = k /\ \A i \in 1..k : times(m)[i] = m
      BY <2>2 DEF k
    <2> DEFINE all == h[s]
               list == times(m)
               first == h[r]
    <2> HIDE DEF list, first, all
    <2>6. /\ first \in Seq(s) /\ list \in Seq(s) /\ Len(first) \in Nat
          /\ \A i \in 1..Len(first) : first[i] \in r
      <3>1. first \in Seq(r) /\ list \in Seq({m})
        BY <2>4, <2>5 DEF first, list
      <3> QED
        BY <2>1, <3>1, LenProperties, ElementOfSeq
    <2>7. /\ all \in Seq(s) /\ Len(all) = Len(first) + k
          /\ \A i \in 1..Len(all) : all[i] = IF i <= Len(first) THEN first[i] ELSE m
      <3>1. all = first \o list /\ Len(list) = k /\ \A i \in 1..k : list[i] = m
        BY <2>3, <2>5 DEF all, first, list
      <3>2. /\ first \o list \in Seq(s) /\ Len(first \o list) = Len(first) + Len(list)
            /\ \A i \in 1..Len(first) + Len(list) :
                  (first \o list)[i] = IF i <= Len(first) THEN first[i] ELSE list[i - Len(first)]
        BY <2>6, ConcatProperties
      <3> QED
        BY <2>2, <2>6, <3>1, <3>2
    <2>8. ASSUME NEW f \in s PROVE once(f, all)
      <3> SUFFICES ASSUME Cardinality(RulesFor(f, mti)) <= 1 PROVE OnceAtMost(f, all)
        BY DEF once
      <3>1. CASE f = m
        <4>1. k <= 1
          BY <3>1 DEF k
        <4>2. \A i \in 1..Len(all) : all[i] = f => i > Len(first)
          BY <2>6, <2>7, <3>1
        <4>3. DOMAIN all = 1..Len(all)
          BY <2>7
        <4> QED
          BY <2>2, <2>6, <2>7, <4>1, <4>2, <4>3 DEF OnceAtMost
      <3>2. CASE f # m
        <4>1. OnceAtMost(f, first)
          BY <2>4, <3>2 DEF once, first
        <4>2. DOMAIN all = 1..Len(all) /\ DOMAIN first = 1..Len(first)
          BY <2>6, <2>7
        <4>3. \A i \in DOMAIN all : all[i] = f => i \in DOMAIN first /\ first[i] = f
          BY <2>6, <2>7, <3>2, <4>2
        <4> QED
          BY <4>1, <4>3 DEF OnceAtMost
      <3> QED
        BY <3>1, <3>2
    <2> QED
      BY <2>7, <2>8 DEF all
  <1> HIDE DEF T
  <1>5. \A s \in SUBSET fields : s \in T
    BY <1>1, <1>3, <1>4, FoldInduction
  <1>6. fields \in T
    BY <1>5
  <1> QED
    BY <1>2, <1>6 DEF T

\* Where a field may have the value v from: what Set pins it to, or the other sources,
\* with the generator in some state.
ValueFrom(g, ctx, f, mti, set, templates, defaults) ==
    IF f \in DOMAIN set THEN Expand(ctx, g, set[f], f)
    ELSE ValueOf(ctx, g, f, mti, templates, defaults)

\* The values of a message, as they are collected, each from its source.
Collected(ctx, mti, set, templates, defaults) ==
    LET fields == DOMAIN Fields \union DOMAIN set
        all    == {ValueFrom(g, ctx, f, mti, set, templates, defaults).value : g \in Gens, f \in fields}
    IN {acc \in [gen : Gens, values : UNION {[S -> all] : S \in SUBSET fields}] :
            \A f \in DOMAIN acc.values : \E g \in Gens :
                acc.values[f] = ValueFrom(g, ctx, f, mti, set, templates, defaults).value}

LEMMA ValueFromType ==
    ASSUME NEW ctx, NEW g \in Gens, NEW f, NEW mti, NEW set, IsOverrides(set),
           NEW templates, IsOverrides(templates), NEW defaults, IsOverrides(defaults)
    PROVE  ValueFrom(g, ctx, f, mti, set, templates, defaults).gen \in Gens
  BY ExpandType, ValueOfType DEF ValueFrom, IsOverrides

LEMMA PutCollects ==
    ASSUME NEW ctx, NEW mti, NEW set, IsOverrides(set),
           NEW templates, IsOverrides(templates), NEW defaults, IsOverrides(defaults),
           NEW acc \in Collected(ctx, mti, set, templates, defaults),
           NEW f \in DOMAIN Fields \union DOMAIN set
    PROVE  Put(acc, f, ValueFrom(acc.gen, ctx, f, mti, set, templates, defaults))
               \in Collected(ctx, mti, set, templates, defaults)
  <1> DEFINE from(g, x) == ValueFrom(g, ctx, x, mti, set, templates, defaults)
             fields == DOMAIN Fields \union DOMAIN set
             all    == {from(g, x).value : g \in Gens, x \in fields}
             good   == UNION {[S -> all] : S \in SUBSET fields}
             next   == Put(acc, f, from(acc.gen, f))
             domain == DOMAIN acc.values \union {f}
  <1>1. /\ acc.gen \in Gens /\ acc.values \in good
        /\ \A x \in DOMAIN acc.values : \E g \in Gens : acc.values[x] = from(g, x).value
    BY DEF Collected
  <1>2. from(acc.gen, f).gen \in Gens
    BY <1>1, ValueFromType
  <1>3. next = [gen |-> from(acc.gen, f).gen,
                values |-> [x \in domain |-> IF x = f THEN from(acc.gen, f).value ELSE acc.values[x]]]
    BY DEF Put
  <1>4. from(acc.gen, f).value \in all
    BY <1>1
  <1> HIDE DEF from, next
  <1>5. next.gen \in Gens
    BY <1>2, <1>3
  <1>6. /\ DOMAIN next.values = domain
        /\ \A x \in domain : next.values[x] = IF x = f THEN from(acc.gen, f).value ELSE acc.values[x]
    BY <1>3
  <1>7. next.values \in good
    <2>1. PICK S \in SUBSET fields : acc.values \in [S -> all]
      BY <1>1
    <2>2. domain \in SUBSET fields
      BY <2>1
    <2>3. next.values = [x \in domain |-> next.values[x]]
      BY <1>3
    <2>4. \A x \in domain : next.values[x] \in all
      BY <1>4, <1>6, <2>1
    <2>5. next.values \in [domain -> all]
      <3> HIDE DEF domain, all
      <3> QED
        BY <2>3, <2>4
    <2> QED
      BY <2>2, <2>5
  <1>8. \A x \in DOMAIN next.values : \E g \in Gens : next.values[x] = from(g, x).value
    BY <1>1, <1>6
  <1>9. next = [gen |-> next.gen, values |-> next.values]
    BY <1>3
  <1>10. next \in [gen : Gens, values : good]
    <2> HIDE DEF good
    <2> QED
      BY <1>5, <1>7, <1>9
  <1>11. next \in Collected(ctx, mti, set, templates, defaults)
    BY <1>8, <1>10 DEF Collected, from
  <1> QED
    BY <1>11 DEF next, from

\* The two loops of Generate: over the fields to generate, and over those of Set.
Generates(h, ctx, g, fields, mti, templates, defaults) ==
    h = [s \in SUBSET DOMAIN fields |->
            IF s = {} THEN [gen |-> g, values |-> <<>>]
            ELSE Put(h[s \ {Max(s)}], fields[Max(s)],
                     ValueOf(ctx, h[s \ {Max(s)}].gen, fields[Max(s)], mti, templates, defaults))]

Sets(h, ctx, base, set) ==
    h = [s \in SUBSET DOMAIN set |->
            IF s = {} THEN base
            ELSE Put(h[s \ {Max(s)}], Max(s),
                     Expand(ctx, h[s \ {Max(s)}].gen, set[Max(s)], Max(s)))]

LEMMA GenerateFieldsFolds ==
    ASSUME NEW ctx, NEW g \in Gens, NEW mti, NEW set, IsOverrides(set),
           NEW templates, IsOverrides(templates), NEW defaults, IsOverrides(defaults),
           NEW fields \in Seq(DOMAIN Fields \ DOMAIN set)
    PROVE  \E h : /\ Generates(h, ctx, g, fields, mti, templates, defaults)
                  /\ GenerateFields(ctx, g, fields, mti, templates, defaults) = h[DOMAIN fields]
                  /\ \A s \in SUBSET DOMAIN fields :
                        h[s] \in Collected(ctx, mti, set, templates, defaults)
  <1> DEFINE base == [gen |-> g, values |-> <<>>]
             A == Collected(ctx, mti, set, templates, defaults)
             D == DOMAIN fields
             put(acc, f) == Put(acc, f, ValueOf(ctx, acc.gen, f, mti, templates, defaults))
             step == [p \in A \X D |-> put(p[1], fields[p[2]])]
             h == CHOOSE h : Generates(h, ctx, g, fields, mti, templates, defaults)
  <1>1. /\ D = 1..Len(fields) /\ Len(fields) \in Nat
        /\ \A i \in D : fields[i] \in DOMAIN Fields \ DOMAIN set
    BY LenProperties, ElementOfSeq
  <1>2. D \in SUBSET Int /\ IsFiniteSet(D)
    BY <1>1, FS_Interval
  <1>3. ASSUME NEW acc \in A, NEW f \in DOMAIN Fields \ DOMAIN set PROVE put(acc, f) \in A
    <2>1. ValueOf(ctx, acc.gen, f, mti, templates, defaults)
              = ValueFrom(acc.gen, ctx, f, mti, set, templates, defaults)
      BY DEF ValueFrom
    <2> QED
      BY <2>1, PutCollects
  <1> HIDE DEF A, D, put
  <1>4. step \in [A \X D -> A]
    BY <1>1, <1>3
  <1>5. base \in A
    <2> DEFINE from(f, k) == ValueFrom(k, ctx, f, mti, set, templates, defaults).value
               all  == {from(f, k) : k \in Gens, f \in DOMAIN Fields \union DOMAIN set}
               good == UNION {[S -> all] : S \in SUBSET (DOMAIN Fields \union DOMAIN set)}
    <2> HIDE DEF all
    <2>1. <<>> \in [{} -> all] /\ {} \in SUBSET (DOMAIN Fields \union DOMAIN set)
      OBVIOUS
    <2>2. <<>> \in good
      BY <2>1
    <2> HIDE DEF good
    <2>3. base \in [gen : Gens, values : good] /\ DOMAIN base.values = {}
      BY <2>2
    <2> HIDE DEF base
    <2> QED
      BY <2>3 DEF Collected, A, good, all
  <1>6. PICK k \in [SUBSET D -> A] : Folds(k, D, base, step)
    <2> HIDE DEF step
    <2> QED
      BY <1>2, <1>4, <1>5, FoldExists, Zenon
  <1>7. ASSUME NEW s \in SUBSET D
        PROVE  k[s] = IF s = {} THEN base ELSE put(k[s \ {Max(s)}], fields[Max(s)])
    <2>1. CASE s # {}
      <3>1. Max(s) \in D
        BY <1>2, <2>1, FS_Subset, FiniteMax
      <3>2. k[s] = step[<<k[s \ {Max(s)}], Max(s)>>]
        BY <1>6, <2>1 DEF Folds
      <3>3. k[s \ {Max(s)}] \in A
        OBVIOUS
      <3> QED
        BY <2>1, <3>1, <3>2, <3>3
    <2> QED
      BY <1>6, <2>1 DEF Folds
  <1>8. Generates(k, ctx, g, fields, mti, templates, defaults)
    <2>1. k = [s \in SUBSET D |-> k[s]]
      OBVIOUS
    <2> QED
      BY <1>7, <2>1 DEF Generates, put, D
  <1>9. Generates(h, ctx, g, fields, mti, templates, defaults)
    BY <1>8
  <1>10. GenerateFields(ctx, g, fields, mti, templates, defaults) = h[D]
    BY DEF GenerateFields, FoldLeft, MapThenFoldSet, Max, Generates, put, D
  <1> HIDE DEF h
  <1>11. \A s \in SUBSET D : h[s] \in A
    <2>1. h[{}] \in A
      BY <1>5, <1>9 DEF Generates, D
    <2>2. ASSUME NEW s \in SUBSET D, s # {}, h[s \ {Max(s)}] \in A, Max(s) \in D PROVE h[s] \in A
      <3>1. h[s] = put(h[s \ {Max(s)}], fields[Max(s)])
        BY <1>9, <2>2 DEF Generates, put, D
      <3> QED
        BY <1>1, <1>3, <2>2, <3>1
    <2> QED
      BY <1>2, <2>1, <2>2, FoldStays
  <1> QED
    BY <1>9, <1>10, <1>11 DEF A, D

LEMMA SetFieldsFolds ==
    ASSUME NEW ctx, NEW mti, NEW set, IsOverrides(set), DOMAIN set \in SUBSET Int,
           IsFiniteSet(DOMAIN set),
           NEW templates, IsOverrides(templates), NEW defaults, IsOverrides(defaults),
           NEW base \in Collected(ctx, mti, set, templates, defaults)
    PROVE  \E h : /\ Sets(h, ctx, base, set) /\ SetFields(ctx, base, set) = h[DOMAIN set]
                  /\ \A s \in SUBSET DOMAIN set :
                        /\ h[s] \in Collected(ctx, mti, set, templates, defaults)
                        /\ s \subseteq DOMAIN h[s].values
  <1> DEFINE A == Collected(ctx, mti, set, templates, defaults)
             D == DOMAIN set
             put(acc, f) == Put(acc, f, Expand(ctx, acc.gen, set[f], f))
             step == [p \in A \X D |-> put(p[1], p[2])]
             h == CHOOSE h : Sets(h, ctx, base, set)
  <1>1. ASSUME NEW acc \in A, NEW f \in D
        PROVE  put(acc, f) \in A /\ DOMAIN put(acc, f).values = DOMAIN acc.values \union {f}
    <2>1. Expand(ctx, acc.gen, set[f], f) = ValueFrom(acc.gen, ctx, f, mti, set, templates, defaults)
      BY DEF ValueFrom
    <2>2. f \in DOMAIN Fields \union DOMAIN set
      OBVIOUS
    <2>3. Put(acc, f, ValueFrom(acc.gen, ctx, f, mti, set, templates, defaults)) \in A
      BY <2>2, PutCollects, Zenon
    <2>4. DOMAIN put(acc, f).values = DOMAIN acc.values \union {f}
      BY DEF Put
    <2> QED
      BY <2>1, <2>3, <2>4
  <1> HIDE DEF A, D, put
  <1>2. step \in [A \X D -> A]
    BY <1>1
  <1>3. base \in A /\ D \in SUBSET Int /\ IsFiniteSet(D)
    BY DEF A, D
  <1>4. PICK k \in [SUBSET D -> A] : Folds(k, D, base, step)
    <2> HIDE DEF step
    <2> QED
      BY <1>2, <1>3, FoldExists, Zenon
  <1>5. ASSUME NEW s \in SUBSET D
        PROVE  k[s] = IF s = {} THEN base ELSE put(k[s \ {Max(s)}], Max(s))
    <2>1. CASE s # {}
      <3>1. Max(s) \in D
        BY <1>3, <2>1, FS_Subset, FiniteMax
      <3>2. k[s] = step[<<k[s \ {Max(s)}], Max(s)>>]
        BY <1>4, <2>1 DEF Folds
      <3>3. k[s \ {Max(s)}] \in A
        OBVIOUS
      <3> QED
        BY <2>1, <3>1, <3>2, <3>3
    <2> QED
      BY <1>4, <2>1 DEF Folds
  <1>6. Sets(k, ctx, base, set)
    <2>1. k = [s \in SUBSET D |-> k[s]]
      OBVIOUS
    <2> QED
      BY <1>5, <2>1 DEF Sets, put, D
  <1>7. Sets(h, ctx, base, set)
    BY <1>6
  <1>8. SetFields(ctx, base, set) = h[D]
    BY DEF SetFields, FoldUp, MapThenFoldSet, Max, Sets, put, D
  <1> HIDE DEF h
  <1>9. ASSUME NEW s \in SUBSET D, s # {} PROVE h[s] = put(h[s \ {Max(s)}], Max(s))
    BY <1>7, <1>9 DEF Sets, put, D
  <1>10. \A s \in SUBSET D : h[s] \in A
    <2>1. h[{}] \in A
      BY <1>3, <1>7 DEF Sets, D
    <2>2. ASSUME NEW s \in SUBSET D, s # {}, h[s \ {Max(s)}] \in A, Max(s) \in D PROVE h[s] \in A
      <3>1. put(h[s \ {Max(s)}], Max(s)) \in A
        BY <1>1, <2>2
      <3> QED
        BY <1>9, <2>2, <3>1
    <2> QED
      BY <1>3, <2>1, <2>2, FoldStays
  <1>11. \A s \in SUBSET D : s \subseteq DOMAIN h[s].values
    <2> DEFINE T == {s \in SUBSET D : s \subseteq DOMAIN h[s].values}
    <2>1. {} \in T
      OBVIOUS
    <2>2. ASSUME NEW s \in SUBSET D, s # {}, s \ {Max(s)} \in T PROVE s \in T
      <3>1. Max(s) \in D
        BY <1>3, <2>2, FS_Subset, FiniteMax
      <3>2. s \ {Max(s)} \in SUBSET D /\ s \ {Max(s)} \subseteq DOMAIN h[s \ {Max(s)}].values
        BY <2>2
      <3>3. DOMAIN h[s].values = DOMAIN h[s \ {Max(s)}].values \union {Max(s)}
        BY <1>1, <1>9, <1>10, <2>2, <3>1, <3>2
      <3> QED
        BY <3>2, <3>3
    <2> HIDE DEF T
    <2>3. \A s \in SUBSET D : s \in T
      BY <1>3, <2>1, <2>2, FoldInduction
    <2> QED
      BY <2>3 DEF T
  <1> QED
    BY <1>7, <1>8, <1>10, <1>11 DEF A, D

\* Fill gives each value from its source, and one to every field of Set.
LEMMA FillCollects ==
    ASSUME NEW ctx, NEW g \in Gens, NEW mti, NEW set, IsOverrides(set),
           DOMAIN set \in SUBSET Int, IsFiniteSet(DOMAIN set),
           NEW templates, IsOverrides(templates), NEW defaults, IsOverrides(defaults)
    PROVE  LET all == Fill(ctx, g, mti, set, templates, defaults)
           IN /\ all \in Collected(ctx, mti, set, templates, defaults)
              /\ DOMAIN set \subseteq DOMAIN all.values
  <1>1. ToGenerate(mti, set) \in Seq(DOMAIN Fields \ DOMAIN set)
    BY DetermineFieldsType DEF ToGenerate
  <1>2. GenerateFields(ctx, g, ToGenerate(mti, set), mti, templates, defaults)
            \in Collected(ctx, mti, set, templates, defaults)
    <2> DEFINE fields == ToGenerate(mti, set)
    <2>1. fields \in Seq(DOMAIN Fields \ DOMAIN set)
      BY <1>1
    <2> HIDE DEF fields
    <2>2. PICK h : /\ GenerateFields(ctx, g, fields, mti, templates, defaults) = h[DOMAIN fields]
                   /\ \A s \in SUBSET DOMAIN fields :
                         h[s] \in Collected(ctx, mti, set, templates, defaults)
      BY <2>1, GenerateFieldsFolds
    <2> QED
      BY <2>2 DEF fields
  <1> QED
    BY <1>2, SetFieldsFolds DEF Fill

-----------------------------------------------------------------------------
(* What Generate gives *)

LEMMA FieldOfIsInt == ASSUME NEW key PROVE FieldOf(key) \in Int
  BY NumeralAssumption, AliasAssumption DEF FieldOf

\* The overrides of a message type.
TemplatesFor(c, mti) == IF mti \in DOMAIN c.templates THEN c.templates[mti] ELSE {}

IsMessage(m) == m.mti # 0 /\ ~IsResponse(m.mti)

\* What a message is made of: its values that are not empty.
FilledBy(all, m) ==
    /\ m.then = all.gen
    /\ DOMAIN m.fields = {f \in DOMAIN all.values : all.values[f] # <<>>}
    /\ \A f \in DOMAIN m.fields : m.fields[f] = all.values[f]

AreOverrides(set, templates, defaults) ==
    /\ IsOverrides(set) /\ IsOverrides(templates) /\ IsOverrides(defaults)
    /\ DOMAIN set \in SUBSET Int /\ IsFiniteSet(DOMAIN set)

LEMMA ResolvedOverrides ==
    ASSUME NEW c \in Configs, NEW mti, NEW set \in Resolved(c.set), NEW defaults \in Resolved(c.defaults),
           NEW templates \in Resolved(TemplatesFor(c, mti))
    PROVE  AreOverrides(set, templates, defaults)
  <1>1. IsOverrides(set) /\ IsOverrides(templates) /\ IsOverrides(defaults)
    <2>1. /\ c.set \in SUBSET OverridesOf(c) /\ c.defaults \in SUBSET OverridesOf(c)
          /\ TemplatesFor(c, mti) \in SUBSET OverridesOf(c)
      BY DEF OverridesOf, TemplatesFor
    <2> QED
      BY <2>1, ResolvedType
  <1> DEFINE usable == {d \in c.set : FieldOf(d.key) > 0}
  <1>2. DOMAIN set = {FieldOf(e.key) : e \in usable}
    BY ResolvedIs
  <1>3. IsFiniteSet(usable)
    BY ConfigsAssumption, FS_Subset
  <1> DEFINE fieldOf == [e \in usable |-> FieldOf(e.key)]
  <1>4. fieldOf \in Surjection(usable, DOMAIN set)
    <2> HIDE DEF usable
    <2> QED
      BY <1>2 DEF Surjection
  <1> HIDE DEF usable, fieldOf
  <1>5. IsFiniteSet(DOMAIN set)
    BY <1>3, <1>4, FS_Surjection
  <1> QED
    BY <1>1, <1>2, <1>5, FieldOfIsInt DEF AreOverrides

\* A failure has no fields, and leaves the draw for its type; a message is filled from
\* the sources that its type has.
LEMMA OutcomeForm ==
    ASSUME NEW ctx \in Contexts, NEW g \in Gens, NEW m \in Outcomes(ctx, g)
    PROVE  /\ m.at = ctx.now /\ DrawForMTI(ctx, g).gen \in Gens
           /\ ~IsMessage(m) => DOMAIN m.fields = {} /\ m.then = DrawForMTI(ctx, g).gen
           /\ IsMessage(m) =>
                \E set \in Resolved(ctx.cfg.set), defaults \in Resolved(ctx.cfg.defaults),
                   templates \in Resolved(TemplatesFor(ctx.cfg, m.mti)) :
                  FilledBy(Fill(ctx, DrawForMTI(ctx, g).gen, m.mti, set, templates, defaults), m)
  <1> DEFINE draw == DrawForMTI(ctx, g)
             mti  == SelectMTI(ctx.cfg, draw.value[1])
             outcome(fields, then) == [mti |-> mti, fields |-> fields, at |-> ctx.now, then |-> then]
             filled(set, templates, defaults) ==
               LET all     == Fill(ctx, draw.gen, mti, set, templates, defaults)
                   present == {f \in DOMAIN all.values : all.values[f] # <<>>}
               IN outcome([f \in present |-> all.values[f]], all.gen)
  <1>1. draw.gen \in Gens
    BY DrawsType DEF DrawForMTI
  <1>2. CASE mti = 0 \/ IsResponse(mti)
    <2>1. m = outcome(<<>>, draw.gen)
      BY <1>2 DEF Outcomes
    <2> HIDE DEF draw, mti
    <2>2. /\ m.mti = mti /\ m.fields = <<>> /\ m.at = ctx.now /\ m.then = draw.gen
      BY <2>1
    <2>3. DOMAIN m.fields = {}
      BY <2>2
    <2>4. ~IsMessage(m)
      BY <1>2, <2>2 DEF IsMessage
    <2> QED
      BY <1>1, <2>2, <2>3, <2>4 DEF draw
  <1>3. CASE ~(mti = 0 \/ IsResponse(mti))
    <2>1. Outcomes(ctx, g) = {filled(set, templates, defaults) :
              set \in Resolved(ctx.cfg.set), defaults \in Resolved(ctx.cfg.defaults),
              templates \in Resolved(TemplatesFor(ctx.cfg, mti))}
      BY <1>3 DEF Outcomes, TemplatesFor
    <2>2. PICK set \in Resolved(ctx.cfg.set), defaults \in Resolved(ctx.cfg.defaults),
               templates \in Resolved(TemplatesFor(ctx.cfg, mti)) :
            m = filled(set, templates, defaults)
      <3> HIDE DEF filled
      <3> QED
        BY <2>1
    <2> DEFINE all == Fill(ctx, draw.gen, mti, set, templates, defaults)
               present == {f \in DOMAIN all.values : all.values[f] # <<>>}
    <2>3. m = outcome([f \in present |-> all.values[f]], all.gen)
      BY <2>2
    <2> HIDE DEF draw, mti, all
    <2>4. /\ m.mti = mti /\ m.fields = [f \in present |-> all.values[f]]
          /\ m.at = ctx.now /\ m.then = all.gen
      BY <2>3
    <2>5. FilledBy(all, m)
      BY <2>4 DEF FilledBy
    <2>6. IsMessage(m) /\ FilledBy(Fill(ctx, draw.gen, m.mti, set, templates, defaults), m)
      BY <1>3, <2>4, <2>5 DEF IsMessage, all
    <2> QED
      BY <1>1, <2>2, <2>4, <2>6 DEF draw
  <1> QED
    BY <1>2, <1>3

\* Whatever the draws: a message has values that are not empty, each from its source, and
\* what Set pins to more than an empty value; a failure has none.
LEMMA OutcomeIs ==
    ASSUME NEW ctx \in Contexts, NEW g \in Gens, NEW m \in Outcomes(ctx, g)
    PROVE  /\ m.then \in Gens /\ m.at = ctx.now
           /\ \A f \in DOMAIN m.fields : m.fields[f] # <<>>
           /\ ~IsMessage(m) => DOMAIN m.fields = {}
           /\ IsMessage(m) =>
                \E set \in Resolved(ctx.cfg.set), defaults \in Resolved(ctx.cfg.defaults),
                   templates \in Resolved(TemplatesFor(ctx.cfg, m.mti)) :
                  /\ \A f \in DOMAIN m.fields : \E h \in Gens :
                        m.fields[f] = ValueFrom(h, ctx, f, m.mti, set, templates, defaults).value
                  /\ \A f \in DOMAIN set :
                        \/ f \in DOMAIN m.fields
                        \/ \E h \in Gens :
                              ValueFrom(h, ctx, f, m.mti, set, templates, defaults).value = <<>>
  <1> DEFINE start == DrawForMTI(ctx, g).gen
  <1>1. /\ m.at = ctx.now /\ start \in Gens
        /\ ~IsMessage(m) => DOMAIN m.fields = {} /\ m.then = start
    BY OutcomeForm
  <1>2. CASE ~IsMessage(m)
    BY <1>1, <1>2
  <1>3. CASE IsMessage(m)
    <2>1. PICK set \in Resolved(ctx.cfg.set), defaults \in Resolved(ctx.cfg.defaults),
               templates \in Resolved(TemplatesFor(ctx.cfg, m.mti)) :
            FilledBy(Fill(ctx, start, m.mti, set, templates, defaults), m)
      BY <1>3, OutcomeForm
    <2>2. AreOverrides(set, templates, defaults)
      BY ResolvedOverrides DEF Contexts
    <2> DEFINE all == Fill(ctx, start, m.mti, set, templates, defaults)
    <2> HIDE DEF start
    <2>3. /\ all \in Collected(ctx, m.mti, set, templates, defaults)
          /\ DOMAIN set \subseteq DOMAIN all.values
      BY <1>1, <2>2, FillCollects DEF AreOverrides
    <2>4. FilledBy(all, m)
      BY <2>1
    <2> HIDE DEF all
    <2>5. /\ all.gen \in Gens
          /\ \A f \in DOMAIN all.values : \E h \in Gens :
                all.values[f] = ValueFrom(h, ctx, f, m.mti, set, templates, defaults).value
      BY <2>3 DEF Collected
    <2>6. \A f \in DOMAIN m.fields :
            /\ m.fields[f] # <<>> /\ m.fields[f] = all.values[f] /\ f \in DOMAIN all.values
      BY <2>4 DEF FilledBy
    <2>7. \A f \in DOMAIN m.fields : \E h \in Gens :
            m.fields[f] = ValueFrom(h, ctx, f, m.mti, set, templates, defaults).value
      BY <2>5, <2>6
    <2>8. ASSUME NEW f \in DOMAIN set, f \notin DOMAIN m.fields
          PROVE  \E h \in Gens : ValueFrom(h, ctx, f, m.mti, set, templates, defaults).value = <<>>
      <3>1. f \in DOMAIN all.values /\ all.values[f] = <<>>
        BY <2>3, <2>4, <2>8 DEF FilledBy
      <3> QED
        BY <2>5, <3>1
    <2> QED
      BY <1>1, <1>3, <2>1, <2>4, <2>5, <2>6, <2>7, <2>8 DEF FilledBy
  <1> QED
    BY <1>2, <1>3

-----------------------------------------------------------------------------
(* Fields with one kind of value *)

\* The enum of a field, where it has values, goes before its kind.
HasEnum(f) == Fields[f].enum \in DOMAIN Enums /\ Enums[Fields[f].enum].values # <<>>

IsPAN(t) == t.macro = "PAN" /\ t.prefix \in Seq(Digits)

\* Whatever gives a PAN field its value is $PAN, with a prefix of digits, or nothing is
\* and it is synthesized.
PANsAreGenerated(c) == \A f \in DOMAIN Fields : Fields[f].kind = "pan" =>
    /\ ~HasEnum(f)
    /\ \A e \in OverridesOf(c) : FieldOf(e.key) = f => IsPAN(e.template)
    /\ f \in DOMAIN SimDefaults => SimDefaults[f].from = "" /\ IsPAN(SimDefaults[f].template)
    /\ \A mti : f \in DOMAIN SimTemplate(mti) =>
           SimTemplate(mti)[f].from = "" /\ IsPAN(SimTemplate(mti)[f].template)

\* Nothing but the specification gives an expiry date its value.
ExpiriesAreSynthesized(c) == \A f \in DOMAIN Fields : Fields[f].expiry =>
    /\ Fields[f].kind = "date" /\ ~HasEnum(f)
    /\ \A e \in OverridesOf(c) : FieldOf(e.key) # f
    /\ f \notin DOMAIN SimDefaults /\ \A mti : f \notin DOMAIN SimTemplate(mti)

\* What an override resolves to is written for the field.
LEMMA ResolvedFrom ==
    ASSUME NEW c, NEW entries \in SUBSET OverridesOf(c), NEW m \in Resolved(entries), NEW f \in DOMAIN m
    PROVE  \E e \in OverridesOf(c) : FieldOf(e.key) = f /\ m[f] = e.template
  <1>1. PICK e \in entries : FieldOf(e.key) > 0 /\ FieldOf(e.key) = f /\ m[f] = e.template
    BY ResolvedIs, ZenonT(30)
  <1> QED
    BY <1>1

LEMMA ExpandedPAN ==
    ASSUME NEW ctx \in Contexts, NEW g \in Gens, NEW t \in Templates, IsPAN(t), NEW f
    PROVE  LuhnValid(Expand(ctx, g, t, f).value)
  <1>1. t.length \in Nat \ {0, 1}
    BY TemplatesAssumption DEF IsPAN
  <1>2. Expand(ctx, g, t, f).value = PAN(ctx, g, t.prefix, t.length).value
    BY DEF Expand, IsPAN
  <1> QED
    BY <1>1, <1>2, PANIsValid DEF IsPAN

LEMMA SynthesizedPAN ==
    ASSUME NEW ctx \in Contexts, NEW g \in Gens, NEW f \in DOMAIN Fields, Fields[f].kind = "pan", ~HasEnum(f)
    PROVE  LuhnValid(Synthesize(ctx, g, f).value)
  <1>1. DefaultPrefix \in Seq(Digits) /\ 16 \in Nat \ {0, 1}
    BY DEF DefaultPrefix, Digits
  <1>2. Synthesize(ctx, g, f).value = PAN(ctx, g, DefaultPrefix, 16).value
    BY DEF Synthesize, HasEnum
  <1> QED
    BY <1>1, <1>2, PANIsValid

LEMMA PANFromAnySource ==
    ASSUME NEW ctx \in Contexts, PANsAreGenerated(ctx.cfg), NEW g \in Gens, NEW mti,
           NEW set \in Resolved(ctx.cfg.set), NEW defaults \in Resolved(ctx.cfg.defaults),
           NEW templates \in Resolved(TemplatesFor(ctx.cfg, mti)),
           NEW f \in DOMAIN Fields, Fields[f].kind = "pan"
    PROVE  LuhnValid(ValueFrom(g, ctx, f, mti, set, templates, defaults).value)
  <1>1. /\ ctx.cfg.set \in SUBSET OverridesOf(ctx.cfg)
        /\ ctx.cfg.defaults \in SUBSET OverridesOf(ctx.cfg)
        /\ TemplatesFor(ctx.cfg, mti) \in SUBSET OverridesOf(ctx.cfg)
    BY DEF OverridesOf, TemplatesFor
  <1>2. ASSUME NEW entries \in SUBSET OverridesOf(ctx.cfg), NEW m \in Resolved(entries), f \in DOMAIN m
        PROVE  LuhnValid(Expand(ctx, g, m[f], f).value)
    <2>1. PICK e \in OverridesOf(ctx.cfg) : FieldOf(e.key) = f /\ m[f] = e.template
      BY <1>2, ResolvedFrom
    <2>2. IsPAN(m[f])
      BY <2>1 DEF PANsAreGenerated
    <2>3. m[f] \in Templates
      BY <1>2, ResolvedType DEF IsOverrides, Contexts
    <2> QED
      BY <2>2, <2>3, ExpandedPAN
  <1>3. CASE f \in DOMAIN set
    BY <1>1, <1>2, <1>3 DEF ValueFrom
  <1>4. CASE f \notin DOMAIN set
    <2>1. ValueFrom(g, ctx, f, mti, set, templates, defaults)
              = ValueOf(ctx, g, f, mti, templates, defaults)
      BY <1>4 DEF ValueFrom
    <2>2. CASE f \in DOMAIN templates
      BY <1>1, <1>2, <2>1, <2>2 DEF ValueOf
    <2>3. CASE f \notin DOMAIN templates /\ f \in DOMAIN defaults
      BY <1>1, <1>2, <2>1, <2>3 DEF ValueOf
    <2>4. CASE f \notin DOMAIN templates /\ f \notin DOMAIN defaults /\ f \in DOMAIN SimDefaults
      <3>1. SimDefaults[f].from = "" /\ IsPAN(SimDefaults[f].template)
        BY <2>4 DEF PANsAreGenerated
      <3> QED
        BY <2>1, <2>4, <3>1, SimTemplatesType, ExpandedPAN DEF ValueOf, ExpandSimValue
    <2>5. CASE f \notin DOMAIN templates /\ f \notin DOMAIN defaults /\ f \notin DOMAIN SimDefaults
               /\ f \in DOMAIN SimTemplate(mti)
      <3>1. SimTemplate(mti)[f].from = "" /\ IsPAN(SimTemplate(mti)[f].template)
        BY <2>5 DEF PANsAreGenerated
      <3> QED
        BY <2>1, <2>5, <3>1, SimTemplatesType, ExpandedPAN DEF ValueOf, ExpandSimValue
    <2>6. CASE f \notin DOMAIN templates /\ f \notin DOMAIN defaults /\ f \notin DOMAIN SimDefaults
               /\ f \notin DOMAIN SimTemplate(mti)
      <3>1. ~HasEnum(f)
        BY DEF PANsAreGenerated
      <3> QED
        BY <2>1, <2>6, <3>1, SynthesizedPAN DEF ValueOf
    <2> QED
      BY <2>2, <2>3, <2>4, <2>5, <2>6
  <1> QED
    BY <1>3, <1>4

\* The months from now to a synthesized expiry date.
InWindow(months, c) ==
    \/ months = c.expiryMonths /\ c.expiredPercent < 100
    \/ months \in (-c.expiryMonths)..(-1) \union {-1} /\ c.expiredPercent > 0

LEMMA ExpiryIsInWindow ==
    ASSUME NEW ctx \in Contexts, NEW g \in Gens
    PROVE  InWindow(Expiry(ctx, g).value[1] - ctx.now, ctx.cfg)
  <1> DEFINE c == ctx.cfg
             decide == Draws(ctx, g, 1, 100)
             top == IF c.expiryMonths < 1 THEN 1 ELSE c.expiryMonths
             back == Draws(ctx, decide.gen, 1, top - 1 + 1)
  <1>1. c.expiryMonths \in Nat /\ c.expiredPercent \in 0..100 /\ ctx.now \in Nat
    BY ConfigsAssumption DEF Contexts
  <1>2. decide.gen \in Gens /\ decide.value[1] \in 0..99
    <2>1. 100 \in Nat \ {0} /\ 1 \in Nat
      OBVIOUS
    <2>2. decide.gen \in Gens
      BY <2>1, DrawsType
    <2>3. decide.value \in [1..1 -> 0..(100 - 1)]
      BY <2>1, DrawsValue, ZenonT(30)
    <2> QED
      BY <2>2, <2>3
  <1>3. top \in Nat \ {0} /\ top - 1 + 1 \in Nat \ {0} /\ 1 \in Nat
    BY <1>1
  <1> HIDE DEF decide
  <1>4. back.value[1] \in 0..(top - 1)
    <2> HIDE DEF top
    <2>1. back.value \in [1..1 -> 0..((top - 1 + 1) - 1)]
      BY <1>2, <1>3, DrawsValue, Zenon
    <2> QED
      BY <1>3, <2>1
  <1>5. MonthsBack(ctx, decide.gen).value = <<1 + back.value[1]>>
    BY <1>1 DEF MonthsBack, RAND
  <1> HIDE DEF back
  <1>6. CASE c.expiredPercent = 0
    BY <1>1, <1>6 DEF Expiry, InWindow
  <1>7. CASE c.expiredPercent # 0 /\ decide.value[1] < c.expiredPercent
    <2>1. Expiry(ctx, g).value = <<ctx.now - (1 + back.value[1])>>
      BY <1>5, <1>7 DEF Expiry, decide
    <2> QED
      BY <1>1, <1>4, <1>7, <2>1 DEF InWindow
  <1>8. CASE c.expiredPercent # 0 /\ ~(decide.value[1] < c.expiredPercent)
    <2>1. Expiry(ctx, g).value = <<ctx.now + c.expiryMonths>>
      BY <1>8 DEF Expiry, decide
    <2> QED
      BY <1>1, <1>2, <1>8, <2>1 DEF InWindow
  <1> QED
    BY <1>6, <1>7, <1>8

LEMMA ExpiryFromAnySource ==
    ASSUME NEW ctx \in Contexts, ExpiriesAreSynthesized(ctx.cfg), NEW g \in Gens, NEW mti,
           NEW set \in Resolved(ctx.cfg.set), NEW defaults \in Resolved(ctx.cfg.defaults),
           NEW templates \in Resolved(TemplatesFor(ctx.cfg, mti)),
           NEW f \in DOMAIN Fields, Fields[f].expiry
    PROVE  InWindow(ValueFrom(g, ctx, f, mti, set, templates, defaults).value[1] - ctx.now, ctx.cfg)
  <1>1. /\ ctx.cfg.set \in SUBSET OverridesOf(ctx.cfg)
        /\ ctx.cfg.defaults \in SUBSET OverridesOf(ctx.cfg)
        /\ TemplatesFor(ctx.cfg, mti) \in SUBSET OverridesOf(ctx.cfg)
    BY DEF OverridesOf, TemplatesFor
  <1>2. ASSUME NEW entries \in SUBSET OverridesOf(ctx.cfg), NEW m \in Resolved(entries)
        PROVE  f \notin DOMAIN m
    BY <1>2, ResolvedFrom DEF ExpiriesAreSynthesized
  <1>3. f \notin DOMAIN set /\ f \notin DOMAIN defaults /\ f \notin DOMAIN templates
    BY <1>1, <1>2
  <1>4. ValueFrom(g, ctx, f, mti, set, templates, defaults) = Synthesize(ctx, g, f)
    BY <1>3 DEF ValueFrom, ValueOf, ExpiriesAreSynthesized
  <1>5. Synthesize(ctx, g, f) = Expiry(ctx, g)
    BY DEF Synthesize, ExpiriesAreSynthesized, HasEnum
  <1> QED
    BY <1>4, <1>5, ExpiryIsInWindow

-----------------------------------------------------------------------------
(* The numbers of $STAN. A message takes the next one, once, where it has field 11; *)
(* what is drawn for its other fields leaves the counter alone.                      *)

\* A value of the specification is chosen from an enum, or by another macro.
HasNoSTAN(v) == v.from = "" => v.template.macro # "STAN"

\* The overrides have $STAN for field 11 and only there, and the specification has it
\* nowhere else; one rule at most gives a message field 11, or Set does.
STANsAreNumbered(c) ==
    /\ \A e \in OverridesOf(c) : FieldOf(e.key) > 0 =>
           (e.template.macro = "STAN" <=> FieldOf(e.key) = STANField)
    /\ \A f \in DOMAIN SimDefaults \ {STANField} : HasNoSTAN(SimDefaults[f])
    /\ \A mti : \A f \in DOMAIN SimTemplate(mti) \ {STANField} : HasNoSTAN(SimTemplate(mti)[f])
    /\ \/ \E e \in c.set : FieldOf(e.key) = STANField
       \/ STANField \in DOMAIN Fields => \A mti : Cardinality(RulesFor(STANField, mti)) <= 1

\* Whatever the message type, field 11 has an override.
HasSTAN(c) == \E e \in c.set \union c.defaults : FieldOf(e.key) = STANField

NextSTAN(g) == (g.stan + 1) % WordSize

\* v is the next number, drawn from g.
TakesNext(v, g) == v.gen.stan = NextSTAN(g) /\ v.value = <<NextSTAN(g) % Modulus>>

LEMMA DrawsKeepSTAN ==
    ASSUME NEW ctx, NEW g \in Gens, NEW k, NEW n PROVE Draws(ctx, g, k, n).gen.stan = g.stan
  BY DEF Draws, Gens

LEMMA ChooseFromEnumKeepsSTAN ==
    ASSUME NEW ctx, NEW g \in Gens, NEW name, NEW weights
    PROVE  ChooseFromEnum(ctx, g, name, weights).gen.stan = g.stan
  BY DrawsKeepSTAN DEF ChooseFromEnum, Nothing

LEMMA PANKeepsSTAN ==
    ASSUME NEW ctx, NEW g \in Gens, NEW prefix, NEW length
    PROVE  PAN(ctx, g, prefix, length).gen.stan = g.stan
  BY DrawsKeepSTAN DEF PAN

LEMMA ExpandNumbers ==
    ASSUME NEW ctx, NEW g \in Gens, NEW t, NEW f
    PROVE  /\ t.macro # "STAN" => Expand(ctx, g, t, f).gen.stan = g.stan
           /\ t.macro = "STAN" => TakesNext(Expand(ctx, g, t, f), g)
  <1>1. CASE t.macro = "PAN"
    BY <1>1, PANKeepsSTAN DEF Expand
  <1>2. CASE t.macro = "STAN"
    BY <1>2 DEF Expand, TakesNext, NextSTAN, Gens
  <1>3. CASE t.macro = "RRN"
    BY <1>3 DEF Expand, Gens
  <1>4. CASE t.macro = "SEQ"
    BY <1>4 DEF Expand, SEQ, Gens
  <1>5. CASE t.macro \in {"RAND", "UUID", "AUTH"}
    BY <1>5, DrawsKeepSTAN DEF Expand, RAND
  <1>6. CASE t.macro = "ENUM"
    BY <1>6, ChooseFromEnumKeepsSTAN DEF Expand
  <1>7. CASE t.macro \notin {"PAN", "STAN", "RRN", "SEQ", "RAND", "UUID", "AUTH", "ENUM"}
    BY <1>7 DEF Expand
  <1> QED
    BY <1>1, <1>2, <1>3, <1>4, <1>5, <1>6, <1>7

LEMMA SynthesizeKeepsSTAN ==
    ASSUME NEW ctx, NEW g \in Gens, NEW f PROVE Synthesize(ctx, g, f).gen.stan = g.stan
  <1>1. Expiry(ctx, g).gen.stan = g.stan
    <2>1. /\ Draws(ctx, g, 1, 100).gen \in Gens
          /\ Draws(ctx, g, 1, 100).gen.stan = g.stan
      BY DrawsType, DrawsKeepSTAN
    <2>2. MonthsBack(ctx, Draws(ctx, g, 1, 100).gen).gen.stan = g.stan
      BY <2>1, DrawsKeepSTAN DEF MonthsBack, RAND
    <2> QED
      BY <2>1, <2>2 DEF Expiry
  <1>2. RAND(ctx, g, 1, 999999).gen.stan = g.stan
    BY DrawsKeepSTAN DEF RAND
  <1>3. CASE f \notin DOMAIN Fields
    BY <1>3 DEF Synthesize, Nothing
  <1>4. CASE f \in DOMAIN Fields /\ HasEnum(f)
    BY <1>4, ChooseFromEnumKeepsSTAN DEF Synthesize, HasEnum
  <1>5. CASE f \in DOMAIN Fields /\ ~HasEnum(f)
    BY <1>1, <1>2, <1>5, PANKeepsSTAN DEF Synthesize, HasEnum, Nothing
  <1> QED
    BY <1>3, <1>4, <1>5

LEMMA SimValueKeepsSTAN ==
    ASSUME NEW ctx, NEW g \in Gens, NEW f, NEW v, HasNoSTAN(v)
    PROVE  ExpandSimValue(ctx, g, v, f).gen.stan = g.stan
  <1>1. CASE v.from # ""
    <2>1. ChooseFromEnum(ctx, g, v.from, v.weights).gen.stan = g.stan
      BY ChooseFromEnumKeepsSTAN
    <2> QED
      BY <1>1, <2>1 DEF ExpandSimValue
  <1>2. CASE v.from = ""
    <2>1. v.template.macro # "STAN"
      BY <1>2 DEF HasNoSTAN
    <2>2. Expand(ctx, g, v.template, f).gen.stan = g.stan
      BY <2>1, ExpandNumbers
    <2> QED
      BY <1>2, <2>2 DEF ExpandSimValue
  <1> QED
    BY <1>1, <1>2

\* From whatever source: the next number for field 11, and none for another.
NumbersOnce(ctx, mti, set, templates, defaults) ==
    \A g \in Gens : \A f :
        /\ f # STANField =>
             ValueFrom(g, ctx, f, mti, set, templates, defaults).gen.stan = g.stan
        /\ f = STANField =>
             TakesNext(ValueFrom(g, ctx, f, mti, set, templates, defaults), g)

LEMMA ValuesAreNumbered ==
    ASSUME NEW ctx \in Contexts, STANsAreNumbered(ctx.cfg), HasSTAN(ctx.cfg), NEW mti,
           NEW set \in Resolved(ctx.cfg.set), NEW defaults \in Resolved(ctx.cfg.defaults),
           NEW templates \in Resolved(TemplatesFor(ctx.cfg, mti))
    PROVE  NumbersOnce(ctx, mti, set, templates, defaults)
  <1> SUFFICES ASSUME NEW g \in Gens, NEW f
               PROVE  /\ f # STANField =>
                           ValueFrom(g, ctx, f, mti, set, templates, defaults).gen.stan = g.stan
                      /\ f = STANField =>
                           TakesNext(ValueFrom(g, ctx, f, mti, set, templates, defaults), g)
    BY DEF NumbersOnce
  <1> DEFINE Right(v) == /\ f # STANField => v.gen.stan = g.stan
                         /\ f = STANField => TakesNext(v, g)
  <1>1. /\ ctx.cfg.set \in SUBSET OverridesOf(ctx.cfg)
        /\ ctx.cfg.defaults \in SUBSET OverridesOf(ctx.cfg)
        /\ TemplatesFor(ctx.cfg, mti) \in SUBSET OverridesOf(ctx.cfg)
    BY DEF OverridesOf, TemplatesFor
  <1>2. ASSUME NEW entries \in SUBSET OverridesOf(ctx.cfg), NEW m \in Resolved(entries), f \in DOMAIN m
        PROVE  Right(Expand(ctx, g, m[f], f))
    <2>1. PICK e \in entries : FieldOf(e.key) > 0 /\ FieldOf(e.key) = f /\ m[f] = e.template
      BY <1>2, ResolvedIs, ZenonT(30)
    <2>2. m[f].macro = "STAN" <=> f = STANField
      BY <2>1 DEF STANsAreNumbered
    <2> QED
      BY <2>2, ExpandNumbers
  <1>3. STANField \in DOMAIN set \union DOMAIN defaults
    <2>1. PICK e \in ctx.cfg.set \union ctx.cfg.defaults : FieldOf(e.key) = STANField
      BY DEF HasSTAN
    <2>2. FieldOf(e.key) > 0
      BY <2>1 DEF STANField
    <2>3. CASE e \in ctx.cfg.set
      <3>1. DOMAIN set = {FieldOf(d.key) : d \in {d \in ctx.cfg.set : FieldOf(d.key) > 0}}
        BY ResolvedIs
      <3> QED
        BY <2>1, <2>2, <2>3, <3>1
    <2>4. CASE e \in ctx.cfg.defaults
      <3>1. DOMAIN defaults = {FieldOf(d.key) : d \in {d \in ctx.cfg.defaults : FieldOf(d.key) > 0}}
        BY ResolvedIs
      <3> QED
        BY <2>1, <2>2, <2>4, <3>1
    <2> QED
      BY <2>3, <2>4
  <1>4. CASE f \in DOMAIN set
    BY <1>1, <1>2, <1>4 DEF ValueFrom
  <1>5. CASE f \notin DOMAIN set
    <2>1. ValueFrom(g, ctx, f, mti, set, templates, defaults)
              = ValueOf(ctx, g, f, mti, templates, defaults)
      BY <1>5 DEF ValueFrom
    <2>2. CASE f \in DOMAIN templates
      BY <1>1, <1>2, <2>1, <2>2 DEF ValueOf
    <2>3. CASE f \notin DOMAIN templates /\ f \in DOMAIN defaults
      BY <1>1, <1>2, <2>1, <2>3 DEF ValueOf
    <2>4. CASE f \notin DOMAIN templates /\ f \notin DOMAIN defaults
      <3>1. f # STANField
        BY <1>3, <1>5, <2>4
      <3>2. CASE f \in DOMAIN SimDefaults
        <4>1. HasNoSTAN(SimDefaults[f])
          BY <3>1, <3>2 DEF STANsAreNumbered
        <4>2. ExpandSimValue(ctx, g, SimDefaults[f], f).gen.stan = g.stan
          BY <4>1, SimValueKeepsSTAN
        <4> QED
          BY <2>1, <2>4, <3>1, <3>2, <4>2 DEF ValueOf
      <3>3. CASE f \notin DOMAIN SimDefaults /\ f \in DOMAIN SimTemplate(mti)
        <4>1. HasNoSTAN(SimTemplate(mti)[f])
          BY <3>1, <3>3 DEF STANsAreNumbered
        <4>2. ExpandSimValue(ctx, g, SimTemplate(mti)[f], f).gen.stan = g.stan
          BY <4>1, SimValueKeepsSTAN
        <4> QED
          BY <2>1, <2>4, <3>1, <3>3, <4>2 DEF ValueOf
      <3>4. CASE f \notin DOMAIN SimDefaults /\ f \notin DOMAIN SimTemplate(mti)
        BY <2>1, <2>4, <3>1, <3>4, SynthesizeKeepsSTAN DEF ValueOf
      <3> QED
        BY <3>2, <3>3, <3>4
    <2> QED
      BY <2>2, <2>3, <2>4
  <1> QED
    BY <1>4, <1>5

\* Since the generator g, no number was drawn, or one, for field 11.
NoneTaken(acc, g) == acc.gen.stan = g.stan /\ STANField \notin DOMAIN acc.values

OneTaken(acc, g) ==
    /\ acc.gen.stan = NextSTAN(g)
    /\ STANField \in DOMAIN acc.values /\ acc.values[STANField] = <<NextSTAN(g) % Modulus>>

TakenIf(taken, acc, g) == IF taken THEN OneTaken(acc, g) ELSE NoneTaken(acc, g)

LEMMA PutNumbers ==
    ASSUME NEW ctx, NEW mti, NEW set, NEW templates, NEW defaults,
           NumbersOnce(ctx, mti, set, templates, defaults),
           NEW g, NEW acc, acc.gen \in Gens, NEW f
    PROVE  LET next == Put(acc, f, ValueFrom(acc.gen, ctx, f, mti, set, templates, defaults))
           IN /\ f # STANField => \A taken \in BOOLEAN :
                    TakenIf(taken, acc, g) => TakenIf(taken, next, g)
              /\ f = STANField => (NoneTaken(acc, g) => OneTaken(next, g))
  <1> DEFINE v    == ValueFrom(acc.gen, ctx, f, mti, set, templates, defaults)
             next == Put(acc, f, v)
  <1>1. /\ f # STANField => v.gen.stan = acc.gen.stan
        /\ f = STANField => TakesNext(v, acc.gen)
    BY DEF NumbersOnce
  <1> HIDE DEF v
  <1>2. /\ next.gen = v.gen /\ DOMAIN next.values = DOMAIN acc.values \union {f}
        /\ \A x \in DOMAIN acc.values \union {f} :
              next.values[x] = IF x = f THEN v.value ELSE acc.values[x]
    BY DEF Put
  <1> HIDE DEF next
  <1>3. ASSUME f # STANField, NEW taken \in BOOLEAN, TakenIf(taken, acc, g)
        PROVE  TakenIf(taken, next, g)
    BY <1>1, <1>2, <1>3 DEF TakenIf, OneTaken, NoneTaken
  <1>4. ASSUME f = STANField, NoneTaken(acc, g) PROVE OneTaken(next, g)
    <2>1. next.gen.stan = NextSTAN(g) /\ v.value = <<NextSTAN(g) % Modulus>>
      BY <1>1, <1>2, <1>4 DEF TakesNext, NextSTAN, NoneTaken
    <2> QED
      BY <1>2, <1>4, <2>1 DEF OneTaken
  <1> QED
    BY <1>3, <1>4 DEF next, v

\* One of the fields to generate is field 11, or none.
LEMMA GenerateFieldsNumbers ==
    ASSUME NEW ctx, NEW g \in Gens, NEW mti, NEW set, IsOverrides(set),
           NEW templates, IsOverrides(templates), NEW defaults, IsOverrides(defaults),
           NEW fields \in Seq(DOMAIN Fields \ DOMAIN set),
           NumbersOnce(ctx, mti, set, templates, defaults), OnceAtMost(STANField, fields)
    PROVE  TakenIf(\E i \in DOMAIN fields : fields[i] = STANField,
                   GenerateFields(ctx, g, fields, mti, templates, defaults), g)
  <1> DEFINE D == DOMAIN fields
             Has(s) == \E i \in s : fields[i] = STANField
  <1>1. /\ D \in SUBSET Int /\ IsFiniteSet(D)
        /\ \A i \in D : fields[i] \in DOMAIN Fields \ DOMAIN set
    <2>1. D = 1..Len(fields) /\ Len(fields) \in Nat
      BY LenProperties
    <2> QED
      BY <2>1, FS_Interval, ElementOfSeq
  <1>2. PICK h : /\ Generates(h, ctx, g, fields, mti, templates, defaults)
                 /\ GenerateFields(ctx, g, fields, mti, templates, defaults) = h[D]
                 /\ \A s \in SUBSET D : h[s] \in Collected(ctx, mti, set, templates, defaults)
    BY GenerateFieldsFolds
  <1> DEFINE T == {s \in SUBSET D : TakenIf(Has(s), h[s], g)}
  <1>3. {} \in T
    <2>1. h[{}] = [gen |-> g, values |-> <<>>]
      BY <1>2 DEF Generates
    <2>2. NoneTaken(h[{}], g)
      BY <2>1 DEF NoneTaken
    <2> QED
      BY <2>2 DEF TakenIf
  <1>4. ASSUME NEW s \in SUBSET D, s # {}, s \ {Max(s)} \in T PROVE s \in T
    <2> DEFINE m == Max(s)
               r == s \ {m}
               v == ValueFrom(h[r].gen, ctx, fields[m], mti, set, templates, defaults)
    <2>1. m \in s /\ m \in D
      BY <1>1, <1>4, FS_Subset, FiniteMax
    <2>2. h[r].gen \in Gens /\ TakenIf(Has(r), h[r], g)
      <3>1. r \in SUBSET D /\ TakenIf(Has(r), h[r], g)
        BY <1>4
      <3>2. h[r] \in Collected(ctx, mti, set, templates, defaults)
        BY <1>2, <3>1
      <3> HIDE DEF r
      <3>3. h[r].gen \in Gens
        BY <3>2 DEF Collected
      <3> QED
        BY <3>1, <3>3
    <2>3. h[s] = Put(h[r], fields[m], v)
      <3>1. h[s] = Put(h[r], fields[m], ValueOf(ctx, h[r].gen, fields[m], mti, templates, defaults))
        BY <1>2, <1>4 DEF Generates
      <3>2. fields[m] \notin DOMAIN set
        BY <1>1, <2>1
      <3> QED
        BY <3>1, <3>2 DEF ValueFrom
    <2>4. CASE fields[m] = STANField
      <3>1. ~Has(r) /\ Has(s)
        BY <2>1, <2>4 DEF OnceAtMost
      <3>2. NoneTaken(h[r], g)
        BY <2>2, <3>1 DEF TakenIf
      <3>3. OneTaken(h[s], g)
        <4> HIDE DEF m, r
        <4> QED
          BY <2>2, <2>3, <2>4, <3>2, PutNumbers
      <3> QED
        BY <3>1, <3>3 DEF TakenIf
    <2>5. CASE fields[m] # STANField
      <3>1. Has(r) = Has(s)
        BY <2>1, <2>5
      <3>2. TakenIf(Has(r), h[s], g)
        <4> DEFINE has == Has(r)
        <4>1. has \in BOOLEAN /\ TakenIf(has, h[r], g)
          BY <2>2
        <4> HIDE DEF m, r, has
        <4>2. TakenIf(has, h[s], g)
          BY <2>2, <2>3, <2>5, <4>1, PutNumbers
        <4> QED
          BY <4>2 DEF has
      <3> QED
        BY <3>1, <3>2
    <2> QED
      BY <2>4, <2>5
  <1> HIDE DEF T
  <1>5. D \in T
    <2>1. \A s \in SUBSET D : s \in T
      <3> HIDE DEF D
      <3> QED
        BY <1>1, <1>3, <1>4, FoldInduction
    <2> QED
      BY <2>1
  <1> QED
    BY <1>2, <1>5 DEF T

LEMMA SetFieldsNumbers ==
    ASSUME NEW ctx, NEW mti, NEW set, IsOverrides(set), DOMAIN set \in SUBSET Int,
           IsFiniteSet(DOMAIN set),
           NEW templates, IsOverrides(templates), NEW defaults, IsOverrides(defaults),
           NEW base \in Collected(ctx, mti, set, templates, defaults),
           NumbersOnce(ctx, mti, set, templates, defaults),
           NEW g, NEW taken \in BOOLEAN, TakenIf(taken, base, g), ~(taken /\ STANField \in DOMAIN set)
    PROVE  TakenIf(taken \/ STANField \in DOMAIN set, SetFields(ctx, base, set), g)
  <1> DEFINE D == DOMAIN set
             Has(s) == taken \/ STANField \in s
  <1>1. PICK h : /\ Sets(h, ctx, base, set) /\ SetFields(ctx, base, set) = h[D]
                 /\ \A s \in SUBSET D : h[s] \in Collected(ctx, mti, set, templates, defaults)
    BY SetFieldsFolds
  <1> DEFINE T == {s \in SUBSET D : TakenIf(Has(s), h[s], g)}
  <1>2. {} \in T
    <2>1. h[{}] = base
      BY <1>1 DEF Sets
    <2>2. Has({}) = taken
      OBVIOUS
    <2> QED
      BY <2>1, <2>2
  <1>3. ASSUME NEW s \in SUBSET D, s # {}, s \ {Max(s)} \in T PROVE s \in T
    <2> DEFINE m == Max(s)
               r == s \ {m}
               v == ValueFrom(h[r].gen, ctx, m, mti, set, templates, defaults)
    <2>1. m \in s /\ m \in D
      BY <1>3, FS_Subset, FiniteMax
    <2>2. h[r].gen \in Gens /\ TakenIf(Has(r), h[r], g)
      BY <1>1, <1>3 DEF Collected
    <2>3. h[s] = Put(h[r], m, v)
      <3>1. h[s] = Put(h[r], m, Expand(ctx, h[r].gen, set[m], m))
        BY <1>1, <1>3 DEF Sets
      <3> QED
        BY <2>1, <3>1 DEF ValueFrom
    <2>4. CASE m = STANField
      <3>1. ~Has(r) /\ Has(s)
        BY <2>1, <2>4
      <3>2. NoneTaken(h[r], g)
        BY <2>2, <3>1 DEF TakenIf
      <3>3. OneTaken(h[s], g)
        <4> HIDE DEF m, r
        <4> QED
          BY <2>2, <2>3, <2>4, <3>2, PutNumbers
      <3> QED
        BY <3>1, <3>3 DEF TakenIf
    <2>5. CASE m # STANField
      <3>1. Has(r) = Has(s)
        BY <2>1, <2>5
      <3>2. TakenIf(Has(r), h[s], g)
        <4> DEFINE has == Has(r)
        <4>1. has \in BOOLEAN /\ TakenIf(has, h[r], g)
          BY <2>2
        <4> HIDE DEF m, r, has
        <4>2. TakenIf(has, h[s], g)
          BY <2>2, <2>3, <2>5, <4>1, PutNumbers
        <4> QED
          BY <4>2 DEF has
      <3> QED
        BY <3>1, <3>2
    <2> QED
      BY <2>4, <2>5
  <1> HIDE DEF T
  <1>4. D \in T
    <2>1. \A s \in SUBSET D : s \in T
      BY <1>2, <1>3, FoldInduction
    <2> QED
      BY <2>1
  <1> QED
    BY <1>1, <1>4 DEF T

LEMMA FillNumbers ==
    ASSUME NEW ctx, NEW g \in Gens, NEW mti, NEW set, NEW templates, NEW defaults,
           AreOverrides(set, templates, defaults),
           NumbersOnce(ctx, mti, set, templates, defaults),
           \/ STANField \in DOMAIN set
           \/ STANField \in DOMAIN Fields => Cardinality(RulesFor(STANField, mti)) <= 1
    PROVE  \E taken \in BOOLEAN : TakenIf(taken, Fill(ctx, g, mti, set, templates, defaults), g)
  <1> DEFINE fields == ToGenerate(mti, set)
             base   == GenerateFields(ctx, g, fields, mti, templates, defaults)
             some   == \E i \in DOMAIN fields : fields[i] = STANField
  <1>1. fields \in Seq(DOMAIN Fields \ DOMAIN set)
    BY DetermineFieldsType DEF ToGenerate
  <1>2. \A i \in DOMAIN fields : fields[i] \in DOMAIN Fields \ DOMAIN set
    BY <1>1
  <1>3. OnceAtMost(STANField, fields)
    <2>1. CASE STANField \in DOMAIN Fields \ DOMAIN set
      BY <2>1, DetermineFieldsType DEF ToGenerate
    <2>2. CASE STANField \notin DOMAIN Fields \ DOMAIN set
      BY <1>2, <2>2 DEF OnceAtMost
    <2> QED
      BY <2>1, <2>2
  <1>4. /\ IsOverrides(set) /\ IsOverrides(templates) /\ IsOverrides(defaults)
        /\ DOMAIN set \in SUBSET Int /\ IsFiniteSet(DOMAIN set)
    BY DEF AreOverrides
  <1>5. Fill(ctx, g, mti, set, templates, defaults) = SetFields(ctx, base, set)
    BY DEF Fill
  <1> HIDE DEF fields
  <1>6. TakenIf(some, base, g)
    BY <1>1, <1>3, <1>4, GenerateFieldsNumbers
  <1>7. base \in Collected(ctx, mti, set, templates, defaults)
    <2>1. PICK h : /\ base = h[DOMAIN fields]
                   /\ \A s \in SUBSET DOMAIN fields :
                         h[s] \in Collected(ctx, mti, set, templates, defaults)
      BY <1>1, <1>4, GenerateFieldsFolds
    <2> QED
      BY <2>1
  <1>8. some \in BOOLEAN /\ ~(some /\ STANField \in DOMAIN set)
    BY <1>2
  <1> HIDE DEF base, some
  <1>9. TakenIf(some \/ STANField \in DOMAIN set, SetFields(ctx, base, set), g)
    BY <1>4, <1>6, <1>7, <1>8, SetFieldsNumbers
  <1> QED
    BY <1>5, <1>8, <1>9

\* A message with field 11 takes the next number and shows it; any other takes none.
LEMMA OutcomeNumbers ==
    ASSUME NEW ctx \in Contexts, STANsAreNumbered(ctx.cfg), HasSTAN(ctx.cfg), NEW g \in Gens,
           NEW m \in Outcomes(ctx, g)
    PROVE  IF STANField \in DOMAIN m.fields
           THEN m.then.stan = NextSTAN(g) /\ m.fields[STANField] = <<NextSTAN(g) % Modulus>>
           ELSE m.then.stan = g.stan
  <1> DEFINE start == DrawForMTI(ctx, g).gen
  <1>1. /\ start \in Gens
        /\ ~IsMessage(m) => DOMAIN m.fields = {} /\ m.then = start
    BY OutcomeForm
  <1>2. start.stan = g.stan /\ NextSTAN(start) = NextSTAN(g)
    BY DrawsKeepSTAN DEF DrawForMTI, NextSTAN
  <1>3. CASE ~IsMessage(m)
    BY <1>1, <1>2, <1>3
  <1>4. CASE IsMessage(m)
    <2>1. PICK set \in Resolved(ctx.cfg.set), defaults \in Resolved(ctx.cfg.defaults),
               templates \in Resolved(TemplatesFor(ctx.cfg, m.mti)) :
            FilledBy(Fill(ctx, start, m.mti, set, templates, defaults), m)
      BY <1>4, OutcomeForm
    <2>2. AreOverrides(set, templates, defaults)
      BY ResolvedOverrides DEF Contexts
    <2>3. NumbersOnce(ctx, m.mti, set, templates, defaults)
      BY ValuesAreNumbered
    <2>4. \/ STANField \in DOMAIN set
          \/ STANField \in DOMAIN Fields => Cardinality(RulesFor(STANField, m.mti)) <= 1
      <3>1. CASE \E e \in ctx.cfg.set : FieldOf(e.key) = STANField
        <4>1. PICK e \in ctx.cfg.set : FieldOf(e.key) = STANField /\ FieldOf(e.key) > 0
          BY <3>1 DEF STANField
        <4>2. DOMAIN set = {FieldOf(d.key) : d \in {d \in ctx.cfg.set : FieldOf(d.key) > 0}}
          BY ResolvedIs
        <4> QED
          BY <4>1, <4>2
      <3>2. CASE ~\E e \in ctx.cfg.set : FieldOf(e.key) = STANField
        BY <3>2 DEF STANsAreNumbered
      <3> QED
        BY <3>1, <3>2
    <2> DEFINE all == Fill(ctx, start, m.mti, set, templates, defaults)
    <2> HIDE DEF start
    <2>5. PICK taken \in BOOLEAN : TakenIf(taken, all, start)
      BY <1>1, <2>2, <2>3, <2>4, FillNumbers
    <2>6. FilledBy(all, m)
      BY <2>1
    <2> HIDE DEF all
    <2>7. <<NextSTAN(g) % Modulus>> # <<>>
      OBVIOUS
    <2> QED
      BY <1>2, <2>5, <2>6, <2>7 DEF FilledBy, TakenIf, OneTaken, NoneTaken
  <1> QED
    BY <1>3, <1>4
=============================================================================
