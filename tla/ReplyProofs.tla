----------------------------- MODULE ReplyProofs -----------------------------
(***************************************************************************)
(* Proofs about what is in a reply of sim_responder, for any configuration *)
(* that Init accepts, any request and any number of wires: the values that *)
(* the rules written for it decide, and, in a gear with a seed, what its   *)
(* macros put, as the requests since the last reset decide.                *)
(***************************************************************************)
EXTENDS ResponderConfigProofs, FoldTheorems

-----------------------------------------------------------------------------
(* The invariant: a reply holds what the first k of the entries to expand, and *)
(* the echo of the request under them, make of it.                             *)

\* A field has the value of the last of the first k entries for it.
SetBy(entries, k, f, value) ==
    \E j \in 1..k :
        /\ FieldOf(entries[j].key) = f /\ \A i \in (j + 1)..k : FieldOf(entries[i].key) # f
        /\ value[1] = entries[j].template.macro
        /\ Literal(entries[j].template) => value[2] = entries[j].template.value

Echoed(req, entries, k, f, value) ==
    f \in DOMAIN Echo(req) /\ value = Echo(req)[f] /\ \A j \in 1..k : FieldOf(entries[j].key) # f

BuiltFrom(req, entries, k, fields) ==
    /\ DOMAIN fields = DOMAIN Echo(req) \union {FieldOf(entries[j].key) : j \in 1..k}
    /\ \A f \in DOMAIN fields :
          SetBy(entries, k, f, fields[f]) \/ Echoed(req, entries, k, f, fields[f])

ReplyFollows(x) ==
    x.at # "idle" =>
        \E k \in 0..Len(Todo(x.req)) :
            /\ x.todo = SubSeq(Todo(x.req), k + 1, Len(Todo(x.req)))
            /\ BuiltFrom(x.req, Todo(x.req), k, x.fields)

RepliesFollow == \A w \in Wires : ReplyFollows(wire[w])

LEMMA RestOfSeq ==
    ASSUME NEW S, NEW s \in Seq(S), NEW k \in 0..Len(s), SubSeq(s, k + 1, Len(s)) # <<>>
    PROVE  /\ k + 1 \in 0..Len(s) /\ k + 1 \in 1..Len(s)
           /\ Head(SubSeq(s, k + 1, Len(s))) = s[k + 1]
           /\ Tail(SubSeq(s, k + 1, Len(s))) = SubSeq(s, (k + 1) + 1, Len(s))
  <1>1. Len(s) \in Nat /\ k \in Nat
    BY LenProperties
  <1>2. k < Len(s)
    <2> SUFFICES ASSUME k = Len(s) PROVE FALSE
      BY <1>1
    <2>1. SubSeq(s, k + 1, Len(s)) = <<>>
      BY <1>1
    <2> QED
      BY <2>1
  <1>3. k + 1 \in 1..Len(s)
    BY <1>1, <1>2
  <1>4. Head(SubSeq(s, k + 1, Len(s))) = s[k + 1]
    BY <1>1, <1>3
  <1>5. Tail(SubSeq(s, k + 1, Len(s))) = SubSeq(s, (k + 1) + 1, Len(s))
    BY <1>1, <1>3
  <1> QED
    BY <1>3, <1>4, <1>5

LEMMA NothingLeft ==
    ASSUME NEW S, NEW s \in Seq(S), NEW k \in 0..Len(s), SubSeq(s, k + 1, Len(s)) = <<>>
    PROVE  k = Len(s) /\ Len(s) \in Nat
  <1>1. Len(s) \in Nat /\ k \in Nat
    BY LenProperties
  <1>2. Len(SubSeq(s, k + 1, Len(s))) = Len(s) - k
    BY <1>1
  <1>3. Len(SubSeq(s, k + 1, Len(s))) = 0
    <2>1. Len(<<>>) = 0
      OBVIOUS
    <2> QED
      BY <2>1, Zenon
  <1> QED
    BY <1>1, <1>2, <1>3

\* The next entry is put over what is there.
LEMMA BuiltByOneMore ==
    ASSUME NEW req, NEW entries, NEW k \in Nat, NEW fields, BuiltFrom(req, entries, k, fields),
           NEW value, value[1] = entries[k + 1].template.macro,
           Literal(entries[k + 1].template) => value[2] = entries[k + 1].template.value
    PROVE  BuiltFrom(req, entries, k + 1, SetField(fields, FieldOf(entries[k + 1].key), value))
  <1> DEFINE field == FieldOf(entries[k + 1].key)
             next  == SetField(fields, field, value)
  <1>1. /\ DOMAIN next = DOMAIN fields \union {field}
        /\ \A f \in DOMAIN next : next[f] = IF f = field THEN value ELSE fields[f]
    BY DEF SetField
  <1>2. 1..(k + 1) = (1..k) \union {k + 1}
    OBVIOUS
  <1> HIDE DEF next, field
  <1>3. DOMAIN next = DOMAIN Echo(req) \union {FieldOf(entries[j].key) : j \in 1..(k + 1)}
    BY <1>1, <1>2 DEF BuiltFrom, field
  <1>4. ASSUME NEW f \in DOMAIN next
        PROVE  SetBy(entries, k + 1, f, next[f]) \/ Echoed(req, entries, k + 1, f, next[f])
    <2>1. CASE f = field
      <3>1. next[f] = value
        BY <1>1, <2>1
      <3>2. k + 1 \in 1..(k + 1) /\ ((k + 1) + 1)..(k + 1) = {}
        OBVIOUS
      <3> QED
        BY <2>1, <3>1, <3>2 DEF SetBy, field
    <2>2. CASE f # field
      <3>1. next[f] = fields[f] /\ f \in DOMAIN fields
        BY <1>1, <2>2
      <3>2. CASE Echoed(req, entries, k, f, fields[f])
        <4>1. Echoed(req, entries, k + 1, f, next[f])
          BY <1>2, <2>2, <3>1, <3>2 DEF Echoed, field
        <4> QED
          BY <4>1
      <3>3. CASE SetBy(entries, k, f, fields[f])
        <4>1. PICK j \in 1..k :
                /\ FieldOf(entries[j].key) = f /\ \A i \in (j + 1)..k : FieldOf(entries[i].key) # f
                /\ next[f][1] = entries[j].template.macro
                /\ Literal(entries[j].template) => next[f][2] = entries[j].template.value
          BY <3>1, <3>3 DEF SetBy
        <4>2. j \in 1..(k + 1) /\ \A i \in (j + 1)..(k + 1) : i = k + 1 \/ i \in (j + 1)..k
          OBVIOUS
        <4>3. \A i \in (j + 1)..(k + 1) : FieldOf(entries[i].key) # f
          BY <2>2, <4>1, <4>2 DEF field
        <4>4. SetBy(entries, k + 1, f, next[f])
          BY <4>1, <4>2, <4>3 DEF SetBy
        <4> QED
          BY <4>4
      <3> QED
        BY <3>1, <3>2, <3>3 DEF BuiltFrom
    <2> QED
      BY <2>1, <2>2
  <1>5. BuiltFrom(req, entries, k + 1, next)
    BY <1>3, <1>4 DEF BuiltFrom
  <1> QED
    BY <1>5 DEF next, field

LEMMA PutFollows ==
    ASSUME cfg \in Configs, WiresServe, NEW w \in Wires, wire[w].at # "idle", wire[w].todo # <<>>,
           ReplyFollows(wire[w]), NEW value, Put(w, value),
           value[1] = Now(w).template.macro,
           Literal(Now(w).template) => value[2] = Now(w).template.value
    PROVE  ReplyFollows(wire'[w])
  <1> DEFINE req  == wire[w].req
             todo == Todo(req)
             next == [at |-> "expand", req |-> req, emit |-> wire[w].emit, todo |-> Tail(wire[w].todo),
                      fields |-> SetField(wire[w].fields, FieldOf(Now(w).key), value)]
  <1>1. wire'[w] = next
    <2>1. wire' = [wire EXCEPT ![w] = next]
      BY DEF Put
    <2> HIDE DEF next
    <2> QED
      BY <2>1, WireUpdate
  <1>2. todo \in Seq(EntriesOf(cfg))
    BY TodoIsSeq
  <1>3. PICK k \in 0..Len(todo) :
          /\ wire[w].todo = SubSeq(todo, k + 1, Len(todo))
          /\ BuiltFrom(req, todo, k, wire[w].fields)
    BY DEF ReplyFollows
  <1>4. Len(todo) \in Nat
    BY <1>2, LenProperties
  <1> HIDE DEF todo
  <1>5. /\ k + 1 \in 0..Len(todo)
        /\ Now(w) = todo[k + 1]
        /\ Tail(wire[w].todo) = SubSeq(todo, (k + 1) + 1, Len(todo))
    <2>1. SubSeq(todo, k + 1, Len(todo)) # <<>>
      BY <1>3
    <2> QED
      BY <1>2, <1>3, <2>1, RestOfSeq DEF Now
  <1>6. k \in Nat
    BY <1>4
  <1>7. BuiltFrom(req, todo, k + 1, SetField(wire[w].fields, FieldOf(todo[k + 1].key), value))
    BY <1>3, <1>5, <1>6, BuiltByOneMore
  <1>8. /\ next.req = req /\ next.todo = SubSeq(todo, (k + 1) + 1, Len(todo))
        /\ next.fields = SetField(wire[w].fields, FieldOf(todo[k + 1].key), value)
    BY <1>5
  <1> HIDE DEF next
  <1>9. ReplyFollows(next)
    BY <1>5, <1>7, <1>8 DEF ReplyFollows, todo
  <1> QED
    BY <1>1, <1>9

LEMMA WireStepFollows ==
    ASSUME Inv, RepliesFollow, NEW w \in Wires, WireStep(w)
    PROVE  \A v \in Wires : ReplyFollows(wire'[v])
  <1>1. /\ wire' = [v \in Wires |-> wire'[v]]
        /\ \A v \in Wires \ {w} : wire'[v] = wire[v]
    BY WireStepUpdates DEF Inv
  <1>2. SUFFICES ReplyFollows(wire'[w])
    BY <1>1 DEF RepliesFollow
  <1>3. CASE ProcessPort(w)
    <2>1. CASE UNCHANGED wire
      BY <2>1 DEF RepliesFollow
    <2>2. CASE ~UNCHANGED wire
      <3>1. PICK req \in Requests :
              wire' = [wire EXCEPT ![w] = [at |-> "expand", req |-> req, emit |-> emit,
                                           todo |-> Todo(req), fields |-> Echo(req)]]
        BY <1>3, <2>2 DEF ProcessPort
      <3> DEFINE next == [at |-> "expand", req |-> req, emit |-> emit,
                          todo |-> Todo(req), fields |-> Echo(req)]
      <3>2. wire'[w] = next
        <4> HIDE DEF next
        <4>1. wire' = [wire EXCEPT ![w] = next]
          BY <3>1 DEF next
        <4> QED
          BY <4>1, WireUpdate DEF Inv
      <3>3. Todo(req) \in Seq(EntriesOf(cfg))
        BY TodoIsSeq DEF Inv
      <3>4. 0 \in 0..Len(Todo(req)) /\ Todo(req) = SubSeq(Todo(req), 0 + 1, Len(Todo(req)))
        BY <3>3
      <3>5. BuiltFrom(req, Todo(req), 0, Echo(req))
        <4>1. 1..0 = {}
          OBVIOUS
        <4>2. {FieldOf(Todo(req)[j].key) : j \in 1..0} = {}
          BY <4>1
        <4> QED
          BY <4>1, <4>2 DEF BuiltFrom, Echoed
      <3>6. next.req = req /\ next.todo = Todo(req) /\ next.fields = Echo(req)
        OBVIOUS
      <3> HIDE DEF next
      <3>7. ReplyFollows(next)
        BY <3>4, <3>5, <3>6 DEF ReplyFollows
      <3> QED
        BY <3>2, <3>7
    <2> QED
      BY <2>1, <2>2
  <1>4. CASE PutLiteral(w)
    <2> DEFINE value == <<"", Now(w).template.value>>
    <2>1. Put(w, value) /\ Literal(Now(w).template) /\ wire[w].at # "idle" /\ wire[w].todo # <<>>
      BY <1>4 DEF PutLiteral
    <2>2. value[1] = Now(w).template.macro /\ value[2] = Now(w).template.value
      BY <2>1 DEF Literal
    <2> HIDE DEF value
    <2> QED
      BY <2>1, <2>2, PutFollows DEF Inv, RepliesFollow
  <1>5. CASE ExpandMacro(w)
    <2>1. wire[w].at # "idle" /\ wire[w].todo # <<>> /\ ~Literal(Now(w).template)
      BY <1>5 DEF ExpandMacro, Inv, OneInMacro
    <2>2. PICK value : Put(w, value) /\ value[1] = Now(w).template.macro
      <3> DEFINE t == Now(w).template
      <3>1. \/ t.macro = "STAN" /\ \E stan : Put(w, <<"STAN", stan>>)
            \/ \E n : Put(w, <<t.macro, n>>)
        <4>1. CASE Kept(t, wire[w].req)
          BY <1>5, <4>1 DEF ExpandMacro, Kept, Counts
        <4>2. CASE Counts(t, wire[w].req)
          BY <1>5, <4>2 DEF ExpandMacro, Counts
        <4>3. CASE ~Kept(t, wire[w].req) /\ ~Counts(t, wire[w].req)
          BY <1>5, <4>3 DEF ExpandMacro
        <4> QED
          BY <4>1, <4>2, <4>3
      <3>2. ASSUME NEW stan, t.macro = "STAN", Put(w, <<"STAN", stan>>)
            PROVE  \E v : Put(w, v) /\ v[1] = t.macro
        <4>1. <<"STAN", stan>>[1] = t.macro
          BY <3>2
        <4> QED
          BY <3>2, <4>1
      <3>3. ASSUME NEW n, Put(w, <<t.macro, n>>) PROVE \E v : Put(w, v) /\ v[1] = t.macro
        <4>1. <<t.macro, n>>[1] = t.macro
          OBVIOUS
        <4> QED
          BY <3>3, <4>1
      <3> QED
        BY <3>1, <3>2, <3>3
    <2> QED
      BY <2>1, <2>2, PutFollows DEF Inv, RepliesFollow
  <1>6. CASE EnterMacro(w)
    <2> DEFINE next == [at |-> "locked", req |-> wire[w].req, emit |-> wire[w].emit,
                        todo |-> wire[w].todo, fields |-> wire[w].fields, seen |-> counters]
    <2>1. wire' = [wire EXCEPT ![w] = next] /\ wire[w].at # "idle"
      BY <1>6 DEF EnterMacro
    <2>2. next.req = wire[w].req /\ next.todo = wire[w].todo /\ next.fields = wire[w].fields
      OBVIOUS
    <2> HIDE DEF next
    <2>3. wire'[w] = next
      BY <2>1, WireUpdate DEF Inv
    <2> QED
      BY <2>1, <2>2, <2>3 DEF RepliesFollow, ReplyFollows
  <1>7. CASE Respond(w) \/ GiveUp(w)
    <2>1. wire'[w] = Idle
      BY <1>7, WireUpdate DEF Respond, GiveUp, Inv
    <2> QED
      BY <2>1 DEF ReplyFollows, Idle
  <1> QED
    BY <1>3, <1>4, <1>5, <1>6, <1>7 DEF WireStep

LEMMA RepliesStay ==
    ASSUME UNCHANGED cfg, \A w \in Wires : ReplyFollows(wire'[w])
    PROVE  RepliesFollow'
  <1>1. \A req : First(req)' = First(req)
    BY DEF First, Matching
  <1>2. \A req : Todo(req)' = Todo(req)
    BY <1>1 DEF Todo
  <1> QED
    BY <1>2 DEF RepliesFollow, ReplyFollows

LEMMA RepliesFollowKept == ConfigInv /\ RepliesFollow /\ [ConfigNext]_configVars => RepliesFollow'
  <1> SUFFICES ASSUME ConfigInv, RepliesFollow, [ConfigNext]_configVars PROVE RepliesFollow'
    OBVIOUS
  <1>1. CASE InitGear
    <2>1. \A w \in Wires : wire'[w] = Idle
      BY <1>1 DEF InitGear, ConfigInv, Fresh, serving
    <2> QED
      BY <2>1 DEF RepliesFollow, ReplyFollows, Idle
  <1>2. CASE Serving
    <2>1. Inv /\ cfg' = cfg /\ Next
      BY <1>2, ConfigKept DEF Serving, ConfigInv
    <2>2. \A w \in Wires : ReplyFollows(wire'[w])
      <3>1. CASE UNCHANGED wire
        BY <3>1 DEF RepliesFollow
      <3>2. CASE ~UNCHANGED wire
        <4>1. PICK w \in Wires : WireStep(w)
          BY <2>1, <3>2, RuntimeFrame, ControlFrame DEF Next, serving
        <4> QED
          BY <2>1, <4>1, WireStepFollows
      <3> QED
        BY <3>1, <3>2
    <2> QED
      BY <2>1, <2>2, RepliesStay
  <1>3. CASE UNCHANGED configVars
    <2>1. UNCHANGED <<cfg, wire>>
      BY <1>3 DEF configVars, vars, gear, serving
    <2> QED
      BY <2>1, RepliesStay DEF RepliesFollow
  <1> QED
    BY <1>1, <1>2, <1>3 DEF ConfigNext

LEMMA RepliesFollowHolds == ConfigSpec => []RepliesFollow
  <1>1. ConfigInit => RepliesFollow
    <2>1. ConfigInit => \A w \in Wires : wire[w] = Idle
      BY DEF ConfigInit, Fresh
    <2> QED
      BY <2>1 DEF RepliesFollow, ReplyFollows, Idle
  <1> QED
    BY <1>1, RepliesFollowKept, ConfigInvHolds, PTL DEF ConfigSpec

-----------------------------------------------------------------------------
(* What is written, as fields *)

AsField(e) == [field |-> FieldOf(e.key), template |-> e.template]
AsFields(entries) == {AsField(e) : e \in entries}

\* Put in order, no entry that names a field is lost, and no other is left.
LEMMA InOrderHasAll ==
    ASSUME NEW entries, IsFiniteSet(entries), Orders(entries) # {},
           \A e \in entries : KeyOrder[e.key] \in Int
    PROVE  /\ \A j \in 1..Len(InOrder(entries)) :
                 InOrder(entries)[j] \in entries /\ FieldOf(InOrder(entries)[j].key) > 0
           /\ \A e \in entries : FieldOf(e.key) > 0 =>
                 \E j \in 1..Len(InOrder(entries)) : InOrder(entries)[j] = e
  <1> DEFINE usable == {e \in entries : FieldOf(e.key) > 0}
             s == InOrder(entries)
             n == Cardinality(usable)
  <1>1. IsFiniteSet(usable) /\ n \in Nat
    BY FS_Subset, FS_CardinalityType
  <1>2. /\ s \in [1..n -> usable]
        /\ \A i, j \in DOMAIN s : i < j => KeyOrder[s[i].key] < KeyOrder[s[j].key]
    BY DEF InOrder, Orders
  <1>3. Len(s) = n
    BY <1>1, <1>2
  <1> HIDE DEF s, n
  <1>4. ASSUME NEW i \in 1..n, NEW j \in 1..n, s[i] = s[j] PROVE i = j
    <2>1. KeyOrder[s[i].key] \in Int
      BY <1>2
    <2>2. ~(i < j) /\ ~(j < i)
      BY <1>2, <1>4, <2>1
    <2> QED
      BY <1>1, <2>2
  <1>5. s \in Injection(1..n, usable)
    <2> HIDE DEF usable
    <2> QED
      BY <1>2, <1>4 DEF Injection, IsInjective
  <1>6. Cardinality(1..n) = Cardinality(usable)
    <2>1. Cardinality(1..n) = IF 1 > n THEN 0 ELSE n - 1 + 1
      BY <1>1, FS_Interval
    <2> QED
      BY <1>1, <2>1 DEF n
  <1>7. s \in Surjection(1..n, usable)
    <2> HIDE DEF usable
    <2> QED
      BY <1>1, <1>5, <1>6, FS_Injection
  <1>8. \A e \in usable : \E j \in 1..n : s[j] = e
    <2> HIDE DEF usable
    <2> QED
      BY <1>7 DEF Surjection
  <1> QED
    BY <1>2, <1>3, <1>8 DEF s

LEMMA NoEntries == IsFiniteSet({}) /\ Orders({}) # {}
  <1>1. {e \in {} : FieldOf(e.key) > 0} = {}
    OBVIOUS
  <1>2. <<>> \in Orders({})
    BY <1>1, FS_EmptySet DEF Orders
  <1> QED
    BY <1>2, FS_EmptySet

\* What stringMap makes of a map names the fields that are written.
LEMMA GivenIsRead ==
    ASSUME NEW m, NEW key, NumberKeys(m, key) \subseteq DOMAIN Decimal
    PROVE  GivenUnder(m, key) = AsFields(StringMap(m, key))
  <1> DEFINE numbers == Read(m, key, "anymap", {})
             texts   == Read(m, key, "map", {})
             asText(e) == [key |-> Decimal[e.key], template |-> e.template]
  <1>1. \A e \in numbers : AsField(asText(e)) = [field |-> e.key, template |-> e.template]
    <2>1. ASSUME NEW e \in numbers PROVE FieldOf(Decimal[e.key]) = e.key
      BY DecimalAssumption DEF NumberKeys, FieldOf
    <2> QED
      BY <2>1 DEF AsField
  <1>2. StringMap(m, key) = texts \union {asText(e) : e \in numbers}
    BY DEF StringMap
  <1>3. GivenUnder(m, key) = {[field |-> e.key, template |-> e.template] : e \in numbers}
                                \union {AsField(e) : e \in texts}
    BY DEF GivenUnder, AsField
  <1> HIDE DEF numbers, texts
  <1>4. {AsField(e) : e \in StringMap(m, key)}
          = {AsField(e) : e \in texts} \union {AsField(asText(e)) : e \in numbers}
    BY <1>2
  <1>5. {AsField(asText(e)) : e \in numbers}
          = {[field |-> e.key, template |-> e.template] : e \in numbers}
    <2> DEFINE one(e)   == AsField(asText(e))
               other(e) == [field |-> e.key, template |-> e.template]
    <2>1. \A e \in numbers : one(e) = other(e)
      BY <1>1
    <2> HIDE DEF one, other
    <2>2. {one(e) : e \in numbers} = {other(e) : e \in numbers}
      BY <2>1
    <2> QED
      BY <2>2 DEF one, other
  <1> QED
    BY <1>3, <1>4, <1>5 DEF AsFields

-----------------------------------------------------------------------------
(* What is in a reply *)

\* Of two maps, the second over the first, what is said of the fields there are.
Over(set, defaults) ==
    {e \in set : e.field > 0}
        \union {d \in defaults : d.field > 0 /\ \A e \in set : e.field # d.field}

\* A field that is given has the value of what is given for it, another is echoed.
DecidedBy(given, req, fields) ==
    LET named == {e.field : e \in given} IN
    /\ \A f \in named : \E e \in given :
          /\ e.field = f
          /\ fields[f][1] = e.template.macro
          /\ Literal(e.template) => fields[f][2] = e.template.value
    /\ DOMAIN fields = named \union DOMAIN Echo(req)
    /\ \A f \in DOMAIN fields \ named : fields[f] = <<"echo", req.fields[f]>>

\* A sequence holds the entries of a set that name a field, and no others.
Lists(s, entries) ==
    /\ s \in Seq(entries)
    /\ \A j \in 1..Len(s) : FieldOf(s[j].key) > 0
    /\ \A e \in entries : FieldOf(e.key) > 0 => \E j \in 1..Len(s) : s[j] = e

\* Where the entries to expand are those of one map and then those of another, each
\* field has what the second says of it, or else the first, or else the request.
LEMMA LastIsOver ==
    ASSUME NEW A, NEW B, NEW a, NEW b, Lists(a, A), Lists(b, B),
           NEW req, NEW fields, BuiltFrom(req, a \o b, Len(a \o b), fields)
    PROVE  DecidedBy(Over(AsFields(B), AsFields(A)), req, fields)
  <1> DEFINE s == a \o b
             m == Len(a)
             n == Len(s)
             set      == AsFields(B)
             defaults == AsFields(A)
             given    == Over(set, defaults)
             named    == {e.field : e \in given}
  <1>1. /\ m \in Nat /\ Len(b) \in Nat /\ n = m + Len(b)
        /\ \A j \in 1..m : s[j] = a[j]
        /\ \A j \in 1..Len(b) : s[m + j] = b[j]
    BY LenProperties, ConcatProperties DEF Lists
  <1>2. /\ a \in Seq(A) /\ b \in Seq(B)
        /\ (\A j \in 1..m : a[j] \in A) /\ \A j \in 1..Len(b) : b[j] \in B
    BY ElementOfSeq DEF Lists
  <1>3. /\ \A x : AsField(x).field = FieldOf(x.key) /\ AsField(x).template = x.template
        /\ \A x \in A : AsField(x) \in defaults
        /\ \A x \in B : AsField(x) \in set
    BY DEF AsField, AsFields
  <1> HIDE DEF s, n, m
  <1>4. ASSUME NEW j \in 1..n
        PROVE  /\ FieldOf(s[j].key) > 0
               /\ j <= m => AsField(s[j]) \in defaults
               /\ j > m => AsField(s[j]) \in set
    <2>1. CASE j <= m
      <3>1. j \in 1..m
        BY <1>1, <2>1
      <3>2. s[j] = a[j] /\ a[j] \in A /\ FieldOf(a[j].key) > 0
        BY <1>1, <1>2, <3>1 DEF Lists, m
      <3> QED
        BY <1>1, <1>3, <2>1, <3>2
    <2>2. CASE j > m
      <3>1. j - m \in 1..Len(b) /\ m + (j - m) = j
        BY <1>1, <2>2
      <3>2. s[j] = b[j - m] /\ b[j - m] \in B /\ FieldOf(b[j - m].key) > 0
        BY <1>1, <1>2, <3>1 DEF Lists
      <3> QED
        BY <1>1, <1>3, <2>2, <3>2
    <2> QED
      BY <1>1, <2>1, <2>2
  <1>5. ASSUME NEW e \in set, e.field > 0
        PROVE  \E j \in 1..n : j > m /\ FieldOf(s[j].key) = e.field
    <2>1. PICK x \in B : e = AsField(x)
      BY DEF AsFields
    <2>2. PICK i \in 1..Len(b) : b[i] = x
      BY <1>3, <1>5, <2>1 DEF Lists
    <2>3. m + i \in 1..n /\ m + i > m
      BY <1>1
    <2>4. s[m + i] = x
      BY <1>1, <2>2
    <2> QED
      BY <1>3, <2>1, <2>3, <2>4
  <1>6. ASSUME NEW e \in defaults, e.field > 0
        PROVE  \E j \in 1..n : FieldOf(s[j].key) = e.field
    <2>1. PICK x \in A : e = AsField(x)
      BY DEF AsFields
    <2>2. PICK i \in 1..m : a[i] = x
      BY <1>3, <1>6, <2>1 DEF Lists, m
    <2>3. i \in 1..n /\ s[i] = x
      BY <1>1, <2>2
    <2> QED
      BY <1>3, <2>1, <2>3
  <1> HIDE DEF set, defaults
  <1>7. given = Over(set, defaults)
    OBVIOUS
  <1> HIDE DEF given
  <1>8. \A e \in given : \E j \in 1..n : FieldOf(s[j].key) = e.field
    BY <1>5, <1>6, <1>7 DEF Over
  <1>9. ASSUME NEW j \in 1..n PROVE FieldOf(s[j].key) \in named
    <2>1. AsField(s[j]).field = FieldOf(s[j].key) /\ FieldOf(s[j].key) > 0
      BY <1>3, <1>4
    <2>2. CASE \E e \in set : e.field = FieldOf(s[j].key)
      BY <1>7, <2>1, <2>2 DEF Over
    <2>3. CASE \A e \in set : e.field # FieldOf(s[j].key)
      <3>1. AsField(s[j]) \in defaults
        BY <1>1, <1>4, <2>1, <2>3
      <3> QED
        BY <1>7, <2>1, <2>3, <3>1 DEF Over
    <2> QED
      BY <2>2, <2>3
  <1>10. BuiltFrom(req, s, n, fields)
    BY DEF s, n
  <1>11. ASSUME NEW f \in named
         PROVE  \E e \in given :
                  /\ e.field = f
                  /\ fields[f][1] = e.template.macro
                  /\ Literal(e.template) => fields[f][2] = e.template.value
    <2>1. \E j \in 1..n : FieldOf(s[j].key) = f
      BY <1>8
    <2>2. SetBy(s, n, f, fields[f])
      BY <1>10, <2>1 DEF BuiltFrom, Echoed
    <2>3. PICK j \in 1..n :
            /\ FieldOf(s[j].key) = f /\ \A i \in (j + 1)..n : FieldOf(s[i].key) # f
            /\ fields[f][1] = s[j].template.macro
            /\ Literal(s[j].template) => fields[f][2] = s[j].template.value
      BY <2>2 DEF SetBy
    <2>4. AsField(s[j]).field = f /\ f > 0 /\ AsField(s[j]).template = s[j].template
      BY <1>3, <1>4, <2>3
    <2>5. AsField(s[j]) \in given
      <3>1. CASE j > m
        BY <1>4, <1>7, <2>4, <3>1 DEF Over
      <3>2. CASE j <= m
        <4>1. \A e \in set : e.field # f
          <5> SUFFICES ASSUME NEW e \in set, e.field = f PROVE FALSE
            OBVIOUS
          <5>1. PICK i \in 1..n : i > m /\ FieldOf(s[i].key) = f
            BY <1>5, <2>4
          <5>2. i \in (j + 1)..n
            BY <1>1, <3>2, <5>1
          <5> QED
            BY <2>3, <5>1, <5>2
        <4> QED
          BY <1>4, <1>7, <2>4, <3>2, <4>1 DEF Over
      <3> QED
        BY <1>1, <3>1, <3>2
    <2> QED
      BY <2>3, <2>4, <2>5
  <1>12. named = {FieldOf(s[j].key) : j \in 1..n}
    <2>1. \A f \in named : \E j \in 1..n : f = FieldOf(s[j].key)
      BY <1>8
    <2> QED
      BY <1>9, <2>1
  <1>13. DOMAIN fields = named \union DOMAIN Echo(req)
    BY <1>10, <1>12 DEF BuiltFrom
  <1>14. ASSUME NEW f \in DOMAIN fields \ named
         PROVE  fields[f] = <<"echo", req.fields[f]>>
    <2>1. ~SetBy(s, n, f, fields[f])
      BY <1>9 DEF SetBy
    <2>2. f \in DOMAIN Echo(req) /\ fields[f] = Echo(req)[f]
      BY <1>10, <2>1 DEF BuiltFrom, Echoed
    <2> QED
      BY <2>2 DEF Echo
  <1> QED
    BY <1>11, <1>13, <1>14 DEF DecidedBy, given, set, defaults

\* Entries that can be put in the order of their keys are listed so.
LEMMA InOrderLists ==
    ASSUME NEW entries, IsFiniteSet(entries), Orders(entries) # {},
           \A e \in entries : KeyOrder[e.key] \in Int
    PROVE  Lists(InOrder(entries), entries)
  BY InOrderIsSeq, InOrderHasAll DEF Lists

\* What a request is answered with: the defaults, then the set of at most one rule.
LEMMA TodoLists ==
    ASSUME cfg \in Configs, NEW req
    PROVE  LET set == UNION {cfg.rules[i].set : i \in First(req)}
           IN /\ Lists(InOrder(cfg.default), cfg.default)
              /\ Lists(InOrder(set), set)
  <1> DEFINE set == UNION {cfg.rules[i].set : i \in First(req)}
  <1>1. Lists(InOrder(cfg.default), cfg.default)
    BY ConfigsAssumption, InOrderLists
  <1>2. CASE First(req) = {}
    <2>1. set = {}
      BY <1>2
    <2>2. Lists(InOrder({}), {})
      BY NoEntries, InOrderLists
    <2> QED
      BY <1>1, <2>1, <2>2
  <1>3. ASSUME NEW i \in DOMAIN cfg.rules, First(req) = {i}
        PROVE  Lists(InOrder(set), set)
    <2>1. set = cfg.rules[i].set
      BY <1>3
    <2>2. Lists(InOrder(cfg.rules[i].set), cfg.rules[i].set)
      BY ConfigsAssumption, InOrderLists
    <2> QED
      BY <2>1, <2>2
  <1> QED
    BY <1>1, <1>2, <1>3, OneFirst

-----------------------------------------------------------------------------
(* What is written *)

\* The fields that are written as defaults are those of the program's configuration.
LEMMA DefaultsWritten ==
    ASSUME NEW w, NumberKeys(w, "default") \subseteq DOMAIN Decimal
    PROVE  AsFields(DefaultOf(w)) =
              IF GivenUnder(w, "default") = {} THEN {[field |-> 39, template |-> Approved]}
              ELSE GivenUnder(w, "default")
  <1>1. GivenUnder(w, "default") = AsFields(StringMap(w, "default"))
    BY GivenIsRead
  <1>2. CASE StringMap(w, "default") = {}
    <2>1. GivenUnder(w, "default") = {}
      BY <1>1, <1>2 DEF AsFields
    <2>2. DefaultOf(w) = {[key |-> "39", template |-> Approved]}
      BY <1>2 DEF DefaultOf, DefaultConfig
    <2>3. AsField([key |-> "39", template |-> Approved]) = [field |-> 39, template |-> Approved]
      BY DefaultAssumption DEF AsField, FieldOf
    <2> QED
      BY <2>1, <2>2, <2>3 DEF AsFields
  <1>3. CASE StringMap(w, "default") # {}
    <2>1. GivenUnder(w, "default") # {}
      BY <1>1, <1>3 DEF AsFields
    <2> QED
      BY <1>1, <1>3, <2>1 DEF DefaultOf
  <1> QED
    BY <1>2, <1>3

\* The rules that are written are those that are tried, in their order, with what they set.
LEMMA RulesWritten ==
    ASSUME stage = "ready", ConfigInv, AcceptedRulesAreKept, NEW req
    PROVE  LET rules   == Read(Config, "rules", "list", <<>>)
               holding == {i \in DOMAIN rules : req \in Holds[rules[i].map.when.text]}
               first   == {i \in holding : \A j \in holding : i <= j}
           IN /\ first = First(req)
              /\ UNION {GivenUnder(rules[i].map, "set") : i \in first}
                   = AsFields(UNION {cfg.rules[i].set : i \in First(req)})
  <1> DEFINE rules   == Read(Config, "rules", "list", <<>>)
             holding == {i \in DOMAIN rules : req \in Holds[rules[i].map.when.text]}
             first   == {i \in holding : \A j \in holding : i <= j}
  <1>1. Accepted(Config) /\ cfg = Parsed(Config) /\ written \in DOMAIN Written
    BY DEF ConfigInv
  <1>2. cfg.rules = [i \in DOMAIN rules |-> Rule(rules[i].map)]
    BY <1>1 DEF Parsed, RulesOf
  <1>3. \A i \in DOMAIN rules : rules[i].map.when.text = cfg.rules[i].when
                                /\ cfg.rules[i].when \in DOMAIN Holds
    BY DEF AcceptedRulesAreKept
  <1>4. \A i \in DOMAIN rules : NumberKeys(rules[i].map, "set") \subseteq DOMAIN Decimal
    BY <1>1, WrittenAssumption DEF Config
  <1>5. ASSUME NEW i \in DOMAIN rules
        PROVE  GivenUnder(rules[i].map, "set") = AsFields(cfg.rules[i].set)
    <2>1. cfg.rules[i].set = StringMap(rules[i].map, "set")
      <3>1. Rule(rules[i].map).set = StringMap(rules[i].map, "set")
        BY DEF Rule
      <3> HIDE DEF rules
      <3> QED
        BY <1>2, <3>1
    <2> QED
      BY <1>4, <2>1, GivenIsRead
  <1> HIDE DEF rules
  <1>6. Matching(req) = holding
    BY <1>2, <1>3 DEF Matching, EvalWhen
  <1>7. first = First(req)
    BY <1>6 DEF First
  <1>8. First(req) \subseteq DOMAIN rules
    BY <1>7
  <1>9. UNION {GivenUnder(rules[i].map, "set") : i \in First(req)}
          = UNION {AsFields(cfg.rules[i].set) : i \in First(req)}
    BY <1>5, <1>8
  <1>10. UNION {AsFields(cfg.rules[i].set) : i \in First(req)}
          = AsFields(UNION {cfg.rules[i].set : i \in First(req)})
    BY DEF AsFields
  <1> QED
    BY <1>7, <1>9, <1>10 DEF rules

\* What is written decides a reply: the set of the first rule that holds of the request,
\* alone, over the defaults, over what is echoed, however its expansion is interleaved
\* with other requests, commands and resets.
THEOREM WrittenRulesDecideHolds == ConfigSpec => []WrittenRulesDecide
  <1>1. ConfigInv /\ RepliesFollow /\ AcceptedRulesAreKept => WrittenRulesDecide
    <2> SUFFICES ASSUME ConfigInv, RepliesFollow, AcceptedRulesAreKept, stage = "ready"
                 PROVE  WrittenRulesDecide
      BY DEF WrittenRulesDecide
    <2>1. cfg \in Configs /\ Accepted(Config) /\ cfg = Parsed(Config) /\ written \in DOMAIN Written
      BY DEF ConfigInv, Inv
    <2>2. ASSUME NEW w \in Wires, Done(w)
          PROVE  DecidedBy(Over(AsFields(UNION {cfg.rules[i].set : i \in First(wire[w].req)}),
                                AsFields(cfg.default)),
                           wire[w].req, wire[w].fields)
      <3> DEFINE req  == wire[w].req
                 set  == UNION {cfg.rules[i].set : i \in First(req)}
                 a    == InOrder(cfg.default)
                 b    == InOrder(set)
                 todo == Todo(req)
      <3>1. todo = a \o b
        BY DEF Todo
      <3>2. todo \in Seq(EntriesOf(cfg))
        BY <2>1, TodoIsSeq
      <3>3. PICK k \in 0..Len(todo) :
              /\ SubSeq(todo, k + 1, Len(todo)) = <<>>
              /\ BuiltFrom(req, todo, k, wire[w].fields)
        BY <2>2 DEF RepliesFollow, ReplyFollows, Done
      <3>4. Lists(a, cfg.default) /\ Lists(b, set)
        BY <2>1, TodoLists
      <3> HIDE DEF todo, a, b, set, req
      <3>5. k = Len(todo)
        BY <3>2, <3>3, NothingLeft
      <3>6. BuiltFrom(req, a \o b, Len(a \o b), wire[w].fields)
        BY <3>1, <3>3, <3>5
      <3>7. DecidedBy(Over(AsFields(set), AsFields(cfg.default)), req, wire[w].fields)
        BY <3>4, <3>6, LastIsOver
      <3> QED
        BY <3>7 DEF set, req
    <2>3. AsFields(cfg.default) =
              IF GivenUnder(Config, "default") = {} THEN {[field |-> 39, template |-> Approved]}
              ELSE GivenUnder(Config, "default")
      <3>1. cfg.default = DefaultOf(Config)
        BY <2>1 DEF Parsed, DefaultConfig
      <3> QED
        BY <2>1, <3>1, WrittenAssumption, DefaultsWritten DEF Config
    <2>4. ASSUME NEW w \in Wires, Done(w)
          PROVE
        LET rules  == Read(Config, "rules", "list", <<>>)
            holding == {i \in DOMAIN rules : wire[w].req \in Holds[rules[i].map.when.text]}
            first   == {i \in holding : \A j \in holding : i <= j}
            set      == UNION {GivenUnder(rules[i].map, "set") : i \in first}
            defaults == IF GivenUnder(Config, "default") = {}
                        THEN {[field |-> 39, template |-> Approved]}
                        ELSE GivenUnder(Config, "default")
        IN DecidedBy(Over(set, defaults), wire[w].req, wire[w].fields)
      <3> DEFINE rules  == Read(Config, "rules", "list", <<>>)
                 holding == {i \in DOMAIN rules : wire[w].req \in Holds[rules[i].map.when.text]}
                 first   == {i \in holding : \A j \in holding : i <= j}
                 set      == UNION {GivenUnder(rules[i].map, "set") : i \in first}
                 defaults == IF GivenUnder(Config, "default") = {}
                             THEN {[field |-> 39, template |-> Approved]}
                             ELSE GivenUnder(Config, "default")
      <3>1. set = AsFields(UNION {cfg.rules[i].set : i \in First(wire[w].req)})
        BY RulesWritten
      <3>2. defaults = AsFields(cfg.default)
        BY <2>3
      <3> HIDE DEF set, defaults
      <3>3. DecidedBy(Over(set, defaults), wire[w].req, wire[w].fields)
        BY <2>2, <2>4, <3>1, <3>2
      <3> QED
        BY <3>3 DEF set, defaults
    <2> QED
      BY <2>4 DEF WrittenRulesDecide, Over, DecidedBy
  <1> QED
    BY <1>1, ConfigInvHolds, RepliesFollowHolds, AcceptedRulesAreKeptHolds, PTL

-----------------------------------------------------------------------------
(* Replies of a seeded gear. Of what the requests since the reset expand, one  *)
(* after another, the wires have put all but the rest of the last of them.     *)

\* With d draws and the numbers issued, they are where the first k expansions leave them.
Moved(all, k, d, numbers) ==
    /\ d = Cardinality(Draws(all, k))
    /\ \A name \in Counters : Len(numbers[name]) = Cardinality(Moves(all, k, name))

\* What all ends with is what the request expands.
EndsWith(all, req) ==
    /\ Len(all) - Len(Todo(req)) \in Nat
    /\ \A i \in 1..Len(Todo(req)) :
          all[(Len(all) - Len(Todo(req))) + i] = [template |-> Todo(req)[i].template, req |-> req]

\* The field of the i-th of the first e entries is not put again among them.
LastFor(entries, i, e) ==
    \A j \in (i + 1)..e : FieldOf(entries[j].key) # FieldOf(entries[i].key)

\* What comes before decides what the template gives.
Foretold(t) == Alone(t) /\ Replays(t)

\* The first e entries of the request have put what is expected of them.
PutAsExpected(x, req, all, e) ==
    /\ x.req = req /\ x.todo = SubSeq(Todo(req), e + 1, Len(Todo(req)))
    /\ \A i \in 1..e : FieldOf(Todo(req)[i].key) \in DOMAIN x.fields
    /\ \A i \in 1..e :
          Foretold(Todo(req)[i].template) /\ LastFor(Todo(req), i, e) =>
              x.fields[FieldOf(Todo(req)[i].key)]
                  = Expected(all, (Len(all) - Len(Todo(req))) + i)

AllPut(all, requests, wires, d, numbers) ==
    /\ Moved(all, Len(all), d, numbers)
    /\ requests = <<>> \/ wires[Last(requests).wire] = Idle

SomePut(all, requests, wires, d, numbers) ==
    LET req == Last(requests).req
        x   == wires[Last(requests).wire]
    IN /\ requests # <<>> /\ x # Idle /\ EndsWith(all, req)
       /\ \E e \in 0..Len(Todo(req)) :
             /\ Moved(all, (Len(all) - Len(Todo(req))) + e, d, numbers)
             /\ PutAsExpected(x, req, all, e)

PutSoFar(requests, wires, d, numbers) ==
    \/ AllPut(Expansions(requests), requests, wires, d, numbers)
    \/ SomePut(Expansions(requests), requests, wires, d, numbers)

\* Only the last of the requests can be half expanded.
OneDraws == \A w \in Wires : Drawing(w) => taken # <<>> /\ Last(taken).wire = w

ReplaysSoFar ==
    /\ taken \in Seq([wire : Wires, req : Requests])
    /\ cfg.seed # 0 /\ serial =>
         OneDraws /\ PutSoFar(taken, wire, drawn, issued)

\* One expansion more moves its counter, if it has one, by one.
LEMMA MovesOfMore ==
    ASSUME NEW all, NEW k \in Nat, NEW name
    PROVE  /\ IsFiniteSet(Moves(all, k, name)) /\ Cardinality(Moves(all, k, name)) \in Nat
           /\ Cardinality(Moves(all, k + 1, name)) = Cardinality(Moves(all, k, name))
                + IF Counts(all[k + 1].template, all[k + 1].req)
                        /\ CounterOf(all[k + 1].template) = name THEN 1 ELSE 0
  <1> DEFINE moves(i) == Counts(all[i].template, all[i].req) /\ CounterOf(all[i].template) = name
             old == {i \in 1..k : moves(i)}
             new == {i \in 1..(k + 1) : moves(i)}
  <1>1. IsFiniteSet(old) /\ Cardinality(old) \in Nat
    <2>1. IsFiniteSet(1..k) /\ old \subseteq 1..k
      BY FS_Interval
    <2> HIDE DEF old
    <2> QED
      BY <2>1, FS_Subset, FS_CardinalityType
  <1>2. old = Moves(all, k, name) /\ new = Moves(all, k + 1, name)
    BY DEF Moves
  <1>3. 1..(k + 1) = (1..k) \union {k + 1} /\ k + 1 \notin old
    OBVIOUS
  <1> HIDE DEF moves
  <1>4. CASE moves(k + 1)
    <2>1. new = old \union {k + 1}
      BY <1>3, <1>4
    <2> HIDE DEF old, new
    <2>2. Cardinality(new) = Cardinality(old) + 1
      BY <1>1, <1>3, <2>1, FS_AddElement
    <2> QED
      BY <1>1, <1>2, <1>4, <2>2 DEF moves
  <1>5. CASE ~moves(k + 1)
    <2>1. new = old
      BY <1>3, <1>5
    <2> HIDE DEF old, new
    <2> QED
      BY <1>1, <1>2, <1>5, <2>1 DEF moves
  <1> QED
    BY <1>4, <1>5

\* By how much an expansion moves a counter.
Step(t, req, name) == IF Counts(t, req) /\ CounterOf(t) = name THEN 1 ELSE 0

LEMMA MovesByOne ==
    ASSUME NEW all, NEW k \in Nat
    PROVE  \A name : Cardinality(Moves(all, k + 1, name))
                       = Cardinality(Moves(all, k, name))
                           + Step(all[k + 1].template, all[k + 1].req, name)
  <1> TAKE name
  <1>1. Cardinality(Moves(all, k + 1, name)) = Cardinality(Moves(all, k, name))
          + IF Counts(all[k + 1].template, all[k + 1].req)
                  /\ CounterOf(all[k + 1].template) = name THEN 1 ELSE 0
    BY MovesOfMore
  <1> QED
    BY <1>1 DEF Step

LEMMA NoneMoves ==
    ASSUME NEW all, NEW k \in Nat, ~Counts(all[k + 1].template, all[k + 1].req)
    PROVE  \A name : Cardinality(Moves(all, k + 1, name)) = Cardinality(Moves(all, k, name))
  <1> TAKE name
  <1>1. /\ Cardinality(Moves(all, k, name)) \in Nat
        /\ Cardinality(Moves(all, k + 1, name)) = Cardinality(Moves(all, k, name))
             + IF Counts(all[k + 1].template, all[k + 1].req)
                     /\ CounterOf(all[k + 1].template) = name THEN 1 ELSE 0
    BY MovesOfMore
  <1> QED
    BY <1>1

\* ... and makes its draws.
LEMMA DrawsOfMore ==
    ASSUME NEW all, NEW k \in Nat, IsFiniteSet(Draws(all, k))
    PROVE  /\ IsFiniteSet(Draws(all, k + 1))
           /\ Cardinality(Draws(all, k)) \in Nat
           /\ Cardinality(Draws(all, k + 1))
                = Cardinality(Draws(all, k)) + DrawsOf(all[k + 1].template)
  <1> DEFINE d    == DrawsOf(all[k + 1].template)
             last == {k + 1} \X (1..d)
             old  == Draws(all, k)
             new  == Draws(all, k + 1)
  <1>1. d \in Nat
    BY DEF DrawsOf
  <1>2. 1..(k + 1) = (1..k) \union {k + 1}
    OBVIOUS
  <1>3. new = old \union last
    BY <1>2 DEF Draws
  <1>4. old \intersect last = {}
    BY DEF Draws
  <1> HIDE DEF d, old, new
  <1>5. IsFiniteSet(last) /\ Cardinality(last) = d
    <2>1. IsFiniteSet(1..d) /\ Cardinality(1..d) = d
      BY <1>1, FS_Interval
    <2>2. IsFiniteSet({k + 1}) /\ Cardinality({k + 1}) = 1
      BY FS_Singleton
    <2>3. IsFiniteSet(last) /\ Cardinality(last) = Cardinality({k + 1}) * Cardinality(1..d)
      BY <2>1, <2>2, FS_Product
    <2> HIDE DEF last
    <2> QED
      BY <1>1, <2>1, <2>2, <2>3
  <1> HIDE DEF last
  <1>6. IsFiniteSet(old) /\ Cardinality(old) \in Nat
    BY FS_CardinalityType DEF old
  <1>7. /\ IsFiniteSet(new)
        /\ Cardinality(new) = Cardinality(old) + Cardinality(last) - Cardinality(old \intersect last)
    BY <1>3, <1>5, <1>6, FS_Union
  <1>8. Cardinality(old \intersect last) = 0
    BY <1>4, FS_EmptySet
  <1> QED
    BY <1>1, <1>5, <1>6, <1>7, <1>8 DEF old, new, d

LEMMA DrawsFinite ==
    ASSUME NEW all, NEW k \in Nat
    PROVE  IsFiniteSet(Draws(all, k)) /\ Cardinality(Draws(all, k)) \in Nat
  <1> DEFINE T == {i \in 0..k : IsFiniteSet(Draws(all, i))}
  <1>1. 0 \in T
    <2>1. 1..0 = {}
      OBVIOUS
    <2>2. Draws(all, 0) = {}
      BY <2>1 DEF Draws
    <2> QED
      BY <2>2, FS_EmptySet
  <1>2. ASSUME NEW i \in 1..k, i - 1 \in T PROVE i \in T
    <2>1. i - 1 \in Nat /\ (i - 1) + 1 = i /\ i \in 0..k
      OBVIOUS
    <2>2. IsFiniteSet(Draws(all, (i - 1) + 1))
      BY <1>2, <2>1, DrawsOfMore
    <2> QED
      BY <2>1, <2>2
  <1> HIDE DEF T
  <1>3. \A i \in 0..k : i \in T
    BY <1>1, <1>2, UpTo
  <1>4. k \in T
    BY <1>3
  <1> QED
    BY <1>4, FS_CardinalityType DEF T

LEMMA DrawsByOne ==
    ASSUME NEW all, NEW k \in Nat
    PROVE  Cardinality(Draws(all, k + 1))
                = Cardinality(Draws(all, k)) + DrawsOf(all[k + 1].template)
  BY DrawsFinite, DrawsOfMore

\* Nothing has moved before the first.
LEMMA NoneMoved ==
    ASSUME NEW all
    PROVE  Cardinality(Draws(all, 0)) = 0 /\ \A name : Cardinality(Moves(all, 0, name)) = 0
  <1>1. 1..0 = {}
    OBVIOUS
  <1>2. Draws(all, 0) = {} /\ \A name : Moves(all, 0, name) = {}
    BY <1>1 DEF Draws, Moves
  <1> QED
    BY <1>2, FS_EmptySet

\* The first of the expansions are not moved by those that come after.
LEMMA MovedTheSame ==
    ASSUME NEW all, NEW more, NEW k \in Nat, \A i \in 1..k : more[i] = all[i]
    PROVE  Draws(more, k) = Draws(all, k) /\ \A name : Moves(more, k, name) = Moves(all, k, name)
  BY DEF Draws, Moves

-----------------------------------------------------------------------------
(* What requests expand *)

Expanded(requests) == [i \in DOMAIN requests |-> ExpandedBy(requests[i].req)]

LEMMA ExpandedBySeq ==
    ASSUME cfg \in Configs, NEW req \in Requests
    PROVE  /\ ExpandedBy(req) \in Seq([template : TemplatesOf(cfg), req : Requests])
           /\ Len(ExpandedBy(req)) = Len(Todo(req)) /\ Len(Todo(req)) \in Nat
           /\ \A i \in 1..Len(Todo(req)) :
                 ExpandedBy(req)[i] = [template |-> Todo(req)[i].template, req |-> req]
  <1> DEFINE todo == Todo(req)
             all  == ExpandedBy(req)
  <1>1. todo \in Seq(EntriesOf(cfg))
    BY TodoIsSeq
  <1>2. Len(todo) \in Nat /\ DOMAIN todo = 1..Len(todo)
    BY <1>1, LenProperties
  <1>3. all = [i \in 1..Len(todo) |-> [template |-> todo[i].template, req |-> req]]
    BY <1>2 DEF ExpandedBy
  <1>4. ASSUME NEW i \in 1..Len(todo) PROVE todo[i].template \in TemplatesOf(cfg)
    <2>1. todo[i] \in EntriesOf(cfg)
      BY <1>1, ElementOfSeq
    <2> QED
      BY <2>1, EntryTemplate
  <1> HIDE DEF todo, all
  <1>5. all \in [1..Len(todo) -> [template : TemplatesOf(cfg), req : Requests]]
    BY <1>3, <1>4
  <1>6. all \in Seq([template : TemplatesOf(cfg), req : Requests])
    BY <1>2, <1>5, FunctionIsSeq
  <1>7. Len(all) = Len(todo)
    BY <1>2, <1>5
  <1> QED
    BY <1>2, <1>3, <1>6, <1>7 DEF todo, all

LEMMA ExpandedSeq ==
    ASSUME cfg \in Configs, NEW requests \in Seq([wire : Wires, req : Requests])
    PROVE  Expanded(requests) \in Seq(Seq([template : TemplatesOf(cfg), req : Requests]))
  <1> DEFINE S == Seq([template : TemplatesOf(cfg), req : Requests])
  <1>1. Len(requests) \in Nat /\ DOMAIN requests = 1..Len(requests)
    BY LenProperties
  <1>2. ASSUME NEW i \in 1..Len(requests) PROVE ExpandedBy(requests[i].req) \in S
    <2>1. requests[i].req \in Requests
      <3>1. requests[i] \in [wire : Wires, req : Requests]
        BY ElementOfSeq
      <3> QED
        BY <3>1
    <2> QED
      BY <2>1, ExpandedBySeq
  <1> HIDE DEF S
  <1>3. Expanded(requests) \in [1..Len(requests) -> S]
    BY <1>1, <1>2 DEF Expanded
  <1>4. Expanded(requests) \in Seq(S)
    BY <1>1, <1>3, FunctionIsSeq
  <1> QED
    BY <1>4 DEF S

LEMMA ExpansionsSeq ==
    ASSUME cfg \in Configs, NEW requests \in Seq([wire : Wires, req : Requests])
    PROVE  Expansions(requests) \in Seq([template : TemplatesOf(cfg), req : Requests])
  <1>1. FlattenSeq(Expanded(requests)) \in Seq([template : TemplatesOf(cfg), req : Requests])
    BY ExpandedSeq, FlattenIsSeq
  <1> QED
    BY <1>1 DEF Expansions, Expanded

LEMMA NoneExpanded == Expansions(<<>>) = <<>> /\ Len(Expansions(<<>>)) = 0
  <1>1. Expanded(<<>>) = <<>>
    BY DEF Expanded
  <1>2. Expansions(<<>>) = <<>>
    BY <1>1, FlattenNone DEF Expansions, Expanded
  <1>3. Len(<<>>) = 0
    OBVIOUS
  <1> QED
    BY <1>2, <1>3, Zenon

\* One request more expands after the others.
LEMMA MoreExpanded ==
    ASSUME cfg \in Configs, NEW requests \in Seq([wire : Wires, req : Requests]),
           NEW x \in [wire : Wires, req : Requests]
    PROVE  LET old  == Expansions(requests)
               more == Expansions(Append(requests, x))
           IN /\ Len(old) \in Nat /\ Len(Todo(x.req)) \in Nat
              /\ Len(more) = Len(old) + Len(Todo(x.req))
              /\ \A i \in 1..Len(old) : more[i] = old[i]
              /\ EndsWith(more, x.req)
  <1> DEFINE S    == [template : TemplatesOf(cfg), req : Requests]
             old  == Expansions(requests)
             more == Expansions(Append(requests, x))
             last == ExpandedBy(x.req)
  <1>1. /\ last \in Seq(S) /\ Len(last) = Len(Todo(x.req)) /\ Len(Todo(x.req)) \in Nat
        /\ \A i \in 1..Len(Todo(x.req)) :
              last[i] = [template |-> Todo(x.req)[i].template, req |-> x.req]
    <2>1. x.req \in Requests
      OBVIOUS
    <2> QED
      BY <2>1, ExpandedBySeq
  <1>2. Expanded(Append(requests, x)) = Append(Expanded(requests), last)
    <2> DEFINE n == Len(requests)
               longer == Append(requests, x)
               seqs   == Expanded(requests)
    <2>1. /\ n \in Nat /\ DOMAIN requests = 1..n
          /\ longer \in Seq([wire : Wires, req : Requests]) /\ Len(longer) = n + 1
          /\ longer[n + 1] = x /\ \A i \in 1..n : longer[i] = requests[i]
      BY LenProperties, AppendProperties
    <2>2. DOMAIN longer = 1..(n + 1)
      BY <2>1, LenProperties
    <2>3. seqs \in Seq(Seq(S))
      BY ExpandedSeq
    <2>4. DOMAIN seqs = 1..n /\ Len(seqs) = n
      <3>1. DOMAIN seqs = 1..n
        BY <2>1 DEF Expanded
      <3>2. Len(seqs) \in Nat /\ DOMAIN seqs = 1..Len(seqs)
        BY <2>3, LenProperties
      <3> HIDE DEF seqs, n
      <3> QED
        BY <2>1, <3>1, <3>2
    <2>5. \A i \in 1..n : seqs[i] = ExpandedBy(requests[i].req)
      BY <2>1 DEF Expanded
    <2> HIDE DEF n, longer, seqs, last, S
    <2>6. /\ Append(seqs, last) \in Seq(Seq(S)) /\ Len(Append(seqs, last)) = n + 1
          /\ Append(seqs, last)[n + 1] = last
          /\ \A i \in 1..n : Append(seqs, last)[i] = seqs[i]
      BY <1>1, <2>3, <2>4, AppendProperties
    <2>7. DOMAIN Append(seqs, last) = 1..(n + 1)
      BY <2>6, LenProperties
    <2> DEFINE a == Append(seqs, last)
    <2> HIDE DEF a
    <2>8. a = [i \in 1..(n + 1) |-> ExpandedBy(longer[i].req)]
      <3>1. a = [i \in 1..(n + 1) |-> a[i]]
        <4>1. a \in [1..(n + 1) -> Seq(S)]
          BY <2>6, LenProperties DEF a
        <4> QED
          BY <4>1
      <3>2. \A i \in 1..(n + 1) : i = n + 1 \/ i \in 1..n
        BY <2>1
      <3>3. a[n + 1] = last /\ \A i \in 1..n : a[i] = seqs[i]
        BY <2>6 DEF a
      <3>4. \A i \in 1..(n + 1) : a[i] = ExpandedBy(longer[i].req)
        BY <2>1, <2>5, <3>2, <3>3 DEF last
      <3> QED
        BY <3>1, <3>4
    <2>9. Expanded(longer) = [i \in 1..(n + 1) |-> ExpandedBy(longer[i].req)]
      BY <2>2 DEF Expanded
    <2> QED
      BY <2>8, <2>9 DEF a, longer, seqs
  <1>3. Expanded(requests) \in Seq(Seq(S))
    BY ExpandedSeq
  <1>4. old \in Seq(S) /\ more = old \o last
    <2> HIDE DEF S, last
    <2>1. /\ FlattenSeq(Expanded(requests)) \in Seq(S)
          /\ FlattenSeq(Append(Expanded(requests), last)) = FlattenSeq(Expanded(requests)) \o last
      BY <1>1, <1>3, FlattenAppend
    <2> QED
      BY <1>2, <2>1 DEF Expansions, Expanded
  <1> HIDE DEF S, last, old, more
  <1>5. /\ Len(old) \in Nat /\ Len(more) = Len(old) + Len(last)
        /\ \A i \in 1..Len(old) : more[i] = old[i]
        /\ \A i \in 1..Len(last) : more[Len(old) + i] = last[i]
    <2>1. Len(old) \in Nat /\ Len(last) \in Nat
      BY <1>1, <1>4, LenProperties
    <2>2. /\ Len(old \o last) = Len(old) + Len(last)
          /\ \A i \in 1..(Len(old) + Len(last)) :
                (old \o last)[i] = IF i <= Len(old) THEN old[i] ELSE last[i - Len(old)]
      BY <1>1, <1>4, ConcatProperties, ZenonT(30)
    <2>3. \A i \in 1..Len(last) :
             Len(old) + i \in 1..(Len(old) + Len(last)) /\ ~(Len(old) + i <= Len(old))
             /\ (Len(old) + i) - Len(old) = i
      BY <2>1
    <2>4. \A i \in 1..Len(old) : i \in 1..(Len(old) + Len(last)) /\ i <= Len(old)
      BY <2>1
    <2> QED
      BY <1>4, <2>1, <2>2, <2>3, <2>4
  <1>6. EndsWith(more, x.req)
    <2>1. Len(more) - Len(Todo(x.req)) = Len(old)
      BY <1>1, <1>5
    <2> QED
      BY <1>1, <1>5, <2>1 DEF EndsWith
  <1> QED
    BY <1>1, <1>5, <1>6 DEF old, more

-----------------------------------------------------------------------------
(* One entry more *)

\* The wire's next entry is the one after e, at its place among all expansions.
ComesNext(w, req, all, e) ==
    /\ e \in Nat /\ (Len(all) - Len(Todo(req))) + e \in Nat
    /\ e + 1 \in 0..Len(Todo(req))
    /\ Now(w) = Todo(req)[e + 1] /\ wire[w].req = req
    /\ Tail(wire[w].todo) = SubSeq(Todo(req), (e + 1) + 1, Len(Todo(req)))
    /\ all[((Len(all) - Len(Todo(req))) + e) + 1]
           = [template |-> Now(w).template, req |-> req]

LEMMA NextEntry ==
    ASSUME cfg \in Configs, NEW w \in Wires, wire[w].todo # <<>>,
           NEW req, NEW all, EndsWith(all, req), NEW e \in 0..Len(Todo(req)),
           PutAsExpected(wire[w], req, all, e)
    PROVE  ComesNext(w, req, all, e)
  <1> DEFINE todo  == Todo(req)
             begun == Len(all) - Len(todo)
  <1>1. todo \in Seq(EntriesOf(cfg))
    BY TodoIsSeq
  <1>2. Len(todo) \in Nat
    BY <1>1, LenProperties
  <1>3. wire[w].req = req /\ wire[w].todo = SubSeq(todo, e + 1, Len(todo))
    BY DEF PutAsExpected
  <1>4. begun \in Nat /\ \A i \in 1..Len(todo) :
            all[begun + i] = [template |-> todo[i].template, req |-> req]
    BY DEF EndsWith
  <1> HIDE DEF todo, begun
  <1>5. /\ e + 1 \in 0..Len(todo) /\ e + 1 \in 1..Len(todo)
        /\ Now(w) = todo[e + 1]
        /\ Tail(wire[w].todo) = SubSeq(todo, (e + 1) + 1, Len(todo))
    <2>1. SubSeq(todo, e + 1, Len(todo)) # <<>> /\ e \in 0..Len(todo)
      BY <1>3 DEF todo
    <2> QED
      BY <1>1, <1>3, <2>1, RestOfSeq DEF Now
  <1>6. e \in Nat /\ begun + e \in Nat /\ (begun + e) + 1 = begun + (e + 1)
    BY <1>2, <1>4
  <1>7. all[(begun + e) + 1] = [template |-> Now(w).template, req |-> req]
    BY <1>4, <1>5, <1>6
  <1> QED
    BY <1>3, <1>5, <1>6, <1>7 DEF begun, todo, ComesNext

\* What is put for it is expected, and what was put before it stays, in another field.
LEMMA PutOneMore ==
    ASSUME cfg \in Configs, WiresServe, NEW w \in Wires, wire[w].todo # <<>>,
           NEW req, NEW all, EndsWith(all, req), NEW e \in 0..Len(Todo(req)),
           PutAsExpected(wire[w], req, all, e),
           NEW value, Put(w, value),
           Foretold(Now(w).template) =>
               value = Expected(all, ((Len(all) - Len(Todo(req))) + e) + 1)
    PROVE  PutAsExpected(wire'[w], req, all, e + 1)
  <1>0. /\ e \in Nat /\ (Len(all) - Len(Todo(req))) + e \in Nat
        /\ e + 1 \in 0..Len(Todo(req))
        /\ Now(w) = Todo(req)[e + 1] /\ wire[w].req = req
        /\ Tail(wire[w].todo) = SubSeq(Todo(req), (e + 1) + 1, Len(Todo(req)))
    <2>1. ComesNext(w, req, all, e)
      BY NextEntry
    <2> QED
      BY <2>1 DEF ComesNext
  <1> DEFINE todo  == Todo(req)
             begun == Len(all) - Len(todo)
             field == FieldOf(todo[e + 1].key)
             old   == wire[w].fields
             fields == SetField(old, field, value)
             next == [at |-> "expand", req |-> wire[w].req, emit |-> wire[w].emit,
                      todo |-> Tail(wire[w].todo),
                      fields |-> SetField(wire[w].fields, FieldOf(Now(w).key), value)]
  <1>1. /\ e \in Nat /\ begun + e \in Nat /\ begun \in Nat
        /\ e + 1 \in 0..Len(todo)
        /\ Now(w) = todo[e + 1] /\ wire[w].req = req
        /\ Tail(wire[w].todo) = SubSeq(todo, (e + 1) + 1, Len(todo))
    <2>1. begun \in Nat
      BY DEF EndsWith
    <2> QED
      BY <1>0, <2>1
  <1>2. wire'[w] = next
    <2>1. wire' = [wire EXCEPT ![w] = next]
      BY DEF Put
    <2> HIDE DEF next
    <2> QED
      BY <2>1, WireUpdate
  <1>3. /\ next.req = req /\ next.todo = SubSeq(todo, (e + 1) + 1, Len(todo))
        /\ next.fields = fields
    BY <1>1
  <1>4. /\ DOMAIN fields = DOMAIN old \union {field}
        /\ fields[field] = value
        /\ \A f \in DOMAIN old : f # field => fields[f] = old[f]
    BY DEF SetField
  <1>5. /\ \A i \in 1..e : FieldOf(todo[i].key) \in DOMAIN old
        /\ \A i \in 1..e :
              Foretold(todo[i].template) /\ LastFor(todo, i, e) =>
                  old[FieldOf(todo[i].key)] = Expected(all, begun + i)
    BY DEF PutAsExpected
  <1>6. Foretold(todo[e + 1].template) => value = Expected(all, begun + (e + 1))
    <2>1. (begun + e) + 1 = begun + (e + 1)
      BY <1>1
    <2>2. Foretold(Now(w).template) => value = Expected(all, (begun + e) + 1)
      OBVIOUS
    <2> HIDE DEF begun, todo
    <2> QED
      BY <1>1, <2>1, <2>2
  <1>7. 1..(e + 1) = (1..e) \union {e + 1}
    BY <1>1
  <1> HIDE DEF next, fields, todo, begun, field, old
  <1>8. \A i \in 1..(e + 1) : FieldOf(todo[i].key) \in DOMAIN fields
    BY <1>4, <1>5, <1>7 DEF field
  <1>9. ASSUME NEW i \in 1..(e + 1), Foretold(todo[i].template), LastFor(todo, i, e + 1)
        PROVE  fields[FieldOf(todo[i].key)] = Expected(all, begun + i)
    <2>1. CASE i = e + 1
      BY <1>4, <1>6, <1>9, <2>1 DEF field
    <2>2. CASE i # e + 1
      <3>1. i \in 1..e /\ e + 1 \in (i + 1)..(e + 1)
        <4>1. e \in Nat
          BY <1>1
        <4> QED
          BY <2>2, <4>1
      <3>2. FieldOf(todo[i].key) # field
        BY <1>9, <3>1 DEF LastFor, field
      <3>3. LastFor(todo, i, e)
        <4>1. \A j \in (i + 1)..e : j \in (i + 1)..(e + 1)
          BY <1>1
        <4> QED
          BY <1>9, <4>1 DEF LastFor
      <3> QED
        BY <1>4, <1>5, <1>9, <3>1, <3>2, <3>3
    <2> QED
      BY <2>1, <2>2
  <1>10. PutAsExpected(next, req, all, e + 1)
    BY <1>3, <1>8, <1>9 DEF PutAsExpected, todo, begun
  <1> QED
    BY <1>2, <1>10

\* A literal moves nothing.
LEMMA LiteralExpected ==
    ASSUME NEW w \in Wires, PutLiteral(w), NEW req, NEW all, NEW k \in Nat,
           Moved(all, k, drawn, issued),
           all[k + 1] = [template |-> Now(w).template, req |-> req]
    PROVE  /\ Moved(all, k + 1, drawn', issued')
           /\ \E value : Put(w, value) /\ value = Expected(all, k + 1)
  <1> DEFINE t == Now(w).template
  <1>1. Literal(t) /\ Put(w, <<"", t.value>>) /\ UNCHANGED <<drawn, issued>>
    BY DEF PutLiteral, macros
  <1>2. all[k + 1].template = t /\ all[k + 1].req = req
    OBVIOUS
  <1> HIDE DEF t
  <1>3. DrawsOf(t) = 0 /\ ~Counts(t, req)
    BY <1>1 DEF DrawsOf, Counts, Counting, Literal
  <1>4. Cardinality(Draws(all, k + 1)) = Cardinality(Draws(all, k))
    BY <1>2, <1>3, DrawsByOne, DrawsFinite
  <1>5. \A name : Cardinality(Moves(all, k + 1, name)) = Cardinality(Moves(all, k, name))
    <2>1. ~Counts(all[k + 1].template, all[k + 1].req)
      BY <1>2, <1>3
    <2> QED
      BY <2>1, NoneMoves
  <1>6. Expected(all, k + 1) = <<"", t.value>>
    BY <1>1, <1>2 DEF Expected
  <1> QED
    BY <1>1, <1>4, <1>5, <1>6 DEF Moved

\* A macro gives the number that comes next, or the draws that do, and moves to it.
LEMMA MacroExpected ==
    ASSUME Inv, NEW w \in Wires, ExpandMacro(w), NEW all, NEW k \in Nat,
           Moved(all, k, drawn, issued),
           all[k + 1] = [template |-> Now(w).template, req |-> wire[w].req]
    PROVE  /\ Moved(all, k + 1, drawn', issued')
           /\ \E value : /\ Put(w, value)
                         /\ Foretold(Now(w).template) => value = Expected(all, k + 1)
  <1> DEFINE t   == Now(w).template
             req == wire[w].req
             c   == CounterOf(t)
             n   == NumberOf(t, counters[c])
  <1>1. t \in TemplatesOf(cfg) /\ wire[w].seen = counters /\ ~Literal(t)
    BY MacroFacts DEF ExpandMacro, OneInMacro, Inv
  <1>2. all[k + 1].template = t /\ all[k + 1].req = req /\ (k + 1) - 1 = k
    OBVIOUS
  <1>3. /\ drawn = Cardinality(Draws(all, k))
        /\ \A name \in Counters : Len(issued[name]) = Cardinality(Moves(all, k, name))
    BY DEF Moved
  <1>4. Cardinality(Draws(all, k + 1)) = drawn + DrawsOf(t)
    BY <1>2, <1>3, DrawsByOne
  <1>5. \A name \in Counters :
           Cardinality(Moves(all, k + 1, name))
             = Len(issued[name]) + IF Counts(t, req) /\ c = name THEN 1 ELSE 0
    <2> SUFFICES ASSUME NEW name \in Counters
                 PROVE  Cardinality(Moves(all, k + 1, name))
                          = Len(issued[name]) + IF Counts(t, req) /\ c = name THEN 1 ELSE 0
      OBVIOUS
    <2>1. Cardinality(Moves(all, k + 1, name)) = Cardinality(Moves(all, k, name))
            + Step(all[k + 1].template, all[k + 1].req, name)
      BY MovesByOne
    <2>2. Step(all[k + 1].template, all[k + 1].req, name) = Step(t, req, name)
      BY <1>2
    <2> HIDE DEF t, req, c
    <2>3. Step(t, req, name) = IF Counts(t, req) /\ CounterOf(t) = name THEN 1 ELSE 0
      BY DEF Step
    <2> QED
      BY <1>3, <2>1, <2>2, <2>3 DEF c
  <1>6. issued \in [Counters -> Seq(Int)] /\ drawn \in Nat
    BY DEF Inv, CountersFollow, TypeOK
  <1>7. \A name \in Counters : Len(issued[name]) \in Nat
    BY <1>6, LenProperties
  <1>8. CASE Kept(t, req)
    <2>1. PICK stan \in STANsOf(req) : Put(w, <<"STAN", stan>>) /\ UNCHANGED macros
      BY <1>8 DEF ExpandMacro, Counts
    <2>2. DrawsOf(t) = 0 /\ ~Counts(t, req)
      BY <1>8 DEF DrawsOf, Counts, Kept
    <2>3. stan = CHOOSE s \in STANsOf(req) : TRUE
      <3>1. \A r, s \in STANsOf(req) : r = s
        BY DEF STANsOf
      <3> QED
        BY <3>1
    <2>4. Expected(all, k + 1) = <<"STAN", stan>>
      BY <1>1, <1>2, <1>8, <2>3 DEF Expected
    <2>5. Moved(all, k + 1, drawn', issued')
      BY <1>4, <1>5, <1>6, <1>7, <2>1, <2>2 DEF Moved, macros
    <2> QED
      BY <2>1, <2>4, <2>5
  <1>9. CASE Counts(t, req)
    <2>1. t.macro \in Counting /\ ~Kept(t, req)
      BY <1>9 DEF Counts
    <2>2. /\ issued' = [issued EXCEPT ![c] = Append(@, Digits(t, n))]
          /\ \E instant \in Instants : Put(w, <<t.macro, Printed(t, n, instant)>>)
          /\ drawn' = drawn
      BY <1>1, <1>9, <2>1 DEF ExpandMacro
    <2>3. c \in Counters /\ Digits(t, n) \in Int
      BY <1>1, <2>1, NumberFacts DEF Inv
    <2>4. DrawsOf(t) = 0
      BY <2>1 DEF DrawsOf, Counting
    <2>5. \A name \in Counters :
             Len(issued'[name]) = Len(issued[name]) + IF c = name THEN 1 ELSE 0
      <3> DEFINE p == Digits(t, n)
      <3>1. issued' = [issued EXCEPT ![c] = Append(issued[c], p)] /\ p \in Int
        BY <2>2, <2>3
      <3>2. Len(Append(issued[c], p)) = Len(issued[c]) + 1
        <4>1. issued[c] \in Seq(Int)
          BY <1>6, <2>3
        <4> HIDE DEF p
        <4> QED
          BY <3>1, <4>1, AppendProperties
      <3> DEFINE longer == Append(issued[c], p)
      <3> HIDE DEF c, longer
      <3>3. issued'[c] = longer /\ \A name \in Counters : name # c => issued'[name] = issued[name]
        BY <1>6, <2>3, <3>1 DEF longer
      <3>4. Len(longer) = Len(issued[c]) + 1
        BY <3>2 DEF longer
      <3> SUFFICES ASSUME NEW name \in Counters
                   PROVE  Len(issued'[name]) = Len(issued[name]) + IF c = name THEN 1 ELSE 0
        OBVIOUS
      <3>5. CASE c = name
        BY <3>3, <3>4, <3>5
      <3>6. CASE c # name
        BY <1>7, <3>3, <3>6
      <3> QED
        BY <3>5, <3>6
    <2>6. Moved(all, k + 1, drawn', issued')
      <3>1. drawn' = Cardinality(Draws(all, k + 1))
        BY <1>4, <1>6, <2>2, <2>4
      <3>2. \A name \in Counters : Len(issued'[name]) = Cardinality(Moves(all, k + 1, name))
        BY <1>5, <1>9, <2>5
      <3> QED
        BY <3>1, <3>2 DEF Moved
    <2>7. PICK instant \in Instants : Put(w, <<t.macro, Printed(t, n, instant)>>)
      BY <2>2
    <2>8. ASSUME Foretold(t)
          PROVE  <<t.macro, Printed(t, n, instant)>> = Expected(all, k + 1)
      <3>1. CounterFollows(t)
        BY <1>1, <2>1, <2>8 DEF Inv, CountersFollow, Foretold
      <3>2. n = Numbered(t, Len(issued[c]) + 1)
        <4>1. Len(issued[c]) \in Nat
          BY <1>7, <2>3
        <4>2. NumberOf(t, CountAfter(t, Len(issued[c]))) = Numbered(t, Len(issued[c]) + 1)
          BY <1>1, <4>1, NextNumber DEF Inv
        <4> QED
          BY <3>1, <4>2 DEF CounterFollows
      <3>3. n = Numbered(t, Cardinality(Moves(all, k, c)) + 1)
        BY <1>3, <2>3, <3>2
      <3>4. Expected(all, k + 1)
              = <<t.macro, Printed(t, Numbered(t, Cardinality(Moves(all, k, c)) + 1), SeedInstant)>>
        BY <1>1, <1>2, <1>9, <2>1 DEF Expected
      <3>5. Printed(t, n, instant) = Printed(t, n, SeedInstant)
        BY <2>7, <2>8 DEF Foretold, Replays, Instants, Printed
      <3> QED
        BY <3>3, <3>4, <3>5
    <2> QED
      BY <2>6, <2>7, <2>8
  <1>10. CASE ~Kept(t, req) /\ ~Counts(t, req)
    <2>1. /\ drawn' = drawn + DrawsOf(t) /\ issued' = issued
          /\ \E value \in Rendered(t) : Put(w, <<t.macro, value>>)
      BY <1>10 DEF ExpandMacro
    <2>2. PICK value \in Rendered(t) : Put(w, <<t.macro, value>>)
      BY <2>1
    <2>3. ASSUME Foretold(t) PROVE <<t.macro, value>> = Expected(all, k + 1)
      <3>1. value = IF t.macro = "NOW" THEN SeedInstant ELSE drawn
        BY <2>2, <2>3 DEF Foretold, Replays, Instants, Rendered
      <3>2. Expected(all, k + 1)
              = <<t.macro, IF t.macro = "NOW" THEN SeedInstant ELSE drawn>>
        BY <1>1, <1>2, <1>3, <1>10 DEF Expected
      <3> QED
        BY <3>1, <3>2
    <2>4. Moved(all, k + 1, drawn', issued')
      BY <1>4, <1>5, <1>7, <1>10, <2>1 DEF Moved
    <2> QED
      BY <2>2, <2>3, <2>4
  <1> QED
    BY <1>8, <1>9, <1>10

-----------------------------------------------------------------------------
(* The steps *)

LEMMA LastTaken ==
    ASSUME NEW requests \in Seq([wire : Wires, req : Requests]), requests # <<>>
    PROVE  Last(requests).wire \in Wires
  <1>1. Len(requests) \in 1..Len(requests)
    BY LenProperties, EmptySeq
  <1>2. Last(requests) \in [wire : Wires, req : Requests]
    BY <1>1, ElementOfSeq DEF Last
  <1> QED
    BY <1>2

LEMMA LastOfAppend ==
    ASSUME NEW requests \in Seq([wire : Wires, req : Requests]),
           NEW x \in [wire : Wires, req : Requests]
    PROVE  /\ Append(requests, x) \in Seq([wire : Wires, req : Requests])
           /\ Append(requests, x) # <<>> /\ Last(Append(requests, x)) = x
  <1> DEFINE longer == Append(requests, x)
  <1>1. /\ longer \in Seq([wire : Wires, req : Requests]) /\ longer # <<>>
        /\ Len(longer) = Len(requests) + 1 /\ longer[Len(requests) + 1] = x
    BY AppendProperties
  <1> HIDE DEF longer
  <1>2. Last(longer) = x
    BY <1>1 DEF Last
  <1> QED
    BY <1>1, <1>2 DEF longer

\* What is expanded and what is expected depend on the configuration alone.
LEMMA ReplaysNext ==
    ASSUME cfg' = cfg, taken' \in Seq([wire : Wires, req : Requests]),
           cfg.seed # 0 /\ serial' => OneDraws' /\ PutSoFar(taken', wire', drawn', issued')
    PROVE  ReplaysSoFar'
  <1>1. \A req : First(req)' = First(req)
    BY DEF First, Matching
  <1>2. \A req : Todo(req)' = Todo(req)
    BY <1>1 DEF Todo
  <1>3. \A req : ExpandedBy(req)' = ExpandedBy(req)
    BY <1>2 DEF ExpandedBy
  <1>4. \A requests : Expansions(requests)' = Expansions(requests)
    BY <1>3 DEF Expansions
  <1>5. \A x, req, all, e : PutAsExpected(x, req, all, e)' <=> PutAsExpected(x, req, all, e)
    <2>1. TemplatesOf(cfg)' = TemplatesOf(cfg)
      BY AloneKept
    <2>2. \A entries, i, e : LastFor(entries, i, e)' <=> LastFor(entries, i, e)
      BY DEF LastFor
    <2>3. \A all, k : Expected(all, k)' = Expected(all, k)
      BY DEF Expected, SeedInstant, Moves, Draws
    <2> QED
      <3> SUFFICES ASSUME NEW x, NEW req, NEW all, NEW e
                   PROVE  PutAsExpected(x, req, all, e)' <=> PutAsExpected(x, req, all, e)
        OBVIOUS
      <3> DEFINE todo == Todo(req)
      <3>1. todo' = todo
        BY <1>2
      <3>2. \A i : Foretold(todo[i].template)' <=> Foretold(todo[i].template)
        BY <2>1, <3>1 DEF Foretold, Alone, Replays
      <3>3. \A i : LastFor(todo, i, e)' <=> LastFor(todo, i, e)
        BY <3>1 DEF LastFor
      <3>4. \A i : Expected(all, (Len(all) - Len(todo)) + i)'
                      = Expected(all, (Len(all) - Len(todo)) + i)
        BY <2>3, <3>1
      <3> HIDE DEF todo
      <3> QED
        BY <3>1, <3>2, <3>3, <3>4 DEF PutAsExpected, todo
  <1>6. \A req, all : EndsWith(all, req)' <=> EndsWith(all, req)
    BY <1>2 DEF EndsWith
  <1>7. \A all, requests, wires, d, numbers :
           SomePut(all, requests, wires, d, numbers)' <=> SomePut(all, requests, wires, d, numbers)
    <2> SUFFICES ASSUME NEW all, NEW requests, NEW wires, NEW d, NEW numbers
                 PROVE  SomePut(all, requests, wires, d, numbers)'
                            <=> SomePut(all, requests, wires, d, numbers)
      OBVIOUS
    <2> DEFINE req  == Last(requests).req
               x    == wires[Last(requests).wire]
               todo == Todo(req)
               moved(e) == Moved(all, (Len(all) - Len(todo)) + e, d, numbers)
               put(e)   == PutAsExpected(x, req, all, e)
    <2>1. todo' = todo
      BY <1>2
    <2>2. EndsWith(all, req)' <=> EndsWith(all, req)
      BY <1>6
    <2>3. \A e : put(e)' <=> put(e)
      BY <1>5
    <2>4. \A e : moved(e)' <=> moved(e)
      BY <2>1 DEF Moved, Draws, Moves
    <2>5. SomePut(all, requests, wires, d, numbers) <=>
            /\ requests # <<>> /\ x # Idle /\ EndsWith(all, req)
            /\ \E e \in 0..Len(todo) : moved(e) /\ put(e)
      BY DEF SomePut
    <2>6. SomePut(all, requests, wires, d, numbers)' <=>
            /\ requests # <<>> /\ x # Idle /\ EndsWith(all, req)'
            /\ \E e \in 0..Len(todo') : moved(e)' /\ put(e)'
      BY DEF SomePut
    <2> HIDE DEF todo, moved, put
    <2> QED
      BY <2>1, <2>2, <2>3, <2>4, <2>5, <2>6
  <1>8. \A requests, wires, d, numbers :
           PutSoFar(requests, wires, d, numbers)' <=> PutSoFar(requests, wires, d, numbers)
    BY <1>4, <1>7 DEF PutSoFar, AllPut
  <1> QED
    BY <1>8 DEF ReplaysSoFar

\* Steps that move nothing and leave what the wires put.
LEMMA ReplaysStay ==
    ASSUME ReplaysSoFar, UNCHANGED <<cfg, taken, serial, drawn, issued>>,
           \A w \in Wires : Drawing(w)' => Drawing(w),
           \A w \in Wires : taken # <<>> /\ Last(taken).wire = w =>
               \/ wire[w] = Idle /\ wire'[w] = Idle
               \/ /\ wire[w] # Idle /\ wire'[w] # Idle
                  /\ wire'[w].req = wire[w].req /\ wire'[w].todo = wire[w].todo
                  /\ wire'[w].fields = wire[w].fields
    PROVE  ReplaysSoFar'
  <1>1. taken \in Seq([wire : Wires, req : Requests])
    BY DEF ReplaysSoFar
  <1>2. ASSUME cfg.seed # 0, serial
        PROVE  OneDraws' /\ PutSoFar(taken, wire', drawn, issued)
    <2>1. OneDraws /\ PutSoFar(taken, wire, drawn, issued)
      BY <1>2 DEF ReplaysSoFar
    <2>2. OneDraws'
      BY <2>1 DEF OneDraws
    <2> DEFINE w == Last(taken).wire
    <2>3. taken # <<>> => w \in Wires
      BY <1>1, LastTaken
    <2>4. ASSUME NEW all, AllPut(all, taken, wire, drawn, issued)
          PROVE  AllPut(all, taken, wire', drawn, issued)
      BY <2>3, <2>4 DEF AllPut
    <2>5. ASSUME NEW all, SomePut(all, taken, wire, drawn, issued)
          PROVE  SomePut(all, taken, wire', drawn, issued)
      <3>1. /\ wire[w] # Idle /\ wire'[w] # Idle
            /\ wire'[w].req = wire[w].req /\ wire'[w].todo = wire[w].todo
            /\ wire'[w].fields = wire[w].fields
        BY <2>3, <2>5 DEF SomePut
      <3> QED
        BY <2>5, <3>1 DEF SomePut, PutAsExpected
    <2> QED
      BY <2>1, <2>2, <2>4, <2>5 DEF PutSoFar
  <1> QED
    BY <1>1, <1>2, ReplaysNext

\* A reset forgets what came before it.
LEMMA ReplaysReset ==
    ASSUME ReplaysSoFar, NEW k \in StartIds, ResetCounters(k)
    PROVE  ReplaysSoFar'
  <1>1. /\ cfg' = cfg /\ wire' = wire /\ taken' = <<>>
        /\ serial' = (\A w \in Wires : ~Drawing(w))
        /\ cfg.seed # 0 => drawn' = 0
        /\ issued' = [name \in Counters |-> <<>>]
    BY DEF ResetCounters, StartOver, gear
  <1>2. taken' \in Seq([wire : Wires, req : Requests])
    BY <1>1, EmptySeq
  <1>3. ASSUME cfg.seed # 0, serial' PROVE OneDraws'
    BY <1>1, <1>3 DEF OneDraws, Drawing
  <1>4. ASSUME cfg.seed # 0 PROVE PutSoFar(taken', wire', drawn', issued')
    <2>1. \A name \in Counters : Len(issued'[name]) = 0
      BY <1>1
    <2>2. Moved(Expansions(<<>>), 0, drawn', issued')
      BY <1>1, <1>4, <2>1, NoneMoved DEF Moved
    <2>3. AllPut(Expansions(<<>>), <<>>, wire', drawn', issued')
      BY <2>2, NoneExpanded DEF AllPut
    <2> QED
      BY <1>1, <2>3 DEF PutSoFar
  <1> QED
    BY <1>1, <1>2, <1>3, <1>4, ReplaysNext

\* With nothing left to expand, all the requests have put what they expand.
LEMMA AllMoved ==
    ASSUME cfg \in Configs, NEW all, NEW requests, NEW wires, NEW d, NEW numbers,
           Len(all) \in Nat,
           SomePut(all, requests, wires, d, numbers), wires[Last(requests).wire].todo = <<>>
    PROVE  Moved(all, Len(all), d, numbers)
  <1> DEFINE req  == Last(requests).req
             todo == Todo(req)
  <1>1. PICK e \in 0..Len(todo) :
          /\ Moved(all, (Len(all) - Len(todo)) + e, d, numbers)
          /\ PutAsExpected(wires[Last(requests).wire], req, all, e)
    BY DEF SomePut
  <1>2. SubSeq(todo, e + 1, Len(todo)) = <<>>
    BY <1>1 DEF PutAsExpected
  <1>3. todo \in Seq(EntriesOf(cfg))
    BY TodoIsSeq
  <1> HIDE DEF todo
  <1>4. e = Len(todo) /\ Len(todo) \in Nat
    BY <1>2, <1>3, NothingLeft
  <1>5. (Len(all) - Len(todo)) + e = Len(all)
    BY <1>4
  <1> QED
    BY <1>1, <1>5

\* A request that comes when nothing is half expanded expands after the others.
LEMMA ReplaysTake ==
    ASSUME Inv, ReplaysSoFar, NEW w \in Wires, ProcessPort(w)
    PROVE  ReplaysSoFar'
  <1>1. cfg' = cfg /\ UNCHANGED macros /\ cfg \in Configs
    BY DEF ProcessPort, gear, Inv
  <1>2. CASE UNCHANGED <<wire, taken, serial>>
    <2>1. taken \in Seq([wire : Wires, req : Requests])
      BY DEF ReplaysSoFar
    <2> QED
      BY <1>1, <1>2, <2>1, ReplaysNext DEF ReplaysSoFar, OneDraws, Drawing, macros
  <1>3. CASE ~UNCHANGED <<wire, taken, serial>>
    <2>1. PICK req \in Requests :
            /\ wire' = [wire EXCEPT ![w] = [at |-> "expand", req |-> req, emit |-> emit,
                                            todo |-> Todo(req), fields |-> Echo(req)]]
            /\ taken' = Append(taken, [wire |-> w, req |-> req])
            /\ serial' = (serial /\ \A v \in Wires : ~Drawing(v))
      BY <1>3 DEF ProcessPort
    <2> DEFINE next == [at |-> "expand", req |-> req, emit |-> emit,
                        todo |-> Todo(req), fields |-> Echo(req)]
               x    == [wire |-> w, req |-> req]
               old  == Expansions(taken)
               more == Expansions(taken')
               todo == Todo(req)
    <2>2. wire'[w] = next /\ \A v \in Wires \ {w} : wire'[v] = wire[v]
      <3> HIDE DEF next
      <3>1. wire' = [wire EXCEPT ![w] = next]
        BY <2>1 DEF next
      <3> QED
        BY <3>1, WireUpdate DEF Inv
    <2>3. taken \in Seq([wire : Wires, req : Requests]) /\ x \in [wire : Wires, req : Requests]
      BY DEF ReplaysSoFar
    <2>4. x.req = req /\ x.wire = w /\ taken' = Append(taken, x)
      BY <2>1
    <2>5. next.req = req /\ next.todo = todo /\ next # Idle
      BY DEF Idle
    <2> HIDE DEF next, x
    <2>6. /\ taken' \in Seq([wire : Wires, req : Requests])
          /\ taken' # <<>> /\ Last(taken') = x
      BY <2>3, <2>4, LastOfAppend
    <2>7. /\ Len(old) \in Nat /\ Len(todo) \in Nat /\ Len(more) = Len(old) + Len(todo)
          /\ \A i \in 1..Len(old) : more[i] = old[i]
          /\ EndsWith(more, req)
      BY <1>1, <2>3, <2>4, MoreExpanded
    <2> HIDE DEF old, more
    <2>8. ASSUME cfg.seed # 0, serial'
          PROVE  OneDraws' /\ PutSoFar(taken', wire', drawn', issued')
      <3>1. serial /\ \A v \in Wires : ~Drawing(v)
        BY <2>1, <2>8
      <3>2. \A v \in Wires \ {w} : ~Drawing(v)'
        BY <2>2, <3>1 DEF Drawing
      <3>3. OneDraws'
        BY <2>4, <2>6, <3>2 DEF OneDraws
      <3>4. PutSoFar(taken, wire, drawn, issued)
        BY <2>8, <3>1 DEF ReplaysSoFar
      <3>5. Moved(old, Len(old), drawn, issued)
        <4>1. CASE AllPut(old, taken, wire, drawn, issued)
          BY <4>1 DEF AllPut
        <4>2. CASE SomePut(old, taken, wire, drawn, issued)
          <5> DEFINE l == Last(taken).wire
          <5>1. taken # <<>> /\ wire[l] # Idle
            BY <4>2 DEF SomePut
          <5>2. l \in Wires
            BY <2>3, <5>1, LastTaken
          <5>3. wire[l].todo = <<>>
            BY <3>1, <5>1, <5>2 DEF Drawing, Inv, WiresServe
          <5> QED
            BY <1>1, <2>7, <4>2, <5>3, AllMoved
        <4> QED
          BY <3>4, <4>1, <4>2 DEF PutSoFar, old
      <3>6. Moved(more, Len(old), drawn', issued')
        <4>1. Draws(more, Len(old)) = Draws(old, Len(old))
              /\ \A name : Moves(more, Len(old), name) = Moves(old, Len(old), name)
          BY <2>7, MovedTheSame, ZenonT(30)
        <4> QED
          BY <1>1, <3>5, <4>1 DEF Moved, macros
      <3>7. PutAsExpected(next, req, more, 0)
        <4>1. todo = SubSeq(todo, 0 + 1, Len(todo))
          <5>1. todo \in Seq(EntriesOf(cfg))
            BY <1>1, TodoIsSeq
          <5> HIDE DEF todo
          <5> QED
            BY <5>1
        <4>2. 1..0 = {}
          OBVIOUS
        <4> QED
          BY <2>5, <4>1, <4>2 DEF PutAsExpected
      <3>8. (Len(more) - Len(todo)) + 0 = Len(old) /\ 0 \in 0..Len(todo)
        BY <2>7
      <3>9. SomePut(more, taken', wire', drawn', issued')
        BY <2>2, <2>4, <2>5, <2>6, <2>7, <3>6, <3>7, <3>8 DEF SomePut
      <3> QED
        BY <3>3, <3>9 DEF PutSoFar, more
    <2> QED
      BY <1>1, <2>6, <2>8, ReplaysNext
  <1> QED
    BY <1>2, <1>3

\* The wire of the last request puts an entry.
LEMMA ReplaysPut ==
    ASSUME Inv, ReplaysSoFar, NEW w \in Wires, PutLiteral(w) \/ ExpandMacro(w)
    PROVE  ReplaysSoFar'
  <1>1. cfg' = cfg /\ UNCHANGED <<taken, serial>> /\ cfg \in Configs /\ WiresServe
    BY DEF PutLiteral, ExpandMacro, gear, Inv
  <1>2. wire[w].at # "idle" /\ wire[w].todo # <<>>
    BY DEF PutLiteral, ExpandMacro, OneInMacro, Inv
  <1>3. \A v \in Wires \ {w} : wire'[v] = wire[v]
    BY WireStepUpdates DEF WireStep, Inv
  <1>4. taken \in Seq([wire : Wires, req : Requests])
    BY DEF ReplaysSoFar
  <1>5. ASSUME cfg.seed # 0, serial
        PROVE  OneDraws' /\ PutSoFar(taken, wire', drawn', issued')
    <2> DEFINE all  == Expansions(taken)
               req  == Last(taken).req
               todo == Todo(req)
    <2>1. OneDraws /\ PutSoFar(taken, wire, drawn, issued)
      BY <1>5 DEF ReplaysSoFar
    <2>2. taken # <<>> /\ Last(taken).wire = w
      BY <1>2, <2>1 DEF OneDraws, Drawing
    <2>3. OneDraws'
      BY <1>1, <1>3, <2>1, <2>2 DEF OneDraws, Drawing
    <2>4. wire[w] # Idle
      BY <1>2 DEF Idle
    <2>5. SomePut(all, taken, wire, drawn, issued)
      BY <2>1, <2>2, <2>4 DEF PutSoFar, AllPut
    <2> HIDE DEF all
    <2>6. PICK e \in 0..Len(todo) :
            /\ Moved(all, (Len(all) - Len(todo)) + e, drawn, issued)
            /\ PutAsExpected(wire[w], req, all, e)
      BY <2>2, <2>5 DEF SomePut
    <2>7. EndsWith(all, req)
      BY <2>5 DEF SomePut
    <2> DEFINE k == (Len(all) - Len(todo)) + e
    <2> HIDE DEF req
    <2>8. ComesNext(w, req, all, e)
      BY <1>1, <1>2, <2>6, <2>7, NextEntry
    <2>9. /\ k \in Nat /\ wire[w].req = req /\ e + 1 \in 0..Len(todo)
          /\ all[k + 1] = [template |-> Now(w).template, req |-> req]
      BY <2>8 DEF ComesNext
    <2>10. Moved(all, k, drawn, issued)
      BY <2>6
    <2>11. /\ Moved(all, k + 1, drawn', issued')
           /\ \E value : Put(w, value) /\ (Foretold(Now(w).template) => value = Expected(all, k + 1))
      <3> HIDE DEF k
      <3>1. CASE PutLiteral(w)
        BY <2>9, <2>10, <3>1, LiteralExpected
      <3>2. CASE ExpandMacro(w)
        BY <2>9, <2>10, <3>2, MacroExpected
      <3> QED
        BY <3>1, <3>2
    <2>12. PutAsExpected(wire'[w], req, all, e + 1)
      <3>1. PICK value :
              Put(w, value) /\ (Foretold(Now(w).template) => value = Expected(all, k + 1))
        BY <2>11
      <3> QED
        BY <1>1, <1>2, <2>6, <2>7, <3>1, PutOneMore
    <2>13. wire'[w] # Idle
      <3>1. PICK value : Put(w, value)
        BY <2>11
      <3>2. wire'[w].at = "expand"
        BY <1>1, <3>1, WireUpdate DEF Put
      <3> QED
        BY <3>2 DEF Idle
    <2>14. k + 1 = (Len(all) - Len(todo)) + (e + 1)
      <3>1. Len(all) - Len(todo) \in Nat /\ e \in Nat
        BY <2>7, <2>8 DEF EndsWith, ComesNext
      <3> QED
        BY <3>1
    <2>15. SomePut(all, taken, wire', drawn', issued')
      BY <2>2, <2>7, <2>9, <2>11, <2>12, <2>13, <2>14 DEF SomePut, req
    <2> QED
      BY <2>3, <2>15 DEF PutSoFar, all
  <1> QED
    BY <1>1, <1>4, <1>5, ReplaysNext

\* A request that ends has put all.
LEMMA ReplaysEnd ==
    ASSUME Inv, ReplaysSoFar, NEW w \in Wires, Respond(w) \/ GiveUp(w)
    PROVE  ReplaysSoFar'
  <1>1. /\ cfg' = cfg /\ UNCHANGED <<taken, serial, drawn, issued>> /\ cfg \in Configs
        /\ wire[w].todo = <<>>
    BY DEF Respond, GiveUp, gear, macros, Inv
  <1>2. wire'[w] = Idle /\ \A v \in Wires \ {w} : wire'[v] = wire[v]
    BY WireUpdate DEF Respond, GiveUp, Inv
  <1>3. taken \in Seq([wire : Wires, req : Requests])
    BY DEF ReplaysSoFar
  <1>4. \A v \in Wires : Drawing(v)' => Drawing(v)
    BY <1>2 DEF Drawing, Idle
  <1>5. CASE taken # <<>> /\ Last(taken).wire = w
    <2>1. ASSUME cfg.seed # 0, serial
          PROVE  OneDraws' /\ PutSoFar(taken, wire', drawn, issued)
      <3>1. OneDraws /\ PutSoFar(taken, wire, drawn, issued)
        BY <2>1 DEF ReplaysSoFar
      <3>2. OneDraws'
        BY <1>1, <1>4, <3>1 DEF OneDraws
      <3> DEFINE all == Expansions(taken)
      <3>3. Len(all) \in Nat
        BY <1>1, <1>3, ExpansionsSeq, LenProperties
      <3> HIDE DEF all
      <3>4. Moved(all, Len(all), drawn, issued)
        <4>1. CASE AllPut(all, taken, wire, drawn, issued)
          BY <4>1 DEF AllPut
        <4>2. CASE SomePut(all, taken, wire, drawn, issued)
          BY <1>1, <1>5, <3>3, <4>2, AllMoved
        <4> QED
          BY <3>1, <4>1, <4>2 DEF PutSoFar, all
      <3>5. AllPut(all, taken, wire', drawn, issued)
        BY <1>2, <1>5, <3>4 DEF AllPut
      <3> QED
        BY <3>2, <3>5 DEF PutSoFar, all
    <2> QED
      BY <1>1, <1>3, <2>1, ReplaysNext
  <1>6. CASE ~(taken # <<>> /\ Last(taken).wire = w)
    <2>1. \A v \in Wires : taken # <<>> /\ Last(taken).wire = v => wire'[v] = wire[v]
      BY <1>2, <1>6
    <2> QED
      BY <1>1, <1>4, <2>1, ReplaysStay
  <1> QED
    BY <1>5, <1>6

\* The mutex is taken for a macro.
LEMMA ReplaysEnter ==
    ASSUME Inv, ReplaysSoFar, NEW w \in Wires, EnterMacro(w)
    PROVE  ReplaysSoFar'
  <1> DEFINE next == [at |-> "locked", req |-> wire[w].req, emit |-> wire[w].emit,
                      todo |-> wire[w].todo, fields |-> wire[w].fields, seen |-> counters]
  <1>1. UNCHANGED <<cfg, taken, serial, drawn, issued>> /\ wire[w].at # "idle"
    BY DEF EnterMacro, gear, macros
  <1>2. /\ next.at = "locked" /\ next.req = wire[w].req /\ next.todo = wire[w].todo
        /\ next.fields = wire[w].fields
    OBVIOUS
  <1>3. wire' = [wire EXCEPT ![w] = next]
    BY DEF EnterMacro
  <1> HIDE DEF next
  <1>4. wire'[w] = next /\ \A v \in Wires \ {w} : wire'[v] = wire[v]
    BY <1>3, WireUpdate DEF Inv
  <1>5. wire'[w] # Idle /\ wire[w] # Idle
    BY <1>1, <1>2, <1>4 DEF Idle
  <1>6. \A v \in Wires : Drawing(v)' => Drawing(v)
    BY <1>1, <1>2, <1>4 DEF Drawing
  <1>7. \A v \in Wires :
          \/ wire[v] = Idle /\ wire'[v] = Idle
          \/ /\ wire[v] # Idle /\ wire'[v] # Idle
             /\ wire'[v].req = wire[v].req /\ wire'[v].todo = wire[v].todo
             /\ wire'[v].fields = wire[v].fields
    BY <1>2, <1>4, <1>5
  <1> QED
    BY <1>1, <1>6, <1>7, ReplaysStay

LEMMA ControlTakes ==
    ASSUME NEW k \in StartIds, ControlStep(k), ~ResetCounters(k)
    PROVE  UNCHANGED <<taken, serial>>
  <1>1. Turn(k) \/ Receive(k) \/ ControlLoopEnds(k) => UNCHANGED <<taken, serial>>
    BY DEF Turn, Receive, ControlLoopEnds, serving
  <1>2. HandleSwitch(k) \/ HandleReset(k) => UNCHANGED <<taken, serial>>
    BY DEF HandleSwitch, HandleReset, serving
  <1> QED
    BY <1>1, <1>2 DEF ControlStep

LEMMA ReplaysKept ==
    ASSUME Inv, ReplaysSoFar, Next
    PROVE  ReplaysSoFar'
  <1>1. ASSUME UNCHANGED <<cfg, wire, taken, serial, drawn, issued>> PROVE ReplaysSoFar'
    <2>1. \A w \in Wires : Drawing(w)' => Drawing(w)
      BY <1>1 DEF Drawing
    <2> QED
      BY <1>1, <2>1, ReplaysStay
  <1>2. CASE RuntimeStep
    BY <1>1, <1>2, RuntimeFrame DEF macros, serving
  <1>3. ASSUME NEW k \in StartIds, ControlStep(k) PROVE ReplaysSoFar'
    <2>1. CASE ResetCounters(k)
      BY <2>1, ReplaysReset
    <2>2. CASE ~ResetCounters(k)
      BY <1>1, <1>3, <2>2, ControlFrame, ControlCounters, ControlTakes DEF macros
    <2> QED
      BY <2>1, <2>2
  <1>4. ASSUME NEW w \in Wires, WireStep(w) PROVE ReplaysSoFar'
    BY <1>4, ReplaysTake, ReplaysPut, ReplaysEnter, ReplaysEnd DEF WireStep
  <1> QED
    BY <1>2, <1>3, <1>4 DEF Next

\* A gear that has taken no request yet.
LEMMA FreshReplays == Fresh => ReplaysSoFar
  <1> SUFFICES ASSUME Fresh PROVE ReplaysSoFar
    OBVIOUS
  <1>1. /\ taken = <<>> /\ drawn = 0
        /\ issued = [name \in Counters |-> <<>>]
        /\ \A w \in Wires : wire[w] = Idle
    BY DEF Fresh
  <1>2. taken \in Seq([wire : Wires, req : Requests])
    BY <1>1, EmptySeq
  <1>3. OneDraws
    BY <1>1 DEF OneDraws, Drawing, Idle
  <1>4. \A name \in Counters : Len(issued[name]) = 0
    BY <1>1
  <1>5. Moved(Expansions(<<>>), 0, drawn, issued)
    BY <1>1, <1>4, NoneMoved DEF Moved
  <1>6. AllPut(Expansions(<<>>), <<>>, wire, drawn, issued)
    BY <1>5, NoneExpanded DEF AllPut
  <1> QED
    BY <1>1, <1>2, <1>3, <1>6 DEF ReplaysSoFar, PutSoFar

LEMMA FreshReplaysNext == (Fresh => ReplaysSoFar)'
  BY FreshReplays, PTL

LEMMA ReplaysHold == ConfigSpec => []ReplaysSoFar
  <1>1. ConfigInit => ReplaysSoFar
    BY FreshReplays DEF ConfigInit
  <1>2. ConfigInv /\ ReplaysSoFar /\ [ConfigNext]_configVars => ReplaysSoFar'
    <2> SUFFICES ASSUME ConfigInv, ReplaysSoFar, [ConfigNext]_configVars PROVE ReplaysSoFar'
      OBVIOUS
    <2>1. CASE InitGear
      <3>1. Fresh'
        BY <2>1 DEF InitGear, ConfigInv, Fresh, control, macros, serving, runtime
      <3> QED
        BY <3>1, FreshReplaysNext
    <2>2. CASE Serving
      BY <2>2, ReplaysKept DEF Serving, ConfigInv
    <2>3. CASE UNCHANGED configVars
      <3>1. UNCHANGED <<cfg, wire, taken, serial, drawn, issued>>
        BY <2>3 DEF configVars, vars, gear, macros, serving
      <3>2. \A w \in Wires : Drawing(w)' => Drawing(w)
        BY <3>1 DEF Drawing
      <3> QED
        BY <3>1, <3>2, ReplaysStay
    <2> QED
      BY <2>1, <2>2, <2>3 DEF ConfigNext
  <1> QED
    BY <1>1, <1>2, ConfigInvHolds, PTL DEF ConfigSpec

\* A seeded gear replays its replies: what a reply has in a field is what the requests
\* since the reset decide, for any number of them, of wires, of rules and of macros,
\* where they come one after another and the field's sequence is its own.
THEOREM SameRequestsSameRepliesHolds == ConfigSpec => []SameRequestsSameReplies
  <1>1. ConfigInv /\ ReplaysSoFar => SameRequestsSameReplies
    <2> SUFFICES ASSUME ConfigInv, ReplaysSoFar, cfg.seed # 0, serial, taken # <<>>,
                        Done(Last(taken).wire)
                 PROVE  LET w    == Last(taken).wire
                            all  == Expansions(taken)
                            last == Len(all) - Len(Todo(Last(taken).req))
                            todo == Todo(Last(taken).req)
                        IN \A i \in DOMAIN todo :
                               /\ Alone(todo[i].template) /\ Replays(todo[i].template)
                               /\ \A j \in (i + 1)..Len(todo) :
                                     FieldOf(todo[j].key) # FieldOf(todo[i].key)
                               =>
                                   wire[w].fields[FieldOf(todo[i].key)] = Expected(all, last + i)
      BY DEF SameRequestsSameReplies
    <2> DEFINE w    == Last(taken).wire
               req  == Last(taken).req
               all  == Expansions(taken)
               todo == Todo(req)
    <2>1. stage = "ready" /\ cfg \in Configs
      BY DEF ConfigInv, Fresh, Inv
    <2>2. wire[w] # Idle /\ wire[w].todo = <<>>
      BY DEF Done, Idle
    <2>3. SomePut(all, taken, wire, drawn, issued)
      BY <2>2 DEF ReplaysSoFar, PutSoFar, AllPut
    <2>4. PICK e \in 0..Len(todo) : PutAsExpected(wire[w], req, all, e)
      BY <2>3 DEF SomePut
    <2>5. todo \in Seq(EntriesOf(cfg)) /\ SubSeq(todo, e + 1, Len(todo)) = <<>>
      BY <2>1, <2>2, <2>4, TodoIsSeq DEF PutAsExpected
    <2> HIDE DEF all, req, todo
    <2>6. e = Len(todo) /\ DOMAIN todo = 1..Len(todo)
      BY <2>4, <2>5, NothingLeft, LenProperties
    <2>7. \A i \in DOMAIN todo :
             Foretold(todo[i].template) /\ LastFor(todo, i, Len(todo)) =>
                 wire[w].fields[FieldOf(todo[i].key)]
                     = Expected(all, (Len(all) - Len(todo)) + i)
      BY <2>4, <2>6 DEF PutAsExpected, todo
    <2> QED
      BY <2>7 DEF Foretold, LastFor, all, todo, req
  <1> QED
    BY <1>1, ConfigInvHolds, ReplaysHold, PTL
=============================================================================
