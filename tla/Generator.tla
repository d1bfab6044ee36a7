------------------------------ MODULE Generator ------------------------------
(***************************************************************************)
(* The message generator of a sim_source gear                              *)
(* (pkg/gears/sim_source/generator.go): which message type is next, which  *)
(* fields it has, where each value comes from, and what the macros draw    *)
(* from the seeded stream and from the counters.                           *)
(*                                                                         *)
(* Every method holds g.mu throughout, and so is one step. A value is a    *)
(* sequence of numbers (the digits of a PAN, the date and the number of an *)
(* RRN, a code); <<>> is the empty string. Message types, fields and codes *)
(* are numbers, in the order of the keys the code sorts. Instants are      *)
(* counted in months.                                                      *)
(***************************************************************************)
EXTENDS FieldKeys, SeedClock, SequencesExt

CONSTANTS
    Seeds,          \* the seeds Init and sim.start may give
    Stream,         \* the numbers math/rand draws from a seed, repeated for ever
    Configs,        \* g.cfg
    Catalog,        \* g.spec.Messages.Catalog: the flow of each message type
    Fields,         \* g.spec.Fields: [rules, kind, expiry, enum]
    Enums,          \* g.spec.Enums: [values, closed], the values in order
    SimMix,         \* g.spec.Simulation: its mix, defaults and templates
    SimDefaults,
    SimTemplates,
    Modulus,        \* what the six digits of $STAN and $RRN wrap at
    MaxMessages,    \* bound: calls of Generate
    MaxResets,      \* bound: resets and reseeds
    MaxClock        \* bound: the machine's clock

ASSUME SeedsAssumption ==
    /\ Seeds \subseteq Int /\ DOMAIN Stream = Seeds
    /\ \A s \in Seeds : Stream[s] \in Seq(Nat) /\ Stream[s] # <<>>
ASSUME WrapAssumption ==
    /\ Modulus \in Nat \ {0} /\ WordSize \in Nat \ {0} /\ ClockRange \in Nat \ {0}
ASSUME BoundsAssumption == {MaxMessages, MaxResets, MaxClock} \subseteq Nat
ASSUME FieldsAssumption ==
    /\ DOMAIN Fields \subseteq Nat /\ IsFiniteSet(DOMAIN Fields)
    /\ \A f \in DOMAIN Fields : IsFiniteSet(DOMAIN Fields[f].rules)

VARIABLES
    cfg,        \* the configuration of the gear, g.cfg
    seed,       \* the seed of the generator, whose copy of the configuration it is in
    gen,        \* g.rand (draws made), g.stanCounter, g.rrnCounter, g.seqCounters
    clock,      \* the machine's clock
    nMessages, nResets,
    log,        \* history: what Generate gave since the last reset, a failure too
    past        \* history: the seeds and the logs before it

vars == <<cfg, seed, gen, clock, nMessages, nResets, log, past>>

STANField == 11

\* The overrides of a configuration, wherever they are written.
OverridesOf(c) == c.set \union c.defaults \union UNION {c.templates[m] : m \in DOMAIN c.templates}

\* The values that the spec gives for its simulation.
SimValues ==
    {SimDefaults[f] : f \in DOMAIN SimDefaults}
        \union UNION {{SimTemplates[m][f] : f \in DOMAIN SimTemplates[m]} : m \in DOMAIN SimTemplates}

\* The templates an override or a simulation value may hold, and the names $SEQ
\* counts under in them.
Templates == {e.template : e \in UNION {OverridesOf(c) : c \in Configs}} \union {v.template : v \in SimValues}

Names == {t.name : t \in Templates}

\* The arguments of a macro, read or the defaults.
ASSUME TemplatesAssumption == \A t \in Templates :
    /\ t.macro = "SEQ"  => t.start \in 0..(WordSize - 1)
    /\ t.macro = "PAN"  => t.prefix \in Seq(Int) /\ t.length \in Nat \ {0, 1}
    /\ t.macro = "RAND" => t.low \in Int /\ t.high \in Int

\* What Init accepts.
ASSUME ConfigsAssumption == \A c \in Configs :
    /\ c.deterministicClock \in BOOLEAN
    /\ c.expiryMonths \in Nat /\ c.expiredPercent \in 0..100
    /\ IsFiniteSet(c.set)

\* The states of the generator.
Gens == [pos : Nat, stan : 0..(WordSize - 1), rrn : 0..(WordSize - 1),
         seq : [Names -> 0..(WordSize - 1)]]

\* NewGenerator
NewGen == [pos |-> 0, stan |-> 0, rrn |-> 0, seq |-> [name \in Names |-> 0]]

\* Variant for a mutant: a reset that keeps the RRN counter.
FreshButRRN(g) == [NewGen EXCEPT !.rrn = g.rrn]

\* resetLocked, from any state of the generator.
Fresh(g) == NewGen

Init ==
    /\ cfg \in Configs
    /\ seed \in Seeds
    /\ gen = NewGen
    /\ clock = 0
    /\ nMessages = 0 /\ nResets = 0
    /\ log = <<>> /\ past = {}

-----------------------------------------------------------------------------
(* The clock *)

\* now, with the time the machine has
Now(c, s, time) == IF c.deterministicClock THEN SeedOffset(s) ELSE time

\* What a message is generated with.
Context == [cfg |-> cfg, seed |-> seed, now |-> Now(cfg, seed, clock)]

-----------------------------------------------------------------------------
(* Drawing. Every operator takes the context and the generator as it is       *)
(* before, and gives what it is after, with what was drawn.                   *)

\* rand.IntN(n), k times
Draws(ctx, g, k, n) ==
    [gen   |-> [g EXCEPT !.pos = @ + k],
     value |-> [i \in 1..k |-> Stream[ctx.seed][((g.pos + i - 1) % Len(Stream[ctx.seed])) + 1] % n]]

Nothing(g) == [gen |-> g, value |-> <<>>]

SumOf(weights) == FoldLeft(LAMBDA a, b : a + b, 0, weights)

\* Variant for a mutant: the loop ends at zero and not below it.
PlaceOfLate(weights, r) ==
    CHOOSE i \in DOMAIN weights :
        /\ SumOf(SubSeq(weights, 1, i)) >= r
        /\ i = 1 \/ SumOf(SubSeq(weights, 1, i - 1)) < r

\* The place r falls in, when each place is as wide as its weight.
PlaceOf(weights, r) ==
    CHOOSE i \in DOMAIN weights :
        /\ SumOf(SubSeq(weights, 1, i)) > r
        /\ SumOf(SubSeq(weights, 1, i - 1)) <= r

WeightOf(weights, v) == IF v \in DOMAIN weights THEN weights[v] ELSE 0

\* chooseFromEnum. A value without a weight counts for 1, but not in the total the
\* draw is made from.
ChooseFromEnum(ctx, g, name, weights) ==
    IF name \notin DOMAIN Enums \/ Enums[name].values = <<>> THEN Nothing(g)
    ELSE LET values == Enums[name].values
             given  == [i \in DOMAIN values |-> WeightOf(weights, values[i])]
             widths == [i \in DOMAIN values |-> IF given[i] = 0 THEN 1 ELSE given[i]]
             total  == IF SumOf(given) = 0 THEN Len(values) ELSE SumOf(given)
             draw   == Draws(ctx, g, 1, total)
         IN [gen |-> draw.gen, value |-> <<values[PlaceOf(widths, draw.value[1])]>>]

Doubled(d) == IF 2 * d > 9 THEN 2 * d - 9 ELSE 2 * d

\* Variant for a mutant: the doubling begins one digit off.
CheckDigitOffByOne(body) ==
    (10 - (SumOf([i \in DOMAIN body |->
              IF (Len(body) - i) % 2 = 1 THEN Doubled(body[i]) ELSE body[i]]) % 10)) % 10

\* The check digit of macroPAN: from the right, every other digit doubled.
CheckDigit(body) ==
    (10 - (SumOf([i \in DOMAIN body |->
              IF (Len(body) - i) % 2 = 0 THEN Doubled(body[i]) ELSE body[i]]) % 10)) % 10

\* macroPAN: the prefix, as many digits as are missing, cut, and the check digit.
PAN(ctx, g, prefix, length) ==
    LET missing == IF Len(prefix) < length - 1 THEN length - 1 - Len(prefix) ELSE 0
        draw    == Draws(ctx, g, missing, 10)
        body    == SubSeq(prefix \o draw.value, 1, length - 1)
    IN [gen |-> draw.gen, value |-> Append(body, CheckDigit(body))]

\* macroRAND
RAND(ctx, g, low, high) ==
    LET top  == IF high < low THEN low ELSE high
        draw == Draws(ctx, g, 1, top - low + 1)
    IN [gen |-> draw.gen, value |-> <<low + draw.value[1]>>]

\* Variant for a mutant: a counter of no width.
SEQUnwrapped(g, name, start) ==
    LET n == IF g.seq[name] = 0 THEN start ELSE g.seq[name]
    IN [gen |-> [g EXCEPT !.seq[name] = n + 1], value |-> <<n>>]

\* macroSEQ: the counter, or the start where it is zero; the counter moves after.
SEQ(g, name, start) ==
    LET n == IF g.seq[name] = 0 THEN start ELSE g.seq[name]
    IN [gen |-> [g EXCEPT !.seq[name] = (n + 1) % WordSize], value |-> <<n>>]

\* macroINVALID: the first code a closed enum does not list; one that is no code
\* (-1) when there is no such enum.
INVALID(name) ==
    IF name \notin DOMAIN Enums \/ ~Enums[name].closed \/ Enums[name].values = <<>> THEN <<-1>>
    ELSE LET free == (0..999) \ ToSet(Enums[name].values)
         IN IF free = {} THEN <<99>> ELSE <<CHOOSE c \in free : \A d \in free : c <= d>>

EnumOf(f) == IF f \in DOMAIN Fields THEN Fields[f].enum ELSE ""

\* expandMacro, for template t of field f
Expand(ctx, g, t, f) ==
    CASE t.macro = "PAN"  -> PAN(ctx, g, t.prefix, t.length)
      [] t.macro = "STAN" ->
            [gen   |-> [g EXCEPT !.stan = (@ + 1) % WordSize],
             value |-> <<((g.stan + 1) % WordSize) % Modulus>>]
      [] t.macro = "RRN"  ->
            [gen   |-> [g EXCEPT !.rrn = (@ + 1) % WordSize],
             value |-> <<ctx.now, ((g.rrn + 1) % WordSize) % Modulus>>]
      [] t.macro = "SEQ"  -> SEQ(g, t.name, t.start)
      [] t.macro = "RAND" -> RAND(ctx, g, t.low, t.high)
      [] t.macro = "UUID" -> Draws(ctx, g, 2, WordSize)
      [] t.macro = "NOW"  -> [gen |-> g, value |-> <<ctx.now>>]
      [] t.macro = "ENUM" -> ChooseFromEnum(ctx, g, EnumOf(f), <<>>)
      [] t.macro = "AUTH" -> Draws(ctx, g, 6, 36)
      [] t.macro = "INVALID" -> [gen |-> g, value |-> INVALID(EnumOf(f))]
      [] OTHER -> [gen |-> g, value |-> t.value]

\* Variant for a mutant: an expired card may be of this month.
MonthsBackFromNone(ctx, g) ==
    Draws(ctx, g, 1, IF ctx.cfg.expiryMonths < 1 THEN 1 ELSE ctx.cfg.expiryMonths)

\* One to expiryMonths months.
MonthsBack(ctx, g) ==
    RAND(ctx, g, 1, IF ctx.cfg.expiryMonths < 1 THEN 1 ELSE ctx.cfg.expiryMonths)

\* renderDeclared, for an expiry date. The draw that decides is made only when some
\* are to be expired.
Expiry(ctx, g) ==
    LET decide == Draws(ctx, g, 1, 100)
        back   == MonthsBack(ctx, decide.gen)
    IN IF ctx.cfg.expiredPercent = 0
       THEN [gen |-> g, value |-> <<ctx.now + ctx.cfg.expiryMonths>>]
       ELSE IF decide.value[1] < ctx.cfg.expiredPercent
       THEN [gen |-> back.gen, value |-> <<ctx.now - back.value[1]>>]
       ELSE [gen |-> decide.gen, value |-> <<ctx.now + ctx.cfg.expiryMonths>>]

DefaultPrefix == <<4, 1, 1, 1>>

\* synthesizeField
Synthesize(ctx, g, f) ==
    IF f \notin DOMAIN Fields THEN Nothing(g)
    ELSE IF Fields[f].enum \in DOMAIN Enums /\ Enums[Fields[f].enum].values # <<>>
    THEN ChooseFromEnum(ctx, g, Fields[f].enum, <<>>)
    ELSE CASE Fields[f].kind = "pan"    -> PAN(ctx, g, DefaultPrefix, 16)
           [] Fields[f].kind = "amount" -> RAND(ctx, g, 1, 999999)
           [] Fields[f].kind = "date"   -> IF Fields[f].expiry THEN Expiry(ctx, g)
                                           ELSE [gen |-> g, value |-> <<ctx.now>>]
           [] OTHER -> Nothing(g)

\* expandSimValue
ExpandSimValue(ctx, g, v, f) ==
    IF v.from # "" THEN ChooseFromEnum(ctx, g, v.from, v.weights) ELSE Expand(ctx, g, v.template, f)

-----------------------------------------------------------------------------
(* selectMTI *)

\* The mix of the configuration, or the spec's, of which only the message types are
\* taken.
Mix(c) == IF c.mix # <<>> THEN c.mix
          ELSE [i \in DOMAIN SimMix |-> [use |-> SimMix[i].use, weight |-> 0]]

WeightsOf(mix) == [i \in DOMAIN mix |-> mix[i].weight]

\* Without a mix the first request of the catalog, 0 if it has none.
FirstRequest ==
    LET requests == {m \in DOMAIN Catalog : Catalog[m] = "request"}
    IN IF requests = {} THEN 0 ELSE CHOOSE m \in requests : \A n \in requests : m <= n

\* The message type a draw r selects. Where the weights are all zero nothing is drawn.
SelectMTI(c, r) ==
    IF Mix(c) = <<>> THEN FirstRequest
    ELSE IF SumOf(WeightsOf(Mix(c))) = 0 THEN Head(Mix(c)).use
    ELSE Mix(c)[PlaceOf(WeightsOf(Mix(c)), r)].use

DrawForMTI(ctx, g) ==
    LET total == SumOf(WeightsOf(Mix(ctx.cfg)))
    IN IF total = 0 THEN [gen |-> g, value |-> <<0>>] ELSE Draws(ctx, g, 1, total)

-----------------------------------------------------------------------------
(* Generate *)

\* A fold in the order of sort.Ints.
FoldUp(op(_, _), base, fields) ==
    MapThenFoldSet(LAMBDA f, acc : op(acc, f), base, LAMBDA f : f, LAMBDA s : Max(s), fields)

\* The rules by which a message of a type has a field.
RulesFor(f, mti) ==
    {i \in DOMAIN Fields[f].rules : /\ mti \in Fields[f].rules[i].codes
                                    /\ Fields[f].rules[i].usage \in {"mandatory", "optional"}}

\* determineFields: the fields of a set, each once for every rule, in order.
DetermineFields(mti, fields) ==
    FoldUp(LAMBDA all, f : all \o [i \in 1..Cardinality(RulesFor(f, mti)) |-> f], <<>>, fields)

\* resolveFieldMap: keys that name no field are dropped, and where two keys name one
\* field either may win.
Resolved(entries) ==
    LET usable == {e \in entries : FieldOf(e.key) > 0}
    IN {m \in [{FieldOf(e.key) : e \in usable} -> {e.template : e \in usable}] :
            \A f \in DOMAIN m : \E e \in usable : FieldOf(e.key) = f /\ e.template = m[f]}

SimTemplate(mti) == IF mti \in DOMAIN SimTemplates THEN SimTemplates[mti] ELSE <<>>

\* The value of a field Set does not pin, from the first source that has one.
ValueOf(ctx, g, f, mti, templates, defaults) ==
    IF f \in DOMAIN templates THEN Expand(ctx, g, templates[f], f)
    ELSE IF f \in DOMAIN defaults THEN Expand(ctx, g, defaults[f], f)
    ELSE IF f \in DOMAIN SimDefaults THEN ExpandSimValue(ctx, g, SimDefaults[f], f)
    ELSE IF f \in DOMAIN SimTemplate(mti) THEN ExpandSimValue(ctx, g, SimTemplate(mti)[f], f)
    ELSE Synthesize(ctx, g, f)

\* Variant for a mutant: what Set pins is generated first all the same.
ToGenerateAll(mti, set) == DetermineFields(mti, DOMAIN Fields)

\* The fields to generate a value for: Set's own come after, and from Set.
ToGenerate(mti, set) == DetermineFields(mti, DOMAIN Fields \ DOMAIN set)

\* fieldValues[f] = v
Put(acc, f, v) ==
    [gen    |-> v.gen,
     values |-> [x \in DOMAIN acc.values \union {f} |-> IF x = f THEN v.value ELSE acc.values[x]]]

\* The loop over the fields of the message.
GenerateFields(ctx, g, fields, mti, templates, defaults) ==
    FoldLeft(LAMBDA acc, f : Put(acc, f, ValueOf(ctx, acc.gen, f, mti, templates, defaults)),
             [gen |-> g, values |-> <<>>], fields)

\* The loop over the fields of Set.
SetFields(ctx, generated, set) ==
    FoldUp(LAMBDA acc, f : Put(acc, f, Expand(ctx, acc.gen, set[f], f)), generated, DOMAIN set)

\* The values of all fields.
Fill(ctx, g, mti, set, templates, defaults) ==
    SetFields(ctx, GenerateFields(ctx, g, ToGenerate(mti, set), mti, templates, defaults), set)

IsResponse(mti) == mti \in DOMAIN Catalog /\ Catalog[mti] = "response"

\* What Generate may give: a message, and the generator after it. Without a message
\* type it fails; a response is for sim_responder, and by then the draw that selected
\* it is made. Empty values are left out.
Outcomes(ctx, g) ==
    LET draw == DrawForMTI(ctx, g)
        mti  == SelectMTI(ctx.cfg, draw.value[1])
        outcome(fields, then) == [mti |-> mti, fields |-> fields, at |-> ctx.now, then |-> then]
        filled(set, templates, defaults) ==
            LET all     == Fill(ctx, draw.gen, mti, set, templates, defaults)
                present == {f \in DOMAIN all.values : all.values[f] # <<>>}
            IN outcome([f \in present |-> all.values[f]], all.gen)
    IN IF mti = 0 \/ IsResponse(mti) THEN {outcome(<<>>, draw.gen)}
       ELSE {filled(set, templates, defaults) :
                set \in Resolved(ctx.cfg.set), defaults \in Resolved(ctx.cfg.defaults),
                templates \in Resolved(IF mti \in DOMAIN ctx.cfg.templates
                                       THEN ctx.cfg.templates[mti] ELSE {})}

\* Generate
Generate ==
    /\ nMessages < MaxMessages
    /\ nMessages' = nMessages + 1
    /\ \E m \in Outcomes(Context, gen) : gen' = m.then /\ log' = Append(log, m)
    /\ UNCHANGED <<cfg, seed, clock, nResets, past>>

Forget == log' = <<>> /\ past' = past \union {[seed |-> seed, log |-> log]}

\* ResetCounters: a sim.reset without one.
ResetCounters ==
    /\ nResets < MaxResets
    /\ nResets' = nResets + 1
    /\ gen' = Fresh(gen)
    /\ Forget
    /\ UNCHANGED <<cfg, seed, clock, nMessages>>

\* Reseed: a sim.start or a sim.reset that carries a seed.
Reseed ==
    /\ nResets < MaxResets
    /\ nResets' = nResets + 1
    /\ seed' \in Seeds
    /\ gen' = Fresh(gen)
    /\ Forget
    /\ UNCHANGED <<cfg, clock, nMessages>>

MonthPasses ==
    /\ clock < MaxClock
    /\ clock' = clock + 1
    /\ UNCHANGED <<cfg, seed, gen, nMessages, nResets, log, past>>

Next == Generate \/ ResetCounters \/ Reseed \/ MonthPasses

Spec == Init /\ [][Next]_vars

-----------------------------------------------------------------------------
(* Properties *)

TypeOK ==
    /\ cfg \in Configs /\ seed \in Seeds
    /\ gen \in Gens
    /\ clock \in 0..MaxClock
    /\ nMessages \in 0..MaxMessages /\ nResets \in 0..MaxResets
    /\ Len(log) <= nMessages
    /\ \A i \in DOMAIN log : \A f \in DOMAIN log[i].fields : log[i].fields[f] # <<>>

\* The same seed reproduces the same sequence, for a gear whose clock is deterministic
\* too: what Generate gave after any two resets to one seed agrees as far as both go,
\* message by message and field by field, with the failures, the times, and every
\* counter and the place in the stream after each.
SameSeedSameMessages ==
    cfg.deterministicClock =>
        \A p \in past : p.seed = seed => IsPrefix(p.log, log) \/ IsPrefix(log, p.log)

\* Where only field 11 is numbered by $STAN, its numbers run on by one from message
\* to message, and wrap: none is drawn for a value that is then replaced, or for a
\* message that is not sent.
STANsRunOn ==
    LET numbered == {e \in cfg.set \union cfg.defaults : e.template.macro = "STAN"}
        having(n) == {i \in 1..n : STANField \in DOMAIN log[i].fields}
    IN numbered # {} /\ (\A e \in numbered : FieldOf(e.key) = STANField) =>
        \A i \in having(Len(log)) :
            log[i].fields[STANField] = <<Cardinality(having(i)) % Modulus>>

\* By the definition of ISO/IEC 7812: from the right, the second, fourth, ... digit
\* counts for the sum of the digits of its double.
LuhnValid(digits) ==
    LET value(i) == IF (Len(digits) - i) % 2 = 1
                    THEN ((2 * digits[i]) \div 10) + ((2 * digits[i]) % 10) ELSE digits[i]
    IN SumOf([i \in DOMAIN digits |-> value(i)]) % 10 = 0

\* Every PAN generated passes the Luhn check, whatever its prefix and its length.
PANsAreValid ==
    \A i \in DOMAIN log : \A f \in DOMAIN log[i].fields \intersect DOMAIN Fields :
        Fields[f].kind = "pan" => LuhnValid(log[i].fields[f])

\* A synthesized expiry date is expiryMonths ahead, or, for the share that is to be
\* expired, strictly past and by no more than expiryMonths, or by one.
ExpiryInWindow ==
    \A i \in DOMAIN log : \A f \in DOMAIN log[i].fields \intersect DOMAIN Fields :
        Fields[f].expiry =>
            LET months == log[i].fields[f][1] - log[i].at IN
            \/ months = cfg.expiryMonths /\ cfg.expiredPercent < 100
            \/ /\ months \in (-cfg.expiryMonths)..(-1) \union {-1}
               /\ cfg.expiredPercent > 0
=============================================================================
