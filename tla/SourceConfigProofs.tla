------------------------- MODULE SourceConfigProofs -------------------------
(***************************************************************************)
(* Proofs about what sim_source makes of its configuration, for any        *)
(* configuration, specification and stream of numbers.                     *)
(***************************************************************************)
EXTENDS SourceConfig, GeneratorProofs

\* A gear that is ready runs on what Init read and refused nothing of.
AcceptedInv == stage = "ready" => Accepted(written) /\ cfg = Parsed(written)

\* What validateFieldMap accepts names a field or the message type, with a macro it knows.
LEMMA EntryAccepted ==
    ASSUME NEW entries, ValidateFieldMap(entries), NEW e \in entries
    PROVE  /\ FieldOf(e.key) > 0 \/ (e.key \in DOMAIN Alias /\ Alias[e.key] = 0)
           /\ e.template.macro \in KnownMacros \union {""}
  <1>1. e.template.macro \in KnownMacros \union {""}
    BY DEF ValidateFieldMap
  <1>2. CASE e.key \in DOMAIN Numeral
    <2>1. Numeral[e.key] > 0 /\ FieldOf(e.key) = Numeral[e.key]
      BY <1>2 DEF ValidateFieldMap, FieldOf
    <2> QED
      BY <1>1, <2>1
  <1>3. CASE e.key \notin DOMAIN Numeral
    <2>1. e.key \in DOMAIN Alias /\ FieldOf(e.key) = Alias[e.key]
      BY <1>3 DEF ValidateFieldMap, FieldOf
    <2>2. Alias[e.key] > 0 \/ Alias[e.key] = 0
      BY <2>1, AliasAssumption
    <2> QED
      BY <1>1, <2>1, <2>2
  <1> QED
    BY <1>2, <1>3

LEMMA AcceptedInvKept == AcceptedInv /\ [ConfigNext]_configVars => AcceptedInv'
  <1> SUFFICES ASSUME AcceptedInv, [ConfigNext]_configVars PROVE AcceptedInv'
    OBVIOUS
  <1>1. CASE InitGear
    BY <1>1 DEF InitGear, AcceptedInv
  <1>2. CASE Generating
    <2>1. UNCHANGED <<cfg, written, stage>>
      BY <1>2 DEF Generating, Next, Generate, ResetCounters, Reseed, MonthPasses
    <2> QED
      BY <2>1 DEF AcceptedInv
  <1>3. CASE UNCHANGED configVars
    BY <1>3 DEF configVars, vars, AcceptedInv
  <1> QED
    BY <1>1, <1>2, <1>3 DEF ConfigNext

LEMMA AcceptedInvHolds == ConfigSpec => []AcceptedInv
  <1>1. ConfigInit => AcceptedInv
    BY DEF ConfigInit, AcceptedInv
  <1> QED
    BY <1>1, AcceptedInvKept, PTL DEF ConfigSpec

\* Every override of an accepted configuration is used, wherever it is written: its key
\* names a field to the generator too, or the message type, and its macro is expanded
\* and not sent as it stands.
THEOREM AcceptedOverridesResolveHolds == ConfigSpec => []AcceptedOverridesResolve
  <1>1. AcceptedInv => AcceptedOverridesResolve
    <2> SUFFICES ASSUME Accepted(written), cfg = Parsed(written)
                 PROVE  AcceptedOverridesResolve
      BY DEF AcceptedInv, AcceptedOverridesResolve
    <2>1. /\ ValidateFieldMap(cfg.defaults) /\ ValidateFieldMap(cfg.set)
          /\ \A mti \in DOMAIN cfg.templates : ValidateFieldMap(cfg.templates[mti])
      BY DEF Accepted, Validate
    <2> QED
      BY <2>1, EntryAccepted, ZenonT(30) DEF AcceptedOverridesResolve, OverridesOf
  <1> QED
    BY <1>1, AcceptedInvHolds, PTL

-----------------------------------------------------------------------------
(* Replay. Between two resets, each thing that Generate gives is the only one it *)
(* could give, in the context of the seed and with the generator that the one    *)
(* before left. So of two logs of one seed, one goes on where the other ends.    *)

\* No two keys give one field different values.
OneValuePerField(entries) ==
    \A d, e \in entries :
        FieldOf(d.key) > 0 /\ FieldOf(d.key) = FieldOf(e.key) => d.template = e.template

Unambiguous(c) ==
    /\ OneValuePerField(c.set) /\ OneValuePerField(c.defaults)
    /\ \A mti \in DOMAIN c.templates : OneValuePerField(c.templates[mti])

ContextFor(s) == [cfg |-> cfg, seed |-> s, now |-> SeedOffset(s)]

GenBefore(l, i) == IF i = 1 THEN NewGen ELSE l[i - 1].then

\* l may be the log of a generator with seed s.
IsRun(l, s) ==
    /\ \E S : l \in Seq(S)
    /\ \A i \in 1..Len(l) : l[i] \in Outcomes(ContextFor(s), GenBefore(l, i))

Agree(k, l) == \A i \in 1..Len(k) : i <= Len(l) => k[i] = l[i]

Replays ==
    /\ IsRun(log, seed) /\ gen = GenBefore(log, Len(log) + 1)
    /\ \A p \in past : IsRun(p.log, p.seed) /\ (p.seed = seed => Agree(p.log, log))

ReplayInv ==
    /\ stage # "ready" => log = <<>> /\ past = {}
    /\ stage = "ready" /\ cfg.deterministicClock /\ Unambiguous(cfg) => Replays

LEMMA ResolvedUnique ==
    ASSUME NEW entries, OneValuePerField(entries),
           NEW a \in Resolved(entries), NEW b \in Resolved(entries)
    PROVE  a = b
  <1> DEFINE usable == {e \in entries : FieldOf(e.key) > 0}
             fields == {FieldOf(e.key) : e \in usable}
             values == {e.template : e \in usable}
  <1>1. /\ a \in [fields -> values] /\ b \in [fields -> values]
        /\ \A f \in DOMAIN a : \E e \in usable : FieldOf(e.key) = f /\ e.template = a[f]
        /\ \A f \in DOMAIN b : \E e \in usable : FieldOf(e.key) = f /\ e.template = b[f]
    BY DEF Resolved
  <1>2. ASSUME NEW f \in fields PROVE a[f] = b[f]
    <2>1. PICK d \in usable : FieldOf(d.key) = f /\ d.template = a[f]
      BY <1>1, <1>2
    <2>2. PICK e \in usable : FieldOf(e.key) = f /\ e.template = b[f]
      BY <1>1, <1>2
    <2> QED
      BY <2>1, <2>2 DEF OneValuePerField
  <1> HIDE DEF fields, values
  <1> QED
    BY <1>1, <1>2

\* Generate gives one thing only, where no two keys name one field.
LEMMA OneOutcome ==
    ASSUME NEW ctx, NEW g, Unambiguous(ctx.cfg),
           NEW a \in Outcomes(ctx, g), NEW b \in Outcomes(ctx, g)
    PROVE  a = b
  <1> DEFINE draw == DrawForMTI(ctx, g)
             mti  == SelectMTI(ctx.cfg, draw.value[1])
             entries == IF mti \in DOMAIN ctx.cfg.templates THEN ctx.cfg.templates[mti] ELSE {}
             outcome(fields, then) == [mti |-> mti, fields |-> fields, at |-> ctx.now, then |-> then]
             filled(set, templates, defaults) ==
               LET all     == Fill(ctx, draw.gen, mti, set, templates, defaults)
                   present == {f \in DOMAIN all.values : all.values[f] # <<>>}
               IN outcome([f \in present |-> all.values[f]], all.gen)
  <1>1. CASE mti = 0 \/ IsResponse(mti)
    <2>1. Outcomes(ctx, g) = {outcome(<<>>, draw.gen)}
      BY <1>1, SMTT(30) DEF Outcomes
    <2> HIDE DEF outcome
    <2> QED
      BY <2>1
  <1>2. CASE ~(mti = 0 \/ IsResponse(mti))
    <2>1. OneValuePerField(ctx.cfg.set) /\ OneValuePerField(ctx.cfg.defaults)
          /\ OneValuePerField(entries)
      BY DEF Unambiguous, OneValuePerField
    <2>2. Outcomes(ctx, g) = {filled(set, templates, defaults) :
              set \in Resolved(ctx.cfg.set), defaults \in Resolved(ctx.cfg.defaults),
              templates \in Resolved(entries)}
      BY <1>2, SMTT(30) DEF Outcomes
    <2> HIDE DEF filled, entries
    <2>3. PICK s \in Resolved(ctx.cfg.set), d \in Resolved(ctx.cfg.defaults),
               t \in Resolved(entries) : a = filled(s, t, d)
      BY <2>2
    <2>4. PICK s2 \in Resolved(ctx.cfg.set), d2 \in Resolved(ctx.cfg.defaults),
               t2 \in Resolved(entries) : b = filled(s2, t2, d2)
      BY <2>2
    <2>5. s = s2 /\ d = d2 /\ t = t2
      BY <2>1, ResolvedUnique
    <2> QED
      BY <2>3, <2>4, <2>5
  <1> QED
    BY <1>1, <1>2

LEMMA AgreeingRuns ==
    ASSUME NEW k, NEW l, NEW S, NEW T, k \in Seq(S), l \in Seq(T), Agree(k, l)
    PROVE  IsPrefix(k, l) \/ IsPrefix(l, k)
  <1>1. CASE Len(k) <= Len(l)
    <2>1. SubSeq(k, 1, Len(k)) = SubSeq(l, 1, Len(k))
      BY <1>1 DEF Agree
    <2> QED
      BY <1>1, <2>1 DEF IsPrefix
  <1>2. CASE Len(l) <= Len(k)
    <2>1. SubSeq(l, 1, Len(l)) = SubSeq(k, 1, Len(l))
      BY <1>2 DEF Agree
    <2> QED
      BY <1>2, <2>1 DEF IsPrefix
  <1> QED
    BY <1>1, <1>2

\* What a run gives next is what any run of the seed gave there.
LEMMA RunGoesOn ==
    ASSUME Replays, Unambiguous(cfg), NEW m \in Outcomes(ContextFor(seed), gen)
    PROVE  /\ IsRun(Append(log, m), seed)
           /\ m.then = GenBefore(Append(log, m), Len(log) + 2)
           /\ \A p \in past : p.seed = seed => Agree(p.log, Append(log, m))
  <1> DEFINE next == Append(log, m)
  <1>1. PICK S : log \in Seq(S)
    BY DEF Replays, IsRun
  <1>2. /\ next \in Seq(S \union {m}) /\ Len(next) = Len(log) + 1
        /\ next[Len(log) + 1] = m /\ \A i \in 1..Len(log) : next[i] = log[i]
    <2>1. log \in Seq(S \union {m})
      BY <1>1
    <2> QED
      BY <2>1, AppendProperties
  <1> HIDE DEF next
  <1>3. Len(log) \in Nat
    BY <1>1
  <1>4. \A i \in 1..(Len(log) + 1) : GenBefore(next, i) = GenBefore(log, i)
    BY <1>2, <1>3 DEF GenBefore
  <1>5. IsRun(next, seed)
    <2>1. ASSUME NEW i \in 1..Len(next)
          PROVE  next[i] \in Outcomes(ContextFor(seed), GenBefore(next, i))
      <3>1. CASE i = Len(log) + 1
        BY <1>2, <1>3, <1>4, <3>1 DEF Replays
      <3>2. CASE i \in 1..Len(log)
        BY <1>2, <1>3, <1>4, <3>2 DEF Replays, IsRun
      <3> QED
        BY <1>2, <1>3, <3>1, <3>2
    <2> QED
      BY <1>2, <2>1 DEF IsRun
  <1>6. m.then = GenBefore(next, Len(log) + 2)
    BY <1>2, <1>3 DEF GenBefore
  <1>7. ASSUME NEW p \in past, p.seed = seed PROVE Agree(p.log, next)
    <2>1. PICK T : p.log \in Seq(T)
      BY DEF Replays, IsRun
    <2>2. Agree(p.log, log) /\ Len(p.log) \in Nat
      BY <1>7, <2>1 DEF Replays
    <2>3. CASE Len(p.log) <= Len(log)
      BY <1>2, <1>3, <2>2, <2>3 DEF Agree
    <2>4. CASE Len(p.log) > Len(log)
      <3>1. GenBefore(p.log, Len(log) + 1) = gen
        BY <1>3, <2>2, <2>4 DEF Replays, GenBefore, Agree
      <3>2. p.log[Len(log) + 1] \in Outcomes(ContextFor(seed), gen)
        BY <1>3, <1>7, <2>2, <2>4, <3>1 DEF Replays, IsRun
      <3>3. p.log[Len(log) + 1] = m
        BY <3>2, OneOutcome DEF ContextFor
      <3> QED
        BY <1>2, <1>3, <2>2, <3>3 DEF Agree
    <2> QED
      BY <1>3, <2>2, <2>3, <2>4
  <1> QED
    BY <1>5, <1>6, <1>7 DEF next

\* A log that is forgotten is a run of its seed, and the empty log agrees with any.
LEMMA ForgottenRuns ==
    ASSUME Replays, Forget, gen' = NewGen, cfg' = cfg PROVE Replays'
  <1>1. log' = <<>> /\ Len(log') = 0
    BY DEF Forget
  <1>2. \A l, s : IsRun(l, s) => IsRun(l, s)'
    BY DEF IsRun, ContextFor
  <1>3. IsRun(log, seed)' /\ gen' = GenBefore(log', Len(log') + 1)
    BY <1>1 DEF IsRun, GenBefore
  <1>4. ASSUME NEW p \in past' PROVE IsRun(p.log, p.seed)' /\ Agree(p.log, log')
    <2>1. IsRun(p.log, p.seed)
      BY DEF Forget, Replays
    <2>2. Len(p.log) \in Nat
      BY <2>1 DEF IsRun
    <2> QED
      BY <1>1, <1>2, <2>1, <2>2 DEF Agree
  <1> QED
    BY <1>3, <1>4 DEF Replays

LEMMA ReplayInvKept == ReplayInv /\ [ConfigNext]_configVars => ReplayInv'
  <1> SUFFICES ASSUME ReplayInv, [ConfigNext]_configVars PROVE ReplayInv'
    OBVIOUS
  <1>1. CASE InitGear
    <2>1. log' = <<>> /\ past' = {} /\ gen' = NewGen /\ Len(log') = 0
      BY <1>1 DEF InitGear, ReplayInv
    <2>2. IsRun(log, seed)' /\ gen' = GenBefore(log', Len(log') + 1)
      BY <2>1 DEF IsRun, GenBefore
    <2> QED
      BY <2>1, <2>2 DEF ReplayInv, Replays
  <1>2. CASE Generating
    <2>1. stage = "ready" /\ stage' = "ready" /\ cfg' = cfg
      BY <1>2 DEF Generating, Next, Generate, ResetCounters, Reseed, MonthPasses
    <2> SUFFICES ASSUME cfg.deterministicClock, Unambiguous(cfg) PROVE Replays'
      BY <2>1 DEF ReplayInv
    <2>2. Replays
      BY <2>1 DEF ReplayInv
    <2>3. CASE Generate
      <3>1. PICK m \in Outcomes(Context, gen) : gen' = m.then /\ log' = Append(log, m)
        BY <2>3 DEF Generate
      <3>2. m \in Outcomes(ContextFor(seed), gen)
        BY <3>1 DEF Context, ContextFor, Now
      <3>3. /\ IsRun(Append(log, m), seed)
            /\ m.then = GenBefore(Append(log, m), Len(log) + 2)
            /\ \A p \in past : p.seed = seed => Agree(p.log, Append(log, m))
        BY <2>2, <3>2, RunGoesOn
      <3>4. seed' = seed /\ past' = past
        BY <2>3 DEF Generate
      <3>5. Len(log') = Len(log) + 1 /\ Len(log) \in Nat
        BY <2>2, <3>1 DEF Replays, IsRun
      <3>6. \A l, s : IsRun(l, s) => IsRun(l, s)'
        BY <2>1 DEF IsRun, ContextFor
      <3>7. IsRun(log, seed)' /\ gen' = GenBefore(log', Len(log') + 1)
        BY <3>1, <3>3, <3>4, <3>5, <3>6
      <3> QED
        BY <2>2, <3>1, <3>3, <3>4, <3>6, <3>7 DEF Replays
    <2>4. CASE ResetCounters \/ Reseed
      BY <2>1, <2>2, <2>4, ForgottenRuns DEF ResetCounters, Reseed, Fresh
    <2>5. CASE MonthPasses
      BY <2>1, <2>2, <2>5 DEF MonthPasses, Replays, IsRun, ContextFor, GenBefore
    <2> QED
      BY <1>2, <2>3, <2>4, <2>5 DEF Generating, Next
  <1>3. CASE UNCHANGED configVars
    BY <1>3 DEF configVars, vars, ReplayInv, Replays, IsRun, ContextFor, GenBefore
  <1> QED
    BY <1>1, <1>2, <1>3 DEF ConfigNext

\* A seed replays its messages, whatever the configuration, the specification and the
\* stream of numbers: where the clock is deterministic and no two keys name one field,
\* what the generator gives after any two resets to one seed agrees as far as both go,
\* the failures, the times and the state of the generator included.
THEOREM SameSeedSameMessagesHolds ==
    ConfigSpec => [](Unambiguous(cfg) => SameSeedSameMessages)
  <1>1. ConfigInit => ReplayInv
    BY DEF ConfigInit, ReplayInv
  <1>2. ReplayInv => (Unambiguous(cfg) => SameSeedSameMessages)
    <2> SUFFICES ASSUME ReplayInv, Unambiguous(cfg), cfg.deterministicClock,
                        NEW p \in past, p.seed = seed
                 PROVE  IsPrefix(p.log, log) \/ IsPrefix(log, p.log)
      BY DEF SameSeedSameMessages
    <2>1. Replays
      BY DEF ReplayInv
    <2>2. PICK S, T : p.log \in Seq(S) /\ log \in Seq(T)
      BY <2>1 DEF Replays, IsRun
    <2>3. Agree(p.log, log)
      BY <2>1 DEF Replays
    <2> QED
      BY <2>2, <2>3, AgreeingRuns
  <1> QED
    BY <1>1, <1>2, ReplayInvKept, PTL DEF ConfigSpec

-----------------------------------------------------------------------------
(* Messages. Everything in the log is something that Generate gives, with the    *)
(* configuration that Init accepted and the generator in one of its states; so   *)
(* what GeneratorProofs says of all that Generate gives holds of the log.        *)

IsGenerated(m, c) == \E ctx \in Contexts, g \in Gens : ctx.cfg = c /\ m \in Outcomes(ctx, g)

MessageInv ==
    /\ stage \in {"made", "ready", "refused"}
    /\ \E name \in DOMAIN Written : written = Written[name]
    /\ stage # "ready" => log = <<>>
    /\ clock \in 0..MaxClock /\ nMessages \in 0..MaxMessages /\ nResets \in 0..MaxResets
    /\ stage = "ready" =>
         /\ cfg \in Configs /\ seed \in Seeds /\ gen \in Gens
         /\ \E S : log \in Seq(S)
         /\ Len(log) <= nMessages
         /\ \A i \in 1..Len(log) : IsGenerated(log[i], cfg)

LEMMA MessageInvInit == ConfigInit => MessageInv
  BY BoundsAssumption DEF ConfigInit, MessageInv

LEMMA MessageInvKept == MessageInv /\ AcceptedInv' /\ [ConfigNext]_configVars => MessageInv'
  <1> SUFFICES ASSUME MessageInv, AcceptedInv', [ConfigNext]_configVars PROVE MessageInv'
    OBVIOUS
  <1> USE BoundsAssumption
  <1>1. CASE InitGear
    <2>1. stage' = "ready" => cfg' \in Configs /\ seed' \in Seeds
      <3> SUFFICES ASSUME stage' = "ready" PROVE cfg' \in Configs /\ seed' \in Seeds
        OBVIOUS
      <3>1. Accepted(written) /\ cfg' = Parsed(written)
        BY <1>1 DEF InitGear
      <3>2. seed' = SeedOf(written)
        BY <1>1 DEF InitGear, Parsed, DefaultConfig
      <3> QED
        BY <3>1, <3>2, WrittenAssumption DEF MessageInv
    <2>2. gen' \in Gens
      BY <1>1, NewGenType DEF InitGear
    <2>3. /\ log' = <<>> /\ Len(log') = 0 /\ \A S : log' \in Seq(S)
          /\ UNCHANGED <<written, clock, nMessages, nResets>>
          /\ stage' \in {"ready", "refused"}
      BY <1>1 DEF InitGear, MessageInv
    <2> QED
      BY <2>1, <2>2, <2>3 DEF MessageInv
  <1>2. CASE Generating
    <2>1. stage = "ready" /\ UNCHANGED <<stage, written, cfg>>
      BY <1>2 DEF Generating, Next, Generate, ResetCounters, Reseed, MonthPasses
    <2>2. CASE Generate
      <3>1. PICK m \in Outcomes(Context, gen) : gen' = m.then /\ log' = Append(log, m)
        BY <2>2 DEF Generate
      <3>2. Context \in Contexts /\ Context.cfg = cfg /\ gen \in Gens
        <4>1. Now(cfg, seed, clock) \in Nat
          BY <2>1, NowType DEF MessageInv
        <4> QED
          BY <2>1, <4>1 DEF MessageInv, Context, Contexts
      <3>3. gen' \in Gens
        BY <3>1, <3>2, OutcomeIs
      <3>4. IsGenerated(m, cfg)
        BY <3>1, <3>2 DEF IsGenerated
      <3>5. PICK S : log \in Seq(S)
        BY <2>1 DEF MessageInv
      <3>6. /\ log' \in Seq(S \union {m}) /\ Len(log') = Len(log) + 1 /\ Len(log) \in Nat
            /\ log'[Len(log) + 1] = m /\ \A i \in 1..Len(log) : log'[i] = log[i]
        <4>1. log \in Seq(S \union {m})
          BY <3>5
        <4> QED
          BY <3>1, <4>1, AppendProperties
      <3>7. \A i \in 1..Len(log') : IsGenerated(log'[i], cfg)
        <4> SUFFICES ASSUME NEW i \in 1..Len(log') PROVE IsGenerated(log'[i], cfg)
          OBVIOUS
        <4>1. CASE i = Len(log) + 1
          BY <3>4, <3>6, <4>1
        <4>2. CASE i \in 1..Len(log)
          BY <2>1, <3>6, <4>2 DEF MessageInv
        <4> QED
          BY <3>6, <4>1, <4>2
      <3>8. /\ nMessages' = nMessages + 1 /\ nMessages < MaxMessages
            /\ UNCHANGED <<seed, clock, nResets>>
        BY <2>2 DEF Generate
      <3> QED
        BY <2>1, <3>3, <3>6, <3>7, <3>8 DEF MessageInv
    <2>3. CASE ResetCounters \/ Reseed
      <3>1. /\ gen' = NewGen /\ log' = <<>> /\ seed' \in Seeds /\ UNCHANGED <<clock, nMessages>>
            /\ nResets < MaxResets /\ nResets' = nResets + 1
        BY <2>1, <2>3 DEF ResetCounters, Reseed, Fresh, Forget, MessageInv
      <3>2. Len(log') = 0 /\ \A S : log' \in Seq(S)
        BY <3>1
      <3> QED
        BY <2>1, <3>1, <3>2, NewGenType DEF MessageInv
    <2>4. CASE MonthPasses
      BY <2>1, <2>4 DEF MonthPasses, MessageInv
    <2> QED
      BY <1>2, <2>2, <2>3, <2>4 DEF Generating, Next
  <1>3. CASE UNCHANGED configVars
    BY <1>3 DEF configVars, vars, MessageInv
  <1> QED
    BY <1>1, <1>2, <1>3 DEF ConfigNext

LEMMA MessageInvHolds == ConfigSpec => []MessageInv
  BY MessageInvInit, MessageInvKept, AcceptedInvHolds, PTL DEF ConfigSpec

\* What a log holds, by the sources of its values.
LEMMA LoggedMessage ==
    ASSUME MessageInv, stage = "ready", NEW i \in DOMAIN log
    PROVE  \E ctx \in Contexts :
              /\ ctx.cfg = cfg /\ log[i].at = ctx.now
              /\ \A f \in DOMAIN log[i].fields : log[i].fields[f] # <<>>
              /\ ~IsMessage(log[i]) => DOMAIN log[i].fields = {}
              /\ IsMessage(log[i]) =>
                   \E set \in Resolved(cfg.set), defaults \in Resolved(cfg.defaults),
                      templates \in Resolved(TemplatesFor(cfg, log[i].mti)) :
                     /\ \A f \in DOMAIN log[i].fields : \E g \in Gens :
                           log[i].fields[f]
                               = ValueFrom(g, ctx, f, log[i].mti, set, templates, defaults).value
                     /\ \A f \in DOMAIN set :
                           \/ f \in DOMAIN log[i].fields
                           \/ \E g \in Gens :
                                 ValueFrom(g, ctx, f, log[i].mti, set, templates, defaults).value = <<>>
  <1>1. DOMAIN log = 1..Len(log)
    BY DEF MessageInv
  <1>2. PICK ctx \in Contexts, g \in Gens : ctx.cfg = cfg /\ log[i] \in Outcomes(ctx, g)
    BY <1>1 DEF MessageInv, IsGenerated
  <1> QED
    BY <1>2, OutcomeIs

\* Whatever Init accepts, and whatever is drawn, the generator keeps its types: its counters
\* stay within their word, and a message has no field with an empty value.
THEOREM TypeCorrect == ConfigSpec => []ConfigTypeOK
  <1>1. MessageInv => ConfigTypeOK
    <2> SUFFICES ASSUME MessageInv PROVE ConfigTypeOK
      OBVIOUS
    <2>1. ASSUME stage = "ready", NEW i \in DOMAIN log, NEW f \in DOMAIN log[i].fields
          PROVE  log[i].fields[f] # <<>>
      BY <2>1, LoggedMessage
    <2> QED
      BY <2>1 DEF MessageInv, ConfigTypeOK, TypeOK
  <1> QED
    BY <1>1, MessageInvHolds, PTL

\* Every PAN passes the Luhn check, for any prefix of digits, any length and any stream:
\* macroPAN makes the check digit of what it drew. A field that a literal, an enum or
\* another macro gives its value is not promised one.
THEOREM PANsAreValidHolds ==
    ConfigSpec => [](stage = "ready" /\ PANsAreGenerated(cfg) => PANsAreValid)
  <1>1. MessageInv => (stage = "ready" /\ PANsAreGenerated(cfg) => PANsAreValid)
    <2> SUFFICES ASSUME MessageInv, stage = "ready", PANsAreGenerated(cfg), NEW i \in DOMAIN log,
                        NEW f \in DOMAIN log[i].fields \intersect DOMAIN Fields, Fields[f].kind = "pan"
                 PROVE  LuhnValid(log[i].fields[f])
      BY DEF PANsAreValid
    <2>1. PICK ctx \in Contexts :
             /\ ctx.cfg = cfg /\ IsMessage(log[i])
             /\ \E set \in Resolved(cfg.set), defaults \in Resolved(cfg.defaults),
                   templates \in Resolved(TemplatesFor(cfg, log[i].mti)), g \in Gens :
                     log[i].fields[f] = ValueFrom(g, ctx, f, log[i].mti, set, templates, defaults).value
      BY LoggedMessage
    <2> QED
      BY <2>1, PANFromAnySource
  <1> QED
    BY <1>1, MessageInvHolds, PTL

\* An expiry date that the specification makes is expiryMonths ahead, or, when some are to
\* be expired, in a month that is over, for any percentage and any number of months, zero
\* included.
THEOREM ExpiryInWindowHolds ==
    ConfigSpec => [](stage = "ready" /\ ExpiriesAreSynthesized(cfg) => ExpiryInWindow)
  <1>1. MessageInv => (stage = "ready" /\ ExpiriesAreSynthesized(cfg) => ExpiryInWindow)
    <2> SUFFICES ASSUME MessageInv, stage = "ready", ExpiriesAreSynthesized(cfg), NEW i \in DOMAIN log,
                        NEW f \in DOMAIN log[i].fields \intersect DOMAIN Fields, Fields[f].expiry
                 PROVE  InWindow(log[i].fields[f][1] - log[i].at, cfg)
      BY DEF ExpiryInWindow, InWindow
    <2>1. PICK ctx \in Contexts :
             /\ ctx.cfg = cfg /\ log[i].at = ctx.now /\ IsMessage(log[i])
             /\ \E set \in Resolved(cfg.set), defaults \in Resolved(cfg.defaults),
                   templates \in Resolved(TemplatesFor(cfg, log[i].mti)), g \in Gens :
                     log[i].fields[f] = ValueFrom(g, ctx, f, log[i].mti, set, templates, defaults).value
      BY LoggedMessage
    <2> QED
      BY <2>1, ExpiryFromAnySource
  <1> QED
    BY <1>1, MessageInvHolds, PTL

\* What Init makes of "set": the entries as they are written, with keys that name the fields
\* the written keys name.
Pins(w) ==
    {[field |-> e.key, template |-> e.template] : e \in Read(w, "set", "anymap", {})}
        \union {[field |-> FieldOf(e.key), template |-> e.template] : e \in Read(w, "set", "map", {})}

LEMMA SetIsPins ==
    ASSUME NEW name \in DOMAIN Written
    PROVE  LET w == Written[name] IN
           /\ \A e \in Parsed(w).set : [field |-> FieldOf(e.key), template |-> e.template] \in Pins(w)
           /\ \A p \in Pins(w) : \E e \in Parsed(w).set :
                 FieldOf(e.key) = p.field /\ e.template = p.template
  <1> DEFINE w == Written[name]
             numbers == Read(w, "set", "anymap", {})
             texts   == Read(w, "set", "map", {})
  <1>1. Parsed(w).set = texts \union {[key |-> Decimal[e.key], template |-> e.template] : e \in numbers}
    BY DEF Parsed, DefaultConfig, StringMap
  <1>2. \A e \in numbers : FieldOf(Decimal[e.key]) = e.key
    BY WrittenAssumption, DecimalAssumption DEF FieldOf
  <1> HIDE DEF numbers, texts
  <1>3. Pins(w) = {[field |-> e.key, template |-> e.template] : e \in numbers}
                     \union {[field |-> FieldOf(e.key), template |-> e.template] : e \in texts}
    BY DEF Pins, numbers, texts
  <1>4. ASSUME NEW e \in Parsed(w).set
        PROVE  [field |-> FieldOf(e.key), template |-> e.template] \in Pins(w)
    <2>1. CASE e \in texts
      BY <1>3, <2>1
    <2>2. CASE e \in {[key |-> Decimal[n.key], template |-> n.template] : n \in numbers}
      <3>1. PICK n \in numbers : e = [key |-> Decimal[n.key], template |-> n.template]
        BY <2>2
      <3>2. FieldOf(e.key) = n.key /\ e.template = n.template
        BY <1>2, <3>1
      <3> QED
        BY <1>3, <3>2
    <2> QED
      BY <1>1, <2>1, <2>2
  <1>5. ASSUME NEW p \in Pins(w)
        PROVE  \E e \in Parsed(w).set : FieldOf(e.key) = p.field /\ e.template = p.template
    <2>1. CASE \E e \in texts : p = [field |-> FieldOf(e.key), template |-> e.template]
      BY <1>1, <2>1
    <2>2. CASE \E n \in numbers : p = [field |-> n.key, template |-> n.template]
      <3>1. PICK n \in numbers : p = [field |-> n.key, template |-> n.template]
        BY <2>2
      <3> DEFINE e == [key |-> Decimal[n.key], template |-> n.template]
      <3>2. e \in Parsed(w).set
        BY <1>1
      <3>3. FieldOf(e.key) = p.field /\ e.template = p.template
        BY <1>2, <3>1
      <3> QED
        BY <3>2, <3>3
    <2> QED
      BY <1>3, <2>1, <2>2
  <1> QED
    BY <1>4, <1>5

\* What is pinned is sent: a field that every entry written for it pins to a literal is in
\* every message with the value of one of them, for any specification, whatever the other
\* sources say of the field.
THEOREM SetIsInEveryMessageHolds == ConfigSpec => []SetIsInEveryMessage
  <1>1. MessageInv /\ AcceptedInv => SetIsInEveryMessage
    <2> SUFFICES ASSUME MessageInv, AcceptedInv, stage = "ready" PROVE SetIsInEveryMessage
      BY DEF SetIsInEveryMessage
    <2> DEFINE set == {p \in Pins(written) : p.field > 0}
               of(f) == {p.template : p \in {p \in set : p.field = f}}
    <2>1. ASSUME NEW f, f > 0, \A t \in of(f) : t.macro = "" /\ t.value # <<>>,
                 \E p \in set : p.field = f,
                 NEW i \in DOMAIN log, IsMessage(log[i])
          PROVE  f \in DOMAIN log[i].fields /\ log[i].fields[f] \in {t.value : t \in of(f)}
      <3>1. /\ \A e \in cfg.set : [field |-> FieldOf(e.key), template |-> e.template] \in Pins(written)
            /\ \A p \in Pins(written) : \E e \in cfg.set :
                  FieldOf(e.key) = p.field /\ e.template = p.template
        BY SetIsPins DEF MessageInv, AcceptedInv
      <3>2. PICK ctx \in Contexts :
               \E resolved \in Resolved(cfg.set), defaults \in Resolved(cfg.defaults),
                  templates \in Resolved(TemplatesFor(cfg, log[i].mti)) :
                 /\ \A x \in DOMAIN log[i].fields : \E g \in Gens :
                       log[i].fields[x]
                           = ValueFrom(g, ctx, x, log[i].mti, resolved, templates, defaults).value
                 /\ \A x \in DOMAIN resolved :
                       \/ x \in DOMAIN log[i].fields
                       \/ \E g \in Gens :
                             ValueFrom(g, ctx, x, log[i].mti, resolved, templates, defaults).value = <<>>
        BY <2>1, LoggedMessage
      <3>3. PICK resolved \in Resolved(cfg.set), defaults \in Resolved(cfg.defaults),
                 templates \in Resolved(TemplatesFor(cfg, log[i].mti)) :
               /\ \A x \in DOMAIN log[i].fields : \E g \in Gens :
                     log[i].fields[x]
                         = ValueFrom(g, ctx, x, log[i].mti, resolved, templates, defaults).value
               /\ \A x \in DOMAIN resolved :
                     \/ x \in DOMAIN log[i].fields
                     \/ \E g \in Gens :
                           ValueFrom(g, ctx, x, log[i].mti, resolved, templates, defaults).value = <<>>
        BY <3>2
      <3>4. f \in DOMAIN resolved
        <4>1. PICK e \in cfg.set : FieldOf(e.key) = f
          BY <2>1, <3>1
        <4>2. DOMAIN resolved = {FieldOf(u.key) : u \in {d \in cfg.set : FieldOf(d.key) > 0}}
          BY ResolvedIs
        <4> QED
          BY <2>1, <4>1, <4>2
      <3>5. resolved[f] \in of(f)
        <4>1. PICK e \in cfg.set :
                 FieldOf(e.key) > 0 /\ FieldOf(e.key) = f /\ resolved[f] = e.template
          BY <3>4, ResolvedIs, ZenonT(30)
        <4> DEFINE p == [field |-> FieldOf(e.key), template |-> e.template]
        <4>2. p \in set /\ p.field = f /\ p.template = resolved[f]
          BY <3>1, <4>1
        <4> QED
          BY <4>2
      <3>6. \A g : ValueFrom(g, ctx, f, log[i].mti, resolved, templates, defaults).value
                      = resolved[f].value
        BY <2>1, <3>4, <3>5 DEF ValueFrom, Expand
      <3>7. resolved[f].value # <<>>
        BY <2>1, <3>5
      <3> QED
        BY <3>3, <3>4, <3>5, <3>6, <3>7
    <2> QED
      BY <2>1 DEF SetIsInEveryMessage, IsMessage, Pins
  <1> QED
    BY <1>1, MessageInvHolds, AcceptedInvHolds, PTL

-----------------------------------------------------------------------------
(* The mix, from the list as it is written to the draws of selectMTI *)

\* The weights of a mix that count for a message type.
ShareOf(mix, mti) == [i \in DOMAIN mix |-> IF mix[i].use = mti THEN mix[i].weight ELSE 0]

\* Entries of a mix, of uses that a list names.
Entries(list) == [use : {UseOf(entry) : entry \in Range(list)} \ {0}, weight : Nat \ {0}]

Kept(entry) == WeightIn(entry) > 0 /\ UseOf(entry) # 0

Entry(entry) == [use |-> UseOf(entry), weight |-> WeightIn(entry)]

\* The recursive function of MixOf.
Mixes(h, list) ==
    h = [s \in SUBSET DOMAIN list |->
            IF s = {} THEN <<>>
            ELSE IF Kept(list[Max(s)]) THEN Append(h[s \ {Max(s)}], Entry(list[Max(s)]))
            ELSE h[s \ {Max(s)}]]

LEMMA ShareGrows ==
    ASSUME NEW U, NEW mix \in Seq([use : U, weight : Nat \ {0}]),
           NEW e \in [use : U, weight : Nat \ {0}], NEW mti
    PROVE  /\ SumOf(ShareOf(mix, mti)) \in Int
           /\ SumOf(ShareOf(Append(mix, e), mti))
                = SumOf(ShareOf(mix, mti)) + (IF e.use = mti THEN e.weight ELSE 0)
  <1> DEFINE E == [use : U, weight : Nat \ {0}]
             n == Len(mix)
             next == Append(mix, e)
             shares == ShareOf(next, mti)
  <1>1. n \in Nat /\ DOMAIN mix = 1..n /\ \A i \in 1..n : mix[i] \in E
    BY LenProperties, ElementOfSeq
  <1>2. DOMAIN next = 1..(n + 1) /\ next[n + 1] = e /\ \A i \in 1..n : next[i] = mix[i]
    OBVIOUS
  <1> HIDE DEF n, next
  <1>3. \A i \in 1..(n + 1) : next[i] \in E
    <2>1. e \in E /\ \A i \in 1..(n + 1) : i = n + 1 \/ i \in 1..n
      BY <1>1
    <2> HIDE DEF E
    <2> QED
      BY <1>1, <1>2, <2>1
  <1>4. /\ shares \in [1..(n + 1) -> Int]
        /\ shares[n + 1] = IF e.use = mti THEN e.weight ELSE 0
    BY <1>1, <1>2, <1>3 DEF ShareOf
  <1>5. ShareOf(mix, mti) = [i \in 1..n |-> shares[i]]
    BY <1>1, <1>2 DEF ShareOf
  <1> HIDE DEF shares
  <1>6. LET shorter == [i \in 1..n |-> shares[i]]
        IN SumOf(shorter) \in Int /\ SumOf(shares) = SumOf(shorter) + shares[n + 1]
    BY <1>1, <1>4, SumOfLast
  <1> QED
    BY <1>4, <1>5, <1>6 DEF shares, next

\* MixOf takes the list from the first entry on, as Init does.
LEMMA MixSteps ==
    ASSUME NEW list, list \in Seq(Range(list)), \A entry \in Range(list) : WeightIn(entry) \in Int
    PROVE  \E mixes \in [0..Len(list) -> Seq(Entries(list))] :
              /\ mixes[0] = <<>> /\ MixOf(list) = mixes[Len(list)]
              /\ \A i \in 1..Len(list) :
                    mixes[i] = IF Kept(list[i]) THEN Append(mixes[i - 1], Entry(list[i]))
                               ELSE mixes[i - 1]
  <1> DEFINE n == Len(list)
             A == Seq(Entries(list))
             D == DOMAIN list
             add(mix, entry) == IF Kept(entry) THEN Append(mix, Entry(entry)) ELSE mix
             step == [p \in A \X D |-> add(p[1], list[p[2]])]
             h == CHOOSE h : Mixes(h, list)
             mixes == [i \in 0..n |-> h[1..i]]
  <1>1. n \in Nat /\ D = 1..n /\ \A i \in D : list[i] \in Range(list)
    BY LenProperties, ElementOfSeq
  <1>2. D \in SUBSET Int /\ IsFiniteSet(D)
    BY <1>1, FS_Interval
  <1>3. ASSUME NEW mix \in A, NEW i \in D PROVE add(mix, list[i]) \in A
    <2>1. CASE Kept(list[i])
      <3>1. Entry(list[i]) \in Entries(list)
        BY <1>1, <2>1 DEF Kept, Entry, Entries
      <3> QED
        BY <2>1, <3>1, AppendProperties
    <2> QED
      BY <2>1
  <1>4. <<>> \in A
    OBVIOUS
  <1> HIDE DEF A, D, n, add
  <1>5. step \in [A \X D -> A]
    BY <1>3
  <1>6. PICK k \in [SUBSET D -> A] : Folds(k, D, <<>>, step)
    <2> HIDE DEF step
    <2> QED
      BY <1>2, <1>4, <1>5, FoldExists, Zenon
  <1>7. ASSUME NEW s \in SUBSET D
        PROVE  k[s] = IF s = {} THEN <<>> ELSE add(k[s \ {Max(s)}], list[Max(s)])
    <2>1. CASE s # {}
      <3>1. Max(s) \in D
        BY <1>2, <2>1, FS_Subset, FiniteMax
      <3>2. k[s] = step[<<k[s \ {Max(s)}], Max(s)>>]
        BY <1>6, <2>1 DEF Folds
      <3>3. k[s \ {Max(s)}] \in A
        OBVIOUS
      <3> QED
        BY <2>1, <3>1, <3>2, <3>3
    <2> QED
      BY <1>6, <2>1 DEF Folds
  <1>8. Mixes(h, list)
    <2>1. k = [s \in SUBSET D |-> k[s]]
      OBVIOUS
    <2>2. Mixes(k, list)
      BY <1>7, <2>1 DEF Mixes, add, D
    <2> QED
      BY <2>2
  <1>9. MixOf(list) = h[D]
    BY DEF MixOf, FoldLeft, MapThenFoldSet, Max, Mixes, Kept, Entry, D
  <1> HIDE DEF h
  <1>10. \A s \in SUBSET D : h[s] = IF s = {} THEN <<>> ELSE add(h[s \ {Max(s)}], list[Max(s)])
    BY <1>8 DEF Mixes, add, D
  <1>11. mixes[0] = <<>>
    <2>1. 1..0 = {} /\ 0 \in 0..n
      BY <1>1
    <2> QED
      BY <1>10, <2>1
  <1>12. ASSUME NEW i \in 1..n PROVE mixes[i] = add(mixes[i - 1], list[i])
    <2>1. i \in Nat \ {0} /\ i - 1 \in 0..n /\ i \in 0..n /\ 1..i \subseteq 1..n /\ i \in 1..i
      BY <1>1
    <2>2. Max(1..i) = i /\ (1..i) \ {i} = 1..(i - 1)
      BY <2>1, MaxOfInterval
    <2>3. h[1..i] = add(h[1..(i - 1)], list[i])
      BY <1>1, <1>10, <2>1, <2>2
    <2> QED
      BY <2>1, <2>3
  <1>13. MixOf(list) = mixes[n]
    BY <1>1, <1>9
  <1>14. mixes = [i \in 0..n |-> mixes[i]]
    OBVIOUS
  <1> HIDE DEF mixes
  <1>15. \A i \in 0..n : mixes[i] \in A
    <2> DEFINE T == {i \in 0..n : mixes[i] \in A}
    <2>1. 0 \in T
      BY <1>1, <1>4, <1>11
    <2>2. ASSUME NEW i \in 1..n, i - 1 \in T PROVE i \in T
      BY <1>1, <1>3, <1>12, <2>2
    <2> HIDE DEF T
    <2>3. \A i \in 0..n : i \in T
      BY <1>1, <2>1, <2>2, UpTo
    <2> QED
      BY <2>3 DEF T
  <1>16. mixes \in [0..n -> A]
    BY <1>14, <1>15
  <1> QED
    BY <1>11, <1>12, <1>13, <1>16 DEF n, A, add

\* A message type weighs in the mix what is written for it.
LEMMA MixKeepsWeights ==
    ASSUME NEW list, list \in Seq(Range(list)), \A entry \in Range(list) : WeightIn(entry) \in Int,
           NEW mti, mti # 0
    PROVE  /\ MixOf(list) \in Seq(Entries(list))
           /\ SumOf(ShareOf(MixOf(list), mti))
                = SumOf([i \in DOMAIN list |->
                            IF WeightIn(list[i]) > 0 /\ UseOf(list[i]) = mti
                            THEN WeightIn(list[i]) ELSE 0])
  <1> DEFINE n == Len(list)
             given == [i \in DOMAIN list |->
                            IF WeightIn(list[i]) > 0 /\ UseOf(list[i]) = mti
                            THEN WeightIn(list[i]) ELSE 0]
  <1>1. n \in Nat /\ DOMAIN list = 1..n /\ \A i \in 1..n : list[i] \in Range(list)
    BY LenProperties, ElementOfSeq
  <1>2. PICK mixes \in [0..n -> Seq(Entries(list))] :
            /\ mixes[0] = <<>> /\ MixOf(list) = mixes[n]
            /\ \A i \in 1..n : mixes[i] = IF Kept(list[i]) THEN Append(mixes[i - 1], Entry(list[i]))
                                         ELSE mixes[i - 1]
    BY MixSteps
  <1> HIDE DEF n
  <1>3. given \in [1..n -> Int] /\ \A i \in 1..n : given[i] =
            IF WeightIn(list[i]) > 0 /\ UseOf(list[i]) = mti THEN WeightIn(list[i]) ELSE 0
    BY <1>1
  <1> HIDE DEF given
  <1>4. PICK sums \in [0..n -> Int] :
            /\ sums[0] = 0 /\ \A i \in 1..n : sums[i] = sums[i - 1] + given[i]
            /\ SumOf(given) = sums[n]
    BY <1>1, <1>3, SumSteps
  <1> DEFINE share(i) == SumOf(ShareOf(mixes[i], mti))
             T == {i \in 0..n : share(i) = sums[i]}
  <1>5. 0 \in T
    <2>1. ShareOf(mixes[0], mti) \in [1..0 -> Int]
      BY <1>2 DEF ShareOf
    <2>2. PICK none \in [0..0 -> Int] : none[0] = 0 /\ SumOf(ShareOf(mixes[0], mti)) = none[0]
      <3>1. 0 \in Nat
        OBVIOUS
      <3> QED
        BY <2>1, <3>1, SumSteps
    <2> QED
      BY <1>1, <1>4, <2>2
  <1>6. ASSUME NEW i \in 1..n, i - 1 \in T PROVE i \in T
    <2>1. /\ share(i - 1) = sums[i - 1] /\ sums[i] = sums[i - 1] + given[i]
          /\ mixes[i - 1] \in Seq(Entries(list)) /\ i \in 0..n /\ sums[i - 1] \in Int
      BY <1>1, <1>4, <1>6
    <2>2. CASE Kept(list[i])
      <3>1. Entry(list[i]) \in Entries(list)
        BY <1>1, <2>2 DEF Kept, Entry, Entries
      <3>2. mixes[i] = Append(mixes[i - 1], Entry(list[i]))
        BY <1>2, <2>2
      <3>3. SumOf(ShareOf(Append(mixes[i - 1], Entry(list[i])), mti))
              = share(i - 1) + (IF Entry(list[i]).use = mti THEN Entry(list[i]).weight ELSE 0)
        <4> DEFINE U == {UseOf(entry) : entry \in Range(list)} \ {0}
        <4>1. Entries(list) = [use : U, weight : Nat \ {0}]
          BY DEF Entries
        <4> HIDE DEF U
        <4> QED
          BY <2>1, <3>1, <4>1, ShareGrows
      <3>4. given[i] = IF Entry(list[i]).use = mti THEN Entry(list[i]).weight ELSE 0
        BY <1>3, <2>2 DEF Kept, Entry
      <3> QED
        BY <2>1, <3>2, <3>3, <3>4
    <2>3. CASE ~Kept(list[i])
      <3>1. mixes[i] = mixes[i - 1]
        BY <1>2, <2>3
      <3>2. given[i] = 0
        BY <1>3, <2>3 DEF Kept
      <3> QED
        BY <2>1, <3>1, <3>2
    <2> QED
      BY <2>2, <2>3
  <1>7. share(n) = sums[n]
    <2> HIDE DEF T
    <2>1. \A i \in 0..n : i \in T
      BY <1>1, <1>5, <1>6, UpTo
    <2> QED
      BY <1>1, <2>1 DEF T
  <1> QED
    BY <1>1, <1>2, <1>4, <1>7 DEF given

\* A message type is selected as often as it weighs.
LEMMA SelectedByWeight ==
    ASSUME NEW c, NEW U, c.mix \in Seq([use : U, weight : Nat \ {0}]), c.mix # <<>>, NEW mti
    PROVE  Cardinality({r \in 0..(SumOf(WeightsOf(c.mix)) - 1) : SelectMTI(c, r) = mti})
               = SumOf(ShareOf(c.mix, mti))
  <1> DEFINE n == Len(c.mix)
             weights == WeightsOf(c.mix)
             places == {i \in 1..n : c.mix[i].use = mti}
             draws == 0..(SumOf(weights) - 1)
  <1>1. n \in Nat /\ DOMAIN c.mix = 1..n /\ \A i \in 1..n : c.mix[i] \in [use : U, weight : Nat \ {0}]
    BY LenProperties, ElementOfSeq
  <1> HIDE DEF n
  <1>2. weights \in [1..n -> Nat \ {0}] /\ \A i \in 1..n : weights[i] = c.mix[i].weight
    BY <1>1 DEF WeightsOf
  <1>3. CountedAt(weights, places) = ShareOf(c.mix, mti)
    BY <1>1, <1>2 DEF CountedAt, ShareOf
  <1> HIDE DEF weights, places
  <1>4. /\ \A r \in draws : PlaceOf(weights, r) \in 1..n
        /\ Cardinality({r \in draws : PlaceOf(weights, r) \in places}) = SumOf(CountedAt(weights, places))
    BY <1>1, <1>2, DrawsFollowWeights
  <1>5. ASSUME NEW r \in draws
        PROVE  SelectMTI(c, r) = mti <=> PlaceOf(weights, r) \in places
    <2>1. SumOf(weights) # 0
      <3>1. SumOf(weights) \in Int
        <4>1. weights \in [1..n -> Int]
          BY <1>2
        <4>2. PICK sums \in [0..n -> Int] : SumOf(weights) = sums[n]
          BY <1>1, <4>1, SumSteps
        <4> QED
          BY <1>1, <4>2
      <3> QED
        BY <3>1
    <2>2. SelectMTI(c, r) = c.mix[PlaceOf(weights, r)].use
      BY <2>1 DEF SelectMTI, Mix, weights
    <2> QED
      BY <1>4, <2>2 DEF places
  <1>6. {r \in draws : SelectMTI(c, r) = mti} = {r \in draws : PlaceOf(weights, r) \in places}
    BY <1>5
  <1> QED
    BY <1>3, <1>4, <1>6 DEF weights

\* The mix is followed as it is written, however long it is and whatever else is in the
\* list: of the draws selectMTI may make, as many select a message type as all its usable
\* entries weigh together, the first and the last of the draws included.
THEOREM WrittenMixIsFollowedHolds == ConfigSpec => []WrittenMixIsFollowed
  <1>1. MessageInv /\ AcceptedInv => WrittenMixIsFollowed
    <2> DEFINE list == Read(written, "mix", "list", <<>>)
               share(mti) == [i \in DOMAIN list |->
                                 IF WeightIn(list[i]) > 0 /\ UseOf(list[i]) = mti
                                 THEN WeightIn(list[i]) ELSE 0]
    <2> SUFFICES ASSUME MessageInv, AcceptedInv, stage = "ready", cfg.mix # <<>>,
                        NEW e \in Range(cfg.mix)
                 PROVE  Cardinality({r \in 0..(SumOf(WeightsOf(cfg.mix)) - 1) :
                                        SelectMTI(cfg, r) = e.use})
                            = SumOf([i \in DOMAIN list |->
                                        IF i \in {j \in DOMAIN list :
                                                     WeightIn(list[j]) > 0 /\ UseOf(list[j]) = e.use}
                                        THEN WeightIn(list[i]) ELSE 0])
      BY DEF WrittenMixIsFollowed
    <2>1. list \in Seq(Range(list)) /\ \A entry \in Range(list) : WeightIn(entry) \in Int
      BY WrittenAssumption DEF MessageInv
    <2>2. cfg.mix = MixOf(list)
      <3>1. Parsed(written).mix = MixOf(list)
        BY DEF Parsed, DefaultConfig
      <3> QED
        BY <3>1 DEF AcceptedInv
    <2>3. [i \in DOMAIN list |->
              IF i \in {j \in DOMAIN list : WeightIn(list[j]) > 0 /\ UseOf(list[j]) = e.use}
              THEN WeightIn(list[i]) ELSE 0] = share(e.use)
      OBVIOUS
    <2> HIDE DEF list
    <2>4. MixOf(list) \in Seq(Entries(list))
      <3>1. 1 # 0
        OBVIOUS
      <3> QED
        BY <2>1, <3>1, MixKeepsWeights
    <2>5. e \in Entries(list)
      BY <2>2, <2>4, LenProperties, ElementOfSeq DEF Range
    <2>6. e.use # 0
      BY <2>5 DEF Entries
    <2>7. SumOf(ShareOf(cfg.mix, e.use)) = SumOf(share(e.use))
      BY <2>1, <2>2, <2>6, MixKeepsWeights
    <2>8. Cardinality({r \in 0..(SumOf(WeightsOf(cfg.mix)) - 1) : SelectMTI(cfg, r) = e.use})
              = SumOf(ShareOf(cfg.mix, e.use))
      BY <2>2, <2>4, SelectedByWeight DEF Entries
    <2> QED
      BY <2>3, <2>7, <2>8
  <1> QED
    BY <1>1, MessageInvHolds, AcceptedInvHolds, PTL

-----------------------------------------------------------------------------
(* The numbers of $STAN. The counter holds how many messages of the log have      *)
(* field 11, and each of them shows what it was then.                             *)

\* The messages with field 11 among the first n.
Having(l, n) == {i \in 1..n : STANField \in DOMAIN l[i].fields}

Counts(g, l) ==
    /\ g.stan = Cardinality(Having(l, Len(l)))
    /\ \A i \in Having(l, Len(l)) :
           l[i].fields[STANField] = <<Cardinality(Having(l, i)) % Modulus>>

STANInv ==
    stage = "ready" /\ STANsAreNumbered(cfg) /\ HasSTAN(cfg) /\ nMessages < WordSize =>
        Counts(gen, log)

LEMMA HavingType ==
    ASSUME NEW l, NEW n \in Nat
    PROVE  /\ IsFiniteSet(Having(l, n)) /\ Cardinality(Having(l, n)) \in Nat
           /\ Cardinality(Having(l, n)) <= n
  <1>1. IsFiniteSet(1..n) /\ Cardinality(1..n) = n
    BY FS_Interval
  <1>2. Having(l, n) \in SUBSET (1..n)
    BY DEF Having
  <1> QED
    BY <1>1, <1>2, FS_Subset, FS_CardinalityType

LEMMA NoneCounted == ASSUME NEW g, g.stan = 0 PROVE Counts(g, <<>>)
  <1>1. Having(<<>>, 0) = {}
    <2>1. 1..0 = {}
      OBVIOUS
    <2> QED
      BY <2>1 DEF Having
  <1>2. Cardinality(Having(<<>>, 0)) = 0
    BY <1>1, FS_EmptySet
  <1>3. Len(<<>>) = 0
    OBVIOUS
  <1> QED
    BY <1>1, <1>2, <1>3 DEF Counts

\* The next message, with the next number or without one.
LEMMA CountsNext ==
    ASSUME NEW S, NEW l \in Seq(S), NEW g \in Gens, NEW m, Counts(g, l), Len(l) + 1 < WordSize,
           IF STANField \in DOMAIN m.fields
           THEN m.then.stan = NextSTAN(g) /\ m.fields[STANField] = <<NextSTAN(g) % Modulus>>
           ELSE m.then.stan = g.stan
    PROVE  Counts(m.then, Append(l, m))
  <1> DEFINE n    == Len(l)
             next == Append(l, m)
             has  == STANField \in DOMAIN m.fields
  <1>1. n \in Nat /\ n + 1 < WordSize
    BY LenProperties
  <1>2. /\ Len(next) = n + 1 /\ next[n + 1] = m
        /\ \A i \in 1..n : next[i] = l[i]
    <2>1. l \in Seq(S \union {m}) /\ m \in S \union {m}
      OBVIOUS
    <2> QED
      BY <2>1, AppendProperties
  <1>3. /\ g.stan = Cardinality(Having(l, n))
        /\ \A i \in Having(l, n) :
              l[i].fields[STANField] = <<Cardinality(Having(l, i)) % Modulus>>
    BY DEF Counts
  <1> HIDE DEF n, next, has
  <1>4. \A k \in 0..n : Having(next, k) = Having(l, k)
    BY <1>1, <1>2 DEF Having
  <1>5. Having(next, n + 1) = IF has THEN Having(l, n) \union {n + 1} ELSE Having(l, n)
    <2>1. 1..(n + 1) = 1..n \union {n + 1}
      BY <1>1
    <2> QED
      BY <1>1, <1>2, <2>1 DEF Having, has
  <1>6. /\ IsFiniteSet(Having(l, n)) /\ Cardinality(Having(l, n)) \in Nat
        /\ Cardinality(Having(l, n)) <= n
    BY <1>1, HavingType
  <1>7. Cardinality(Having(next, n + 1))
            = IF has THEN Cardinality(Having(l, n)) + 1 ELSE Cardinality(Having(l, n))
    <2>1. n + 1 \notin Having(l, n)
      BY <1>1 DEF Having
    <2> QED
      BY <1>5, <1>6, <2>1, FS_AddElement
  <1>8. NextSTAN(g) = Cardinality(Having(l, n)) + 1
    <2> DEFINE c == Cardinality(Having(l, n)) + 1
    <2>1. g.stan + 1 = c /\ c \in Nat /\ c < WordSize
      BY <1>1, <1>3, <1>6, WrapAssumption
    <2> HIDE DEF c
    <2>2. c % WordSize = c
      BY <2>1, WrapAssumption
    <2> QED
      BY <2>1, <2>2 DEF NextSTAN, c
  <1>9. m.then.stan = Cardinality(Having(next, n + 1))
    BY <1>3, <1>7, <1>8 DEF has
  <1>10. ASSUME NEW i \in Having(next, n + 1)
         PROVE  next[i].fields[STANField] = <<Cardinality(Having(next, i)) % Modulus>>
    <2>1. CASE i = n + 1
      <3>1. has
        BY <1>2, <1>10, <2>1 DEF Having, has
      <3>2. m.fields[STANField] = <<Cardinality(Having(next, n + 1)) % Modulus>>
        BY <1>7, <1>8, <3>1 DEF has
      <3> QED
        BY <1>2, <2>1, <3>2
    <2>2. CASE i # n + 1
      <3>1. i \in Having(l, n) /\ i \in 1..n
        BY <1>5, <1>10, <2>2 DEF Having
      <3>2. next[i] = l[i] /\ Having(next, i) = Having(l, i)
        BY <1>2, <1>4, <3>1
      <3> QED
        BY <1>3, <3>1, <3>2
    <2> QED
      BY <2>1, <2>2
  <1>11. Counts(m.then, next)
    BY <1>2, <1>9, <1>10 DEF Counts
  <1> QED
    BY <1>11 DEF next

LEMMA STANInvKept == MessageInv /\ STANInv /\ [ConfigNext]_configVars => STANInv'
  <1> SUFFICES ASSUME MessageInv, STANInv, [ConfigNext]_configVars,
                      stage' = "ready", STANsAreNumbered(cfg'), HasSTAN(cfg'),
                      nMessages' < WordSize
               PROVE  Counts(gen', log')
    <2>1. (STANsAreNumbered(cfg)' <=> STANsAreNumbered(cfg')) /\ (HasSTAN(cfg)' <=> HasSTAN(cfg'))
      BY DEF STANsAreNumbered, HasSTAN
    <2>2. Counts(gen, log)' <=> Counts(gen', log')
      BY DEF Counts
    <2> QED
      BY <2>1, <2>2 DEF STANInv
  <1>1. CASE InitGear
    <2>1. log' = <<>> /\ gen'.stan = 0
      BY <1>1 DEF InitGear, MessageInv, NewGen
    <2> QED
      BY <2>1, NoneCounted
  <1>2. CASE Generating
    <2>1. stage = "ready" /\ cfg' = cfg
      BY <1>2 DEF Generating, Next, Generate, ResetCounters, Reseed, MonthPasses
    <2>2. CASE Generate
      <3>1. PICK m \in Outcomes(Context, gen) : gen' = m.then /\ log' = Append(log, m)
        BY <2>2 DEF Generate
      <3>2. Context \in Contexts /\ Context.cfg = cfg /\ gen \in Gens
        <4>1. Now(cfg, seed, clock) \in Nat
          BY <2>1, NowType DEF MessageInv
        <4> QED
          BY <2>1, <4>1 DEF MessageInv, Context, Contexts
      <3>3. PICK S : log \in Seq(S)
        BY <2>1 DEF MessageInv
      <3>4. nMessages \in Nat /\ nMessages' = nMessages + 1 /\ Len(log) <= nMessages /\ Len(log) \in Nat
        BY <2>1, <2>2, <3>3, BoundsAssumption DEF Generate, MessageInv
      <3>5. nMessages < WordSize /\ Len(log) + 1 < WordSize
        BY <3>4, WrapAssumption
      <3>6. Counts(gen, log)
        BY <2>1, <3>5 DEF STANInv
      <3>7. IF STANField \in DOMAIN m.fields
            THEN m.then.stan = NextSTAN(gen) /\ m.fields[STANField] = <<NextSTAN(gen) % Modulus>>
            ELSE m.then.stan = gen.stan
        BY <2>1, <3>1, <3>2, OutcomeNumbers
      <3> QED
        BY <3>1, <3>2, <3>3, <3>5, <3>6, <3>7, CountsNext
    <2>3. CASE ResetCounters \/ Reseed
      <3>1. log' = <<>> /\ gen'.stan = 0
        BY <2>3 DEF ResetCounters, Reseed, Forget, Fresh, NewGen
      <3> QED
        BY <3>1, NoneCounted
    <2>4. CASE MonthPasses
      BY <2>1, <2>4 DEF MonthPasses, STANInv
    <2> QED
      BY <1>2, <2>2, <2>3, <2>4 DEF Generating, Next
  <1>3. CASE UNCHANGED configVars
    BY <1>3 DEF configVars, vars, STANInv
  <1> QED
    BY <1>1, <1>2, <1>3 DEF ConfigNext

\* Where the configuration numbers field 11 by $STAN, and nothing else, the numbers run on
\* by one from each message that has the field to the next, since the last reset, and wrap:
\* Generate draws none for a value that is then replaced, or for a message that it does not
\* give. So it is until the word of the counter wraps too, which it need not do at a
\* multiple of Modulus; and a field that two rules give to one message type takes two.
THEOREM STANsRunOnHolds ==
    ConfigSpec => [](stage = "ready" /\ STANsAreNumbered(cfg) /\ nMessages < WordSize => STANsRunOn)
  <1>1. ConfigInit => STANInv
    BY DEF ConfigInit, STANInv
  <1>2. MessageInv /\ STANInv =>
            (stage = "ready" /\ STANsAreNumbered(cfg) /\ nMessages < WordSize => STANsRunOn)
    <2> DEFINE numbered == {e \in cfg.set \union cfg.defaults : e.template.macro = "STAN"}
    <2> SUFFICES ASSUME STANInv, stage = "ready", STANsAreNumbered(cfg), nMessages < WordSize,
                        numbered # {}, \A e \in numbered : FieldOf(e.key) = STANField
                 PROVE  \A i \in Having(log, Len(log)) :
                            log[i].fields[STANField] = <<Cardinality(Having(log, i)) % Modulus>>
      BY DEF STANsRunOn, Having
    <2>1. HasSTAN(cfg)
      BY DEF HasSTAN
    <2> QED
      BY <2>1 DEF STANInv, Counts
  <1> QED
    BY <1>1, <1>2, STANInvKept, MessageInvHolds, PTL DEF ConfigSpec
=============================================================================
