---------------------------- MODULE SourceConfig ----------------------------
(***************************************************************************)
(* Gear.Init of sim_source (pkg/gears/sim_source/gear.go), what it makes   *)
(* of a configuration or why it refuses one, and the generator that runs   *)
(* on the result.                                                          *)
(***************************************************************************)
EXTENDS Generator, GearConfig

CONSTANTS
    Written,        \* the configurations a scenario may have, as they are decoded
    MaxTPS          \* maxTPS

VARIABLES
    written,    \* ctx.Config()
    stage       \* "made", then "ready" or "refused" by Init

configVars == <<written, stage, vars>>

-----------------------------------------------------------------------------
(* Reading *)

\* The kinds of number that each value may have: numVal, the seed, a weight.
NumVal        == {"float64", "float32", "int", "int32", "int64", "uint64"}
SeedNumbers   == {"float64", "int64", "int"}
WeightNumbers == {"float64", "int"}

DefaultConfig ==
    [spec |-> "", seed |-> 0, trigger |-> "on_load", schedule |-> "", timezone |-> "",
     deterministicClock |-> FALSE, expiryMonths |-> 24, expiredPercent |-> 0,
     rate |-> [shape |-> "constant", tps |-> 1000, from |-> 0, to |-> 0, over |-> "",
               duration |-> "60s"],
     mix |-> <<>>, defaults |-> {}, templates |-> NoMap, set |-> {}]

\* The rate, in tenths of a message a second.
RateOf(m) ==
    LET default == DefaultConfig.rate IN
    [key \in {"shape", "over", "duration"} |-> Read(m, key, "text", default[key])]
    @@ [key \in {"tps", "from", "to"} |-> Number(m, key, NumVal, default[key])]

\* An entry of the mix, and its weight; what is no map has none.
UseOf(entry)    == Read(entry.map, "use", "text", 0)
WeightIn(entry) ==
    IF "map" \in DOMAIN entry THEN Whole(Number(entry.map, "weight", WeightNumbers, 0)) ELSE 0

\* The mix: what is not an entry, has no message type or no positive weight is dropped.
MixOf(list) ==
    FoldLeft(LAMBDA mix, entry :
                IF WeightIn(entry) > 0 /\ UseOf(entry) # 0
                THEN Append(mix, [use |-> UseOf(entry), weight |-> WeightIn(entry)]) ELSE mix,
             <<>>, list)

\* templates: only a map[string]any, of maps that are map[string]any.
TemplatesOf(w) ==
    LET all == Read(w, "templates", "map", NoMap)
    IN [mti \in {m \in DOMAIN all : "map" \in DOMAIN all[m]} |-> all[mti].map]

SeedOf(w) == Whole(Number(w, "seed", SeedNumbers, 0))

\* What Init reads, over DefaultConfig.
Parsed(w) ==
    LET whole(key, default) == Whole(Number(w, key, NumVal, 10 * default)) IN
    [DefaultConfig EXCEPT
        !.spec     = Read(w, "spec", "text", @),
        !.seed     = SeedOf(w),
        !.trigger  = Read(w, "trigger", "text", @),
        !.schedule = Read(w, "schedule", "text", @),
        !.timezone = Read(w, "timezone", "text", @),
        !.deterministicClock = Read(w, "deterministic_clock", "bool", @),
        !.expiryMonths   = whole("expiry_months", @),
        !.expiredPercent = whole("expired_percent", @),
        !.rate      = RateOf(Read(w, "rate", "map", NoMap)),
        !.mix       = MixOf(Read(w, "mix", "list", <<>>)),
        !.defaults  = Read(w, "defaults", "map", @),
        !.templates = TemplatesOf(w),
        !.set       = StringMap(w, "set")]

-----------------------------------------------------------------------------
(* Checking *)

\* runDuration
ValidDuration(text) == text = "" \/ (text \in DOMAIN Durations /\ Durations[text] >= 0)

\* validateShape
ValidShape(shape) == shape \in {"", "constant", "ramp"}

\* validRate
ValidRate(tenths) == tenths \in 0..(10 * MaxTPS)

\* HasValueSource
HasValueSource(c) ==
    \/ DOMAIN SimDefaults # {} \/ DOMAIN SimTemplates # {}
    \/ c.defaults # {} \/ DOMAIN c.templates # {} \/ c.set # {}

KnownMacros == {"PAN", "STAN", "RRN", "SEQ", "RAND", "UUID", "NOW", "ENUM", "INVALID", "AUTH"}

\* validateFieldMap. A subfield's alias is refused, although resolveFieldKey knows it.
ValidateFieldMap(entries) ==
    \A e \in entries :
        /\ IF e.key \in DOMAIN Numeral THEN Numeral[e.key] > 0 ELSE e.key \in DOMAIN Alias
        /\ e.template.macro # "" => e.template.macro \in KnownMacros /\ ValidateArgs(e.template)

\* Variant for a mutant: the templates are not looked at.
ValidateNoTemplates(c) == ValidateFieldMap(c.defaults) /\ ValidateFieldMap(c.set)

\* Generator.Validate
Validate(c) ==
    /\ ValidateFieldMap(c.defaults) /\ ValidateFieldMap(c.set)
    /\ \A mti \in DOMAIN c.templates : ValidateFieldMap(c.templates[mti])

\* What Init refuses nothing of. The trigger is left to Start.
Accepted(w) ==
    LET c == Parsed(w) IN
    /\ c.spec # "" /\ c.seed # 0
    /\ ValidDuration(c.rate.duration) /\ ValidShape(c.rate.shape)
    /\ ValidRate(c.rate.tps) /\ ValidRate(c.rate.from) /\ ValidRate(c.rate.to)
    /\ KnownZone(c.timezone)
    /\ c.expiryMonths >= 0 /\ c.expiredPercent \in 0..100
    /\ SpecLoads(c.spec)
    /\ HasValueSource(c) /\ Validate(c)

\* Configs and Seeds hold what Init makes of those that it accepts, and Decimal the
\* numbers they have for keys; the weights they have are numbers.
ASSUME WrittenAssumption == \A name \in DOMAIN Written :
    /\ Accepted(Written[name]) => /\ Parsed(Written[name]) \in Configs
                                  /\ SeedOf(Written[name]) \in Seeds
    /\ \A key \in {"defaults", "set"} :
           \A e \in Read(Written[name], key, "anymap", {}) : e.key \in DOMAIN Decimal
    /\ LET list == Read(Written[name], "mix", "list", <<>>)
       IN list \in Seq(Range(list)) /\ \A entry \in Range(list) : WeightIn(entry) \in Int

-----------------------------------------------------------------------------
ConfigInit ==
    /\ \E name \in DOMAIN Written : written = Written[name]
    /\ stage = "made"
    /\ cfg = DefaultConfig /\ seed = 0
    /\ gen = NewGen /\ clock = 0
    /\ nMessages = 0 /\ nResets = 0
    /\ log = <<>> /\ past = {}

\* Gear.Init. What was read stays in a gear that is refused, which has no generator.
InitGear ==
    /\ stage = "made"
    /\ cfg' = Parsed(written) /\ seed' = cfg'.seed
    /\ gen' = NewGen
    /\ stage' = IF Accepted(written) THEN "ready" ELSE "refused"
    /\ UNCHANGED <<written, clock, nMessages, nResets, log, past>>

Generating == stage = "ready" /\ Next /\ UNCHANGED <<written, stage>>

ConfigNext == InitGear \/ Generating

ConfigSpec == ConfigInit /\ [][ConfigNext]_configVars

-----------------------------------------------------------------------------
(* Properties *)

ConfigTypeOK ==
    /\ stage \in {"made", "ready", "refused"}
    /\ stage = "ready" => TypeOK
    /\ stage # "ready" => log = <<>>

\* What Init accepts is used and not dropped or sent as it is written: every
\* override, wherever it is written, names a field to the generator too, and
\* every macro is one that the generator expands. The alias a specification may give
\* to field 0, the message type, is accepted and dropped.
AcceptedOverridesResolve ==
    stage = "ready" =>
        \A e \in OverridesOf(cfg) :
            /\ FieldOf(e.key) > 0 \/ (e.key \in DOMAIN Alias /\ Alias[e.key] = 0)
            /\ e.template.macro \in KnownMacros \union {""}

\* A value that the configuration pins under "set", by number or by alias and
\* whichever map the number makes of it, is in every message, in fields that no
\* rule names as well, and over every other source. Two entries may pin one field.
SetIsInEveryMessage ==
    stage = "ready" =>
        LET numbers == {[field |-> e.key, template |-> e.template] :
                            e \in Read(written, "set", "anymap", {})}
            texts   == {[field |-> FieldOf(e.key), template |-> e.template] :
                            e \in Read(written, "set", "map", {})}
            set     == {e \in numbers \union texts : e.field > 0}
            of(f)   == {e.template : e \in {e \in set : e.field = f}}
            pinned  == {f \in {e.field : e \in set} :
                            \A t \in of(f) : t.macro = "" /\ t.value # <<>>}
            sent    == {i \in DOMAIN log : log[i].mti # 0 /\ ~IsResponse(log[i].mti)}
        IN \A f \in pinned : \A i \in sent :
               /\ f \in DOMAIN log[i].fields
               /\ log[i].fields[f] \in {t.value : t \in of(f)}

\* Of the draws selectMTI may make, as many select a message type as the weights
\* written for it, the entries that are no use for a mix left out.
WrittenMixIsFollowed ==
    stage = "ready" /\ cfg.mix # <<>> =>
        LET list   == Read(written, "mix", "list", <<>>)
            of(mti) == {i \in DOMAIN list : WeightIn(list[i]) > 0 /\ UseOf(list[i]) = mti}
        IN \A mti \in {e.use : e \in Range(cfg.mix)} :
               Cardinality({r \in 0..(SumOf(WeightsOf(cfg.mix)) - 1) : SelectMTI(cfg, r) = mti})
                   = SumOf([i \in DOMAIN list |-> IF i \in of(mti) THEN WeightIn(list[i]) ELSE 0])

\* What the configuration writes under "defaults" and "templates" is what the
\* generator uses.
WrittenOverridesTakeEffect ==
    stage = "ready" =>
        /\ StringMap(written, "defaults") \subseteq cfg.defaults
        /\ Given(written, "templates", "anymap") => DOMAIN cfg.templates # {}
=============================================================================
