--------------------------- MODULE ResponderConfig --------------------------
(***************************************************************************)
(* Gear.Init of sim_responder (pkg/gears/sim_responder/gear.go), what it   *)
(* makes of a configuration or why it refuses one, and the gear that runs  *)
(* on the result.                                                          *)
(***************************************************************************)
EXTENDS SimResponder

CONSTANT
    Written         \* the configurations a scenario may have, as they are decoded

VARIABLES
    written,    \* the name of the configuration the gear is given
    stage       \* "made", then "ready" or "refused" by Init

configVars == <<written, stage, vars>>

\* ctx.Config()
Config == Written[written]

-----------------------------------------------------------------------------
(* Reading *)

Approved == [macro |-> "", name |-> "", start |-> 1, nArgs |-> 0, numeric |-> TRUE, value |-> 0]

DefaultConfig ==
    [spec |-> "", trigger |-> "on_load", delay |-> "50ms", timezone |-> "", seed |-> 0,
     deterministicClock |-> FALSE,
     default |-> {[key |-> "39", template |-> Approved]}, rules |-> <<>>]

SeedNumbers == {"float64", "int64", "int"}

\* Over the default, whichever map the numbers among its keys make of it; an empty one
\* leaves the default's.
DefaultOf(w) ==
    IF StringMap(w, "default") = {} THEN DefaultConfig.default ELSE StringMap(w, "default")

Rule(m) ==
    [name |-> Read(m, "name", "text", ""), when |-> Read(m, "when", "text", ""),
     set  |-> StringMap(m, "set"), delay |-> Read(m, "delay", "text", "")]

\* Variant for a mutant: a rule without a set is dropped.
RulesOfComplete(list) ==
    LET complete == SelectSeq(list, LAMBDA r : "map" \in DOMAIN r => Rule(r.map).set # {})
    IN [i \in DOMAIN complete |-> Rule(complete[i].map)]

\* The rules, in order; an incomplete one is kept, and Validate refuses it.
RulesOf(list) == [i \in DOMAIN list |-> Rule(list[i].map)]

\* What Init reads, over DefaultConfig.
Parsed(w) ==
    [DefaultConfig EXCEPT
        !.spec     = Read(w, "spec", "text", @),
        !.trigger  = Read(w, "trigger", "text", @),
        !.delay    = Read(w, "delay", "text", @),
        !.timezone = Read(w, "timezone", "text", @),
        !.seed     = Whole(Number(w, "seed", SeedNumbers, 0)),
        !.deterministicClock = Read(w, "deterministic_clock", "bool", @),
        !.default  = DefaultOf(w),
        !.rules    = RulesOf(Read(w, "rules", "list", <<>>))]

-----------------------------------------------------------------------------
(* Checking *)

KnownMacros == {"AUTH", "RRN", "STAN", "SEQ", "RAND", "UUID", "NOW", "ENUM"}

\* validateDelay
ValidateDelay(text) == text = "" \/ (text \in DOMAIN Durations /\ Durations[text] >= 0)

\* validateSet. A subfield's alias is refused, although resolveFieldKey knows it.
ValidateSet(entries) ==
    \A e \in entries :
        /\ IF e.key \in DOMAIN Numeral THEN Numeral[e.key] > 0 ELSE e.key \in DOMAIN Alias
        /\ Literal(e.template) \/ (e.template.macro \in KnownMacros /\ ValidateArgs(e.template))

ValidateRule(rule) ==
    /\ rule.name # "" /\ rule.when # "" /\ rule.set # {}
    /\ rule.when \in DOMAIN Holds
    /\ ValidateDelay(rule.delay)
    /\ ValidateSet(rule.set)

\* Responder.Validate
Validate(c) ==
    /\ KnownZone(c.timezone)
    /\ ValidateDelay(c.delay)
    /\ ValidateSet(c.default)
    /\ \A i \in DOMAIN c.rules : ValidateRule(c.rules[i])

\* What Init refuses nothing of.
Accepted(w) ==
    LET c == Parsed(w) IN
    /\ \A i \in DOMAIN Read(w, "rules", "list", <<>>) : "map" \in DOMAIN w.rules.list[i]
    /\ c.spec # "" /\ c.trigger \in {"on_load", "on_control"}
    /\ SpecLoads(c.spec)
    /\ Validate(c)

\* What a configuration gives under a key, by number or by alias, as fields.
GivenUnder(m, key) ==
    {[field |-> e.key, template |-> e.template] : e \in Read(m, key, "anymap", {})}
        \union {[field |-> FieldOf(e.key), template |-> e.template] :
                    e \in Read(m, key, "map", {})}

NumberKeys(m, key) == {e.key : e \in Read(m, key, "anymap", {})}

\* The gear runs on one of those of its module; Decimal has the numbers that are keys.
ASSUME WrittenAssumption == \A n \in DOMAIN Written :
    LET rules == Read(Written[n], "rules", "list", <<>>) IN
    /\ Accepted(Written[n]) => Parsed(Written[n]) \in Configs
    /\ NumberKeys(Written[n], "default") \subseteq DOMAIN Decimal
    /\ Accepted(Written[n]) =>
         \A i \in DOMAIN rules : NumberKeys(rules[i].map, "set") \subseteq DOMAIN Decimal
\* strconv.Atoi reads the key of the default.
ASSUME DefaultAssumption == "39" \in DOMAIN Numeral /\ Numeral["39"] = 39

-----------------------------------------------------------------------------
ConfigInit ==
    /\ written \in DOMAIN Written
    /\ stage = "made"
    /\ cfg = DefaultConfig /\ paused = FALSE
    /\ Fresh

\* Gear.Init. A gear that is refused is not used, and what it has read is left out.
InitGear ==
    /\ stage = "made"
    /\ cfg' = IF Accepted(Config) THEN Parsed(Config) ELSE cfg
    /\ paused' = (Accepted(Config) /\ PausedAtFirst(Parsed(Config)))
    /\ stage' = IF Accepted(Config) THEN "ready" ELSE "refused"
    /\ UNCHANGED <<written, emit, stopCh, ctrlCh, closed, gearMu, control, macros,
                   serving, runtime>>

Serving == stage = "ready" /\ Next /\ UNCHANGED <<written, stage>>

ConfigNext == InitGear \/ Serving

ConfigSpec == ConfigInit /\ [][ConfigNext]_configVars

-----------------------------------------------------------------------------
(* Properties *)

ConfigTypeOK ==
    /\ stage \in {"made", "ready", "refused"}
    /\ stage = "ready" => TypeOK

\* What Init accepts is used: every rule is there, in its place; its when can be
\* evaluated, its delay is a duration; and what it and the defaults set are fields,
\* with macros that are expanded. The alias a specification may give to field 0, the
\* message type, is accepted and dropped.
AcceptedRulesAreKept ==
    stage = "ready" =>
        LET list == Read(Config, "rules", "list", <<>>)
            entries == cfg.default \union UNION {cfg.rules[i].set : i \in DOMAIN cfg.rules}
        IN /\ DOMAIN cfg.rules = DOMAIN list
           /\ \A i \in DOMAIN list :
                /\ list[i].map.when.text = cfg.rules[i].when
                /\ cfg.rules[i].when \in DOMAIN Holds /\ cfg.rules[i].set # {}
                /\ ParseDelay(cfg.rules[i].delay) >= 0
           /\ \A e \in entries :
                /\ FieldOf(e.key) > 0 \/ (e.key \in DOMAIN Alias /\ Alias[e.key] = 0)
                /\ e.template.macro \in KnownMacros \union {""}

\* A response is the request's echoed fields, over them the defaults written (those of
\* the program where none are), and over those what is written under the set of the
\* first rule that holds of the request, and of no other.
WrittenRulesDecide ==
    stage = "ready" => \A w \in Wires : Done(w) =>
        LET req    == wire[w].req
            fields == wire[w].fields
            rules  == Read(Config, "rules", "list", <<>>)
            holding == {i \in DOMAIN rules : req \in Holds[rules[i].map.when.text]}
            first   == {i \in holding : \A j \in holding : i <= j}
            set      == UNION {GivenUnder(rules[i].map, "set") : i \in first}
            defaults == IF GivenUnder(Config, "default") = {}
                        THEN {[field |-> 39, template |-> Approved]}
                        ELSE GivenUnder(Config, "default")
            given == {e \in set : e.field > 0}
                \union {d \in defaults : d.field > 0 /\ \A e \in set : e.field # d.field}
            named == {e.field : e \in given}
        IN /\ \A f \in named : \E e \in given :
                 /\ e.field = f
                 /\ fields[f][1] = e.template.macro
                 /\ Literal(e.template) => fields[f][2] = e.template.value
           /\ DOMAIN fields = named \union DOMAIN Echo(req)
           /\ \A f \in DOMAIN fields \ named : fields[f] = <<"echo", req.fields[f]>>
=============================================================================
