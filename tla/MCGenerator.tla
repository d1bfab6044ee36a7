---------------------------- MODULE MCGenerator ----------------------------
(***************************************************************************)
(* A small specification for TLC: purchases (100)                          *)
(* and their responses (110), network messages (800); a PAN, an amount, an *)
(* expiry date, an enum, and a field with two rules for one message type.  *)
(***************************************************************************)
EXTENDS Generator

MCSeeds  == {-3, 5}
MCStream == (5 :> <<7, 42, 0, 13, 98, 3, 61, 29, 56, 11, 85>>)
            @@ (-3 :> <<90, 2, 37, 64, 5, 71, 18, 49>>)

MCCatalog == (100 :> "request") @@ (110 :> "response") @@ (800 :> "request")

Rule(codes)   == [codes |-> codes, usage |-> "mandatory"]
Barred(codes) == [codes |-> codes, usage |-> "forbidden"]
Field(rules, kind) == [rules |-> rules, kind |-> kind, expiry |-> FALSE, enum |-> ""]

MCFields ==
    (0 :> Field(<<Rule({100, 110, 800})>>, ""))
    @@ (2 :> Field(<<Rule({100, 110})>>, "pan"))
    @@ (4 :> Field(<<Rule({100}), Barred({800})>>, "amount"))
    @@ (11 :> Field(<<Rule({100, 110, 800})>>, "n"))
    @@ (14 :> [Field(<<Rule({100})>>, "date") EXCEPT !.expiry = TRUE])
    @@ (22 :> [Field(<<Rule({100}), Rule({100, 110})>>, "n") EXCEPT !.enum = "entry"])
    @@ (37 :> Field(<<Rule({100, 800})>>, "n"))
    @@ (70 :> [Field(<<Rule({800})>>, "n") EXCEPT !.enum = "network"])

MCEnums == [entry   |-> [values |-> <<0, 1, 7>>, closed |-> TRUE],
            network |-> [values |-> <<1, 301>>, closed |-> FALSE]]

Template(macro) ==
    [macro |-> macro, nArgs |-> 0, numeric |-> TRUE,
     value |-> <<>>, prefix |-> <<4, 1, 1, 1>>, length |-> 16, name |-> "",
     start |-> 1, low |-> 0, high |-> 9]
Literal(value) == [Template("") EXCEPT !.value = value]
Entry(key, t) == [key |-> key, template |-> t]

\* The keys: numbers as text, one of them written in two ways, and aliases.
MCNumeral  == ("4" :> 4) @@ ("04" :> 4) @@ ("11" :> 11) @@ ("22" :> 22) @@ ("37" :> 37)
              @@ ("38" :> 38) @@ ("62" :> 62) @@ ("0" :> 0) @@ ("-2" :> -2)
MCAlias    == ("mti" :> 0) @@ ("card.pan" :> 2) @@ ("stan" :> 11)
MCSubAlias == ("pos.entry" :> 22)

MCSimMix      == <<>>
MCSimDefaults == (37 :> [from |-> "", weights |-> <<>>, template |-> Template("RRN")])
MCSimTemplates ==
    (800 :> (70 :> [from |-> "network", weights |-> (301 :> 2),
                    template |-> Template("NOW")]))

\* A configuration without a mix, and the mix of the spec, which is used then.
MCNoMix ==
    {[mix |-> <<>>, set |-> {}, defaults |-> {Entry("11", Template("STAN"))},
      templates |-> <<>>,
      expiryMonths |-> 2, expiredPercent |-> 50, deterministicClock |-> TRUE]}
MCWeightedSimMix == <<[use |-> 100, weight |-> 2], [use |-> 800, weight |-> 1]>>
=============================================================================
