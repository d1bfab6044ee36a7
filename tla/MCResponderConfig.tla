------------------------- MODULE MCResponderConfig --------------------------
(***************************************************************************)
(* A small sim_responder for TLC. Requests are a purchase with a STAN, one *)
(* without, and a message that is paired with none. Init accepts a         *)
(* configuration with rules, the second of which covers all that the first *)
(* does and more, with a deterministic clock, one with a seed and the      *)
(* machine's clock, and one that is all defaults; it refuses the others,   *)
(* which have one thing wrong with them.                                   *)
(***************************************************************************)
EXTENDS ResponderConfig

MCNumeral  == ("37" :> 37) @@ ("38" :> 38) @@ ("39" :> 39) @@ ("62" :> 62) @@ ("0" :> 0)
MCDecimal  == (37 :> "37") @@ (38 :> "38") @@ (39 :> "39") @@ (62 :> "62")
MCAlias    == ("mti" :> 0) @@ ("stan" :> STANField)
MCSubAlias == ("pos.entry" :> 22)
MCKeyOrder == ("37" :> 1) @@ ("38" :> 2) @@ ("39" :> 3) @@ ("62" :> 4) @@ ("mti" :> 5)
              @@ ("stan" :> 6)
MCDurations == ("50ms" :> 50) @@ ("0s" :> 0) @@ ("-1s" :> -1)

MCCatalog == (100 :> [flow |-> "request", pairsWith |-> 110])
             @@ (110 :> [flow |-> "response", pairsWith |-> 0])
MCEchoedIn == (4 :> {110}) @@ (7 :> {110}) @@ (49 :> {210})

Request(mti, fields, aliases) == [mti |-> mti, fields |-> fields, aliases |-> aliases]
Purchase == Request(100, (4 :> 100) @@ (STANField :> 7) @@ (49 :> 858), <<>>)
Bare     == Request(100, (4 :> 200), <<>>)
Unpaired == Request(110, (4 :> 100), <<>>)

MCRequests == {Purchase, Bare, Unpaired}
MCHolds    == ("amount = 100" :> {Purchase, Unpaired}) @@ ("mti = 0100" :> {Purchase, Bare})

Value(v)        == [Approved EXCEPT !.value = v]
Macro(macro)    == [Approved EXCEPT !.macro = macro]
Sequence(name, start) == [Macro("SEQ") EXCEPT !.name = name, !.start = start, !.nArgs = 2]
Entry(key, t)   == [key |-> key, template |-> t]

WrittenRule(name, when, set) ==
    [map |-> [name |-> [text |-> name], when |-> [text |-> when], set |-> set]]
Delayed50(rule) == [rule EXCEPT !.map = [delay |-> [text |-> "50ms"]] @@ @]

\* As YAML has it: field numbers are numbers.
Ruled ==
    [spec |-> [text |-> "iso"], trigger |-> [text |-> "on_control"], delay |-> [text |-> ""],
     seed |-> [int |-> 50], deterministic_clock |-> [bool |-> TRUE],
     default |-> [map |-> {Entry("stan", Macro("STAN")), Entry("39", Macro("NOW")),
                           Entry("mti", Value(8))}],
     rules |-> [list |->
        << Delayed50(WrittenRule("approve", "amount = 100",
                        [anymap |-> {Entry(37, Macro("RRN")), Entry(38, Macro("RAND"))}])),
           WrittenRule("decline", "mti = 0100",
                        [anymap |-> {Entry(39, Macro("UUID")), Entry(62, Sequence("fraud", 1))}]) >>]]

\* What it prints on one day it may not print on another.
Clocked ==
    [spec |-> [text |-> "iso"], delay |-> [text |-> "0s"], seed |-> [int |-> 50],
     default |-> [map |-> {Entry("37", Macro("RRN"))}]]

\* The base delay is that of the default, and the trigger too; a default that sets
\* nothing is none.
Defaults == [spec |-> [text |-> "iso"], default |-> [map |-> {}]]

With(rule)   == [Ruled EXCEPT !.rules.list = <<rule>>]
RuleOf(when, entry) == WrittenRule("one", when, [map |-> {entry}])
Anything == "mti = 0100"

RefusedOnes == <<
    [Ruled EXCEPT !.spec = [text |-> ""]], [Ruled EXCEPT !.spec = [text |-> "file.yaml"]],
    [Ruled EXCEPT !.trigger = [text |-> "on_demand"]], [Ruled EXCEPT !.delay = [text |-> "soon"]],
    [Ruled EXCEPT !.delay = [text |-> "-1s"]], Ruled @@ [timezone |-> [text |-> "Mars"]],
    [Ruled EXCEPT !.rules.list = Append(@, [text |-> "decline"])],
    With(WrittenRule("", Anything, [map |-> {Entry("39", Value(51))}])),
    With(RuleOf("", Entry("39", Value(51)))), With(RuleOf("amount >", Entry("39", Value(51)))),
    With(WrittenRule("one", Anything, [map |-> {}])),
    With([RuleOf(Anything, Entry("39", Value(51))) EXCEPT !.map = [delay |-> [text |-> "-1s"]] @@ @]),
    With(RuleOf(Anything, Entry("0", Value(51)))), With(RuleOf(Anything, Entry("card", Value(51)))),
    With(RuleOf(Anything, Entry("pos.entry", Value(51)))),
    With(RuleOf(Anything, Entry("38", Macro("PAN")))),
    With(RuleOf(Anything, Entry("38", [Macro("RAND") EXCEPT !.nArgs = 3]))),
    [Ruled EXCEPT !.default = [map |-> {Entry("38", [Sequence("a", 1) EXCEPT !.numeric = FALSE])}]]>>

MCWritten == RefusedOnes \o <<Ruled, Clocked, Defaults>>
MCConfigs == {Parsed(MCWritten[i]) : i \in {i \in DOMAIN MCWritten : Accepted(MCWritten[i])}}

Symmetry == Permutations(Wires)
=============================================================================
