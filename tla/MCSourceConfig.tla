--------------------------- MODULE MCSourceConfig ---------------------------
(***************************************************************************)
(* Configurations for TLC, on the specification of MCGenerator: four that  *)
(* Init accepts, and others that have one thing wrong with them.           *)
(***************************************************************************)
EXTENDS MCGenerator, SourceConfig

MCDecimal   == (11 :> "11") @@ (38 :> "38") @@ (62 :> "62")
MCZones     == {"", "UTC"}
MCDurations == ("60s" :> 60) @@ ("0s" :> 0) @@ ("-1s" :> -1)

MixEntry(use, kind, tenths) ==
    [map |-> [use |-> [text |-> use], weight |-> (kind :> tenths)]]

\* Numbers as JSON has them.
Plain ==
    [spec |-> [text |-> "iso"], seed |-> [float64 |-> 50],
     deterministic_clock |-> [bool |-> TRUE],
     expiry_months |-> [float64 |-> 20], expired_percent |-> [float64 |-> 509],
     mix |-> [list |-> <<MixEntry(100, "float64", 20), MixEntry(800, "float64", 10)>>],
     defaults |-> [map |-> {Entry("11", Template("STAN"))}]]

\* Numbers as YAML has them, and fields pinned by number: one over its own default,
\* others that no rule names, one of them a sequence at the end of its range. Of the
\* mix, entries that are dropped.
Pinned ==
    [Plain EXCEPT
        !.seed = [int |-> -30], !.expired_percent = [int |-> -9], !.expiry_months = [uint64 |-> 20],
        !.mix = [list |-> <<MixEntry(100, "int", 10), MixEntry(110, "float64", 29),
                            MixEntry(800, "float64", 9), [text |-> 100],
                            MixEntry(100, "int", 10)>>]]
    @@ [set |-> [anymap |-> {Entry(11, Template("STAN")), Entry(38, Literal(<<5>>)),
                             Entry(62, [Template("SEQ") EXCEPT !.name = "order", !.start = 999,
                                                               !.nArgs = 2])}]]

\* A PAN of another shape, $INVALID and $RAND in the message type's template; the keys
\* are aliases and numbers.
TemplatedOf(entry) ==
    [Plain EXCEPT !.expired_percent = [int64 |-> 1000],
                  !.defaults = [map |-> {Entry("stan", Template("STAN")),
                                         Entry("37", Template("UUID"))}]]
    @@ [templates |-> [map |->
          (100 :> [map |-> {entry, Entry("22", Template("INVALID")),
                            Entry("04", [Template("RAND") EXCEPT !.low = 5, !.high = 3,
                                                                 !.nArgs = 2])}])]]
Templated == TemplatedOf(Entry("card.pan", [Template("PAN") EXCEPT !.prefix = <<3, 4, 0>>,
                                                                   !.length = 15]))

\* No mix at all: the first request of the catalog. Two keys name field 4, one the
\* message type.
Bare ==
    [spec |-> [text |-> "iso"], seed |-> [int64 |-> 50], timezone |-> [text |-> "UTC"],
     expiry_months |-> [float32 |-> 9], expired_percent |-> [float32 |-> 500],
     rate |-> [map |-> [shape |-> [text |-> "ramp"], tps |-> [int |-> 0],
                        to |-> [int |-> 500], duration |-> [text |-> ""]]],
     set |-> [map |-> {Entry("4", Literal(<<1>>)), Entry("04", Literal(<<2>>)),
                      Entry("mti", Literal(<<8>>))}]]

Without(w, key) == [k \in DOMAIN w \ {key} |-> w[k]]
Rated(rate) == [Bare EXCEPT !.rate.map = rate @@ Bare.rate.map]
Set(entry)  == [Bare EXCEPT !.set = [map |-> {entry}]]

RefusedOnes == <<
    Without(Plain, "spec"), Without(Plain, "seed"), [Plain EXCEPT !.seed = [float64 |-> 9]],
    [Plain EXCEPT !.seed = [uint64 |-> 50]], [Plain EXCEPT !.spec = [text |-> "file.yaml"]],
    Rated([duration |-> [text |-> "soon"]]), Rated([duration |-> [text |-> "-1s"]]),
    Rated([shape |-> [text |-> "spike"]]), Rated([tps |-> [float64 |-> 1001]]),
    Rated([from |-> [float64 |-> -1]]), Rated([to |-> [int |-> 1010]]),
    [Bare EXCEPT !.timezone = [text |-> "Mars"]],
    [Bare EXCEPT !.expiry_months = [int |-> -10]],
    [Bare EXCEPT !.expired_percent = [int |-> 1010]],
    Set(Entry("0", Literal(<<1>>))), Set(Entry("pos.entry", Literal(<<1>>))),
    Set(Entry("card", Literal(<<1>>))), Set(Entry("4", Template("DATE"))),
    Set(Entry("4", [Template("RAND") EXCEPT !.nArgs = 2, !.numeric = FALSE])),
    [Plain EXCEPT !.defaults = [map |-> {Entry("-2", Template("STAN"))}]],
    TemplatedOf(Entry("pan", Template("PAN"))), TemplatedOf(Entry("38", Template("CODE")))>>

MCWritten == RefusedOnes \o <<Plain, Pinned, Templated, Bare>>

\* Defaults and templates under field numbers and message types that YAML reads as
\* numbers.
Numbered(key, value) == (key :> [anymap |-> value]) @@ Without(Without(Plain, "defaults"), "mix")
MCNumericKeys ==
    <<Numbered("defaults", {Entry(11, Template("STAN"))}),
      Numbered("templates", (100 :> [map |-> {Entry("11", Template("STAN"))}]))>>

AcceptedOf(all) == {Parsed(all[i]) : i \in {i \in DOMAIN all : Accepted(all[i])}}
MCAccepted    == AcceptedOf(MCWritten)
MCNumericOnes == AcceptedOf(MCNumericKeys)
=============================================================================
