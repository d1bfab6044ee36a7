---------------------------- MODULE GearConfig -----------------------------
(***************************************************************************)
(* What Gear.Init of sim_source and of sim_responder have in common: each  *)
(* reads a decoded configuration by type assertions, loads a specification *)
(* and checks macros and zones with pkg/gears/simmacro.                    *)
(*                                                                         *)
(* A written value is a record whose one field is named for its Go type:   *)
(* text, bool, list, a kind of number, map (map[string]any) or anymap      *)
(* (map[any]any, which is what YAML gives when a key is a number). Numbers *)
(* are written in tenths, for the fractions a float64 may have. A map of   *)
(* field overrides is a set of entries, with the template each value says. *)
(***************************************************************************)
EXTENDS FieldKeys

CONSTANTS
    Decimal,        \* fmt.Sprintf("%v") of the numbers that are keys of a map[any]any
    Store,          \* the references the manager loads and the codec can parse
    Zones,          \* the time zones simmacro.Location knows
    Durations       \* the lengths of the texts time.ParseDuration accepts

ASSUME DurationsAssumption == \A text \in DOMAIN Durations : Durations[text] \in Int
ASSUME DecimalAssumption ==
    \A n \in DOMAIN Decimal : Decimal[n] \in DOMAIN Numeral /\ Numeral[Decimal[n]] = n

-----------------------------------------------------------------------------
(* Reading *)

Given(w, key, kind) == key \in DOMAIN w /\ kind \in DOMAIN w[key]

Read(w, key, kind, default) == IF Given(w, key, kind) THEN w[key][kind] ELSE default

Number(w, key, kinds, default) ==
    IF \E kind \in kinds : Given(w, key, kind)
    THEN w[key][CHOOSE kind \in kinds : Given(w, key, kind)] ELSE default

\* int(v), which rounds towards zero
Whole(tenths) == IF tenths < 0 THEN -((-tenths) \div 10) ELSE tenths \div 10

NoMap == [key \in {} |-> key]

\* Variant for a mutant: a map[any]any is not normalized.
StringMapOfText(w, key) == Read(w, key, "map", {})

\* stringMap
StringMap(w, key) ==
    Read(w, key, "map", {})
        \union {[key |-> Decimal[e.key], template |-> e.template] : e \in Read(w, key, "anymap", {})}

-----------------------------------------------------------------------------
(* Checking *)

\* simmacro.Location
KnownZone(name) == name \in Zones

\* loadSpec, readSpecContent
SpecLoads(reference) == reference \in Store

\* simmacro.ValidateArgs
ValidateArgs(t) ==
    CASE t.macro = "RAND" -> t.nArgs <= 2 /\ t.numeric
      [] t.macro = "SEQ"  -> t.nArgs <= 2 /\ (t.nArgs = 2 => t.numeric)
      [] OTHER -> TRUE
=============================================================================
