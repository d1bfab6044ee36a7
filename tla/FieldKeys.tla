----------------------------- MODULE FieldKeys ------------------------------
(***************************************************************************)
(* The keys of a gear's field overrides, which both gears resolve alike    *)
(* (resolveFieldKey in pkg/gears/sim_source/generator.go and in            *)
(* pkg/gears/sim_responder/responder.go): a number, the alias of a field,  *)
(* or the alias of a subfield, which stands for the field it is part of.   *)
(***************************************************************************)
EXTENDS Integers

CONSTANTS
    Numeral,        \* the numbers that strconv.Atoi reads in keys
    Alias,          \* meta.IDByAlias
    SubAlias        \* meta.SubAliases: the field each subfield is part of

ASSUME NumeralAssumption == \A key \in DOMAIN Numeral : Numeral[key] \in Int

\* A specification may describe the message type as a field, numbered 0.
ASSUME AliasAssumption ==
    (\A a \in DOMAIN Alias : Alias[a] \in Nat) /\ (\A a \in DOMAIN SubAlias : SubAlias[a] \in Nat)

\* resolveFieldKey; 0 is a key that names no field.
FieldOf(key) ==
    IF key \in DOMAIN Numeral THEN Numeral[key]
    ELSE IF key \in DOMAIN Alias THEN Alias[key]
    ELSE IF key \in DOMAIN SubAlias THEN SubAlias[key]
    ELSE 0
=============================================================================
