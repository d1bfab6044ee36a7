----------------------------- MODULE SeedClock ------------------------------
(***************************************************************************)
(* The instant a deterministic clock shows (pkg/gears/simmacro/clock.go),  *)
(* in both gears: as far from a fixed date as the seed says.               *)
(***************************************************************************)
EXTENDS Integers

CONSTANTS
    WordSize,       \* 2^64
    ClockRange      \* deterministicClockRangeSeconds

\* simmacro.SeedOffset: the bits of the seed as an unsigned word, within the range.
SeedOffset(s) == (s % WordSize) % ClockRange
=============================================================================
