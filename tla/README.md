# Verification of the fluxrig-ent gears

TLA+ modules, TLC model checks and TLAPS proofs for the two gears of this
repository: `sim_source`, which generates ISO 8583 traffic, and `sim_responder`,
which answers it.

## 1. The system

| Part | Code | State | Operations |
|---|---|---|---|
| `sim_source` gear | `sim_source/gear.go` | `running`, `stopCh`, `genDone`, `ctrlCh`/`ctrlCancel` under `g.mu`; generation and control goroutines | `Init`, `Start`, `Drain`, `Stop`; commands `sim.start`, `sim.stop`, `sim.rate`, `sim.reset`; the deadline of a run |
| rate engine | `sim_source/rate_engine.go` | the rate in force, one `time.Ticker`, the ramp's start and its `done` channel under `re.mu`; ramp goroutines | `Ticker`, `UpdateRate`, `Stop`, the adjustments of a ramp |
| generator | `sim_source/generator.go` | the seeded stream, STAN, RRN and named counters under its own mutex | `Generate`, `ResetCounters`, `Reseed` |
| `sim_responder` gear | `sim_responder/gear.go` | `paused`, `emit`, `stopCh`, `ctrlCh` under `g.mu` | `Start`, `Drain`, `Stop`, `ProcessPort`; the same commands |
| responder | `sim_responder/responder.go` | sequence counters and seeded stream under `r.mu` | `ProcessRequest`, `ResetCounters` |
| helpers | `simmacro/` | none | seed to instant, macro arguments, layouts |
| licence check | `pkg/license/` | none | one decision at startup |
| wiring | `gears/register.go`, `cmd/` | none | registration |

**How they interact.** The fluxrig runtime (another repository) calls a gear's
`Init`, `Start`, `Drain` and `Stop` and gives `Start` a context and an `emit`
callback. Commands arrive on a channel of the control plane and are handled by
the gear's control loop. In `sim_source`, a generation loop takes the rate
engine's ticker, and on each tick calls the generator and then `emit`; command
handlers reach the same loop only through `stopCh`, `genDone`, the rate engine
and the generator. In `sim_responder` the runtime calls `ProcessPort` from one
goroutine per wire, while the control loop pauses it and resets its counters.

**What is hard.** No lock is held from a command's first effect to its last:
`sim.start` locks, unlocks, waits for a loop, unlocks again and spawns. The
runtime's `Stop` may fall anywhere in between. Loops outlive the state that
started them. A select takes any ready case, so a loop may go on after it was
told to end. A ramp goroutine checks `done` before it locks and not after. Two
wires share counters that a reset clears. One seed must give one sequence although
the data is kept in Go maps. The list, each item at its line, is `hazards` in
`PROJECT.json`.

**What makes each part correct.**

- gear: one loop emits at a time; every run is within reach of a stop (a second
  `Start` breaks this: `source_second_start`); the running flag tells the truth; commands complete; a stopped gear is silent.
- rate engine: the ticker has the period of the rate in force; one ramp at a
  time; the rate stays between a ramp's ends and arrives.
- generator: same seed, same messages; no gaps in the STANs; valid PANs; expiry
  dates on the right side of now; message types in the shares of the mix.
- responder: silent before `sim.start`; sequences without gaps or repeats; the
  last command wins; the first matching rule, and no other, decides; a seeded
  gear gives the same replies to the same requests, but for what `$UUID` and the
  machine's clock print.
- configurations: what `Init` accepts is used as it is written, whichever shape
  YAML or JSON gives it; nothing is accepted and then dropped.

## 2. Modules

| Module | Models | Lines |
|---|---|---|
| `SimSource` | the life cycle of a `sim_source` gear | one action per critical section or select of `gear.go` |
| `SimSourceProofs` | theorems about `SimSource` | extends it and `TLAPS` |
| `Generation` | what a gear that is started once promises of its generation loops | abstract: a loop's phase, and whether it was told to end |
| `SimSourceRefinement` | the proof that `SimSource` implements `Generation` | extends `SimSourceProofs` |
| `RateEngine` | the rate engine, over time | one action per method, two per turn of a ramp goroutine |
| `RateEngineProofs` | theorems about `RateEngine` | extends it and `TLAPS` |
| `FieldKeys` | how both gears resolve the key of an override | one operator |
| `SeedClock` | the instant a deterministic clock reads, the same in both gears | one operator |
| `Generator` | the generator | one action per public method, its helpers as operators |
| `GearConfig` | what the `Init` of both gears share: type assertions, `stringMap`, `ValidateArgs` | operators |
| `SourceConfig` | `Gear.Init` of `sim_source`, and the generator on its result | extends `Generator` and `GearConfig` |
| `FoldTheorems` | induction for the folds of the community modules, and what `FlattenSeq` gives | lemmas, about no module of the project |
| `GeneratorProofs` | lemmas about the operators of `Generator`: types, draws by weight, check digits, the fields of a message, the numbers of `$STAN` | extends it and `FoldTheorems` |
| `SourceConfigProofs` | theorems about `SourceConfig` and the generator in it | extends it and `GeneratorProofs` |
| `SimResponder` | the responder gear and its rules | one action per critical section |
| `ResponderConfig` | `Gear.Init` of `sim_responder`, and the gear on its result | extends `SimResponder` |
| `ResponderConfigProofs` | theorems about both | extends `ResponderConfig` and `TLAPS` |
| `ReplyProofs` | theorems about what is in a reply | extends `ResponderConfigProofs` and `FoldTheorems` |
| `MCGenerator`, `MCSourceConfig` | a small specification, and configurations with one thing wrong with them or none | |
| `MCResponderConfig` | the same for the responder, with a catalog, requests and rules | |

The three modules of `sim_source` are separate because each part guards its
state with a mutex of its own and calls no other while it holds it. What one needs to know
of another is in its variables: `SimSource.ticker` is the loop that holds the
rate engine's ticker, `SimSource.advanced` says whether the generator has drawn
since it was last reset.

**`SimSource`.** Channels are numbered as they are made, and `closed` is the set
of closed ones; a loop's record holds the channel and the context it captured.
`Start` is split where the code unlocks: its first critical section, then the
subscription (`Subscribed`, `NotSubscribed`) or `GenerateOnLoad`. A handler is a
program counter: `reseed`, `signal` (its critical section), `snapshot` and
`wait` (`waitForGenerationLoopToExit`), `spawn` (`startGeneration`). A generation
loop goes `spawned`, `select`, `emit`, `expired`, `exiting`, `ended`. `emit` may
block for ever. `CancelContext` is the runtime's.

**`RateEngine`.** Time is in units of 100 ms, the period of a ramp's own ticker.
`RampTick` is the select of a ramp goroutine and `Adjust` what it does once it
has the mutex. Rates are whole, and a rate within a ramp is rounded down. `Stop`
closes `stopCh` just before it takes the mutex; the model does both in one step,
since a ramp goroutine that sees the channel only ends. Two constants choose the
surroundings: with `CallsStop` FALSE nothing calls `Stop`, as the gear does not, and
with `Punctual` TRUE time passes only when no ramp goroutine has anything to do, so that
what goes wrong then is not put down to a late goroutine.

**`Generator`.** A value is a sequence of numbers; `Stream` is what `math/rand`
draws from each seed, and a state of the stream is the number of draws made.
Every operator that draws takes its context (configuration, seed and time) and the
generator before, and gives the generator after, in the order the code draws.
`Outcomes` is what one call of `Generate` may give, a failure included: more than
one thing only where two keys name one field, when `Resolved` makes the choice that
Go's map order makes. The loops of `Generate` are folds: `GenerateFields` over the
fields a message has, then `SetFields` over those that `set` pins, in the order of
`sort.Ints` (`FoldUp`). `log` keeps the outcomes since the last reset.

**`Generation`.** Runs of which at most one is wanted at a time. While the gear is
in service a run begins only when those before it are over or were given up on, and
one that was told to end is never wanted again. `SimSource!Gen` maps the loops to
it: those that have begun, those that nothing has told to end, those that leave.

**`SimResponder`.** `g.mu` is held for one step except by `sim.reset`, which
takes `r.mu` inside it; `r.mu` is held for one macro (`EnterMacro`, then
`ExpandMacro`). `Turn` reads `g.stopCh` anew, as `controlLoop` does on each turn:
a loop that is in a handler during `Stop` and `Start` then lives on beside the new
one, which the history variable `beside` records. The conditions of the rules
(`when`) are sets of requests; what a request draws is the position of the seeded
stream when it draws. `Printed` is what each macro puts in a reply: for `$SEQ`,
`$STAN` and `$RRN` the digits that the modulus leaves (`Digits`), with the day of the
gear's clock before them in an RRN; for `$NOW` the instant; for `$UUID` any of a set.
The instant is the seed's where `deterministic_clock` is set (`SeedInstant`) and
otherwise whatever the machine's clock shows when the macro reads it (`WallClock`). A
counter is a word of `WordSize` values and goes round: after the last of them a `$SEQ`
is at its start again (`CounterAfter`).

**`SourceConfig` and `ResponderConfig`.** A written value is a record whose one
field is named for its Go type (`text`, `int`, `float64`, `map`, `anymap`), so that
a failed type assertion is a field that is not there. `Parsed` is what `Init` makes
of a configuration over the defaults and `Accepted` is every error it may return.
`InitGear` is the one action before the gear or the generator takes over: the
runs and the proofs are about the gear together with its `Init`. A map with nothing
in it is no map to the responder's `default`; one of the configurations of the run
has such a default.

## 3. Runs

Bounds are CONSTANTS in the `.cfg` files and appear only as guards of actions
that take an input (a Start, a command, a request) or as the number of loops.

| Run | Checks | Bounds |
|---|---|---|
| `source_once` | `TypeOK`, `OneEmitter`, `RunHoldsTicker`, `RunningMeansGenerating`, `ImplementsGeneration` | one Start, three commands, three loops: those that three commands spawn, or the one of `on_load`, which takes no commands |
| `source_restarts` | `OneRunPerChannel`, `OneControlLoop`, `SignalledLoopsEnd`, `CommandsComplete` | two Starts, two commands, two loops, fairness |
| `rate_engine` | `TypeOK`, `TickerFollowsRate`, `OneRamp`, `RateWithinRamp`, `FinishedRampHoldsTo` | two calls with any arguments, 0.4 s, two ramps, `Stop` at any time, goroutines as late as they like |
| `source_config` | `ConfigTypeOK`, `AcceptedOverridesResolve`, `SetIsInEveryMessage`, `WrittenMixIsFollowed`, `SameSeedSameMessages`, `STANsRunOn`, `PANsAreValid`, `ExpiryInWindow` | four accepted and 22 refused configurations; four messages, two resets, two seeds (one negative) |
| `responder` | `ConfigTypeOK`, `AcceptedRulesAreKept`, `WrittenRulesDecide`, `SilentUntilStarted`, `SequencesRunOn`, `LastCommandWins`, `SameRequestsSameReplies` | three accepted and 18 refused configurations, one of the three with `deterministic_clock` and two on the machine's; two wires, at most three requests, three commands and two Starts, four of them in all (five where the gear waits for `sim.start`) |

They pass. Why the bounds are enough to be of interest: an error of the handover
between loops needs a run, a command that ends it and one that starts the next; a
stale ramp needs one ramp and one call; a repeated sequence number needs two
wires, or a request after a reset; a command that is overtaken needs two Starts and
two commands; each configuration that is refused has one thing wrong with it, one
for every error `Init` returns. STANs wrap at 3 in the model, and the
responder's counters are words of three values printed modulo 2, so that a `$SEQ` passes
both the boundary of its digits and that of its word within three requests. Every property has a mutant, a plausible
mistake in one definition (the "Variant for a mutant" operators next to the
originals), under which its run fails.

Seven runs show where the code and what is written about it disagree. Each
checks one property and finds it violated:

| Run | What happens |
|---|---|
| `source_second_start` | a second `Start` without a `Stop` before it, which the gear allows for (it keeps its subscription; `gear_control_test.go:382`), replaces `stopCh` without closing it: the run on the old channel is out of reach of `sim.stop`, `Drain` and `Stop` |
| `source_stop_race` | `Stop` between a handler's critical section and its `startGeneration`: `running` is set with no loop behind it, and after the next `Start` the gear ignores `sim.start` until it gets a `sim.stop` or `sim.reset` |
| `source_after_stop` | a `sim.start` under way, or taken although its context is done, finds the channel closed, makes another, and generates after `Stop` |
| `source_reseed` | the generator is reseeded before the loop in progress has ended, so the new run may begin in the middle of the sequence |
| `rate_stale_ramp` | a constant rate comes as a tick of the ramp is due: the ramp's goroutine takes the tick though `done` is closed (select is free to), locks after `UpdateRate` and overwrites the constant rate; one that took the tick just before and waits for the mutex does the same |
| `rate_slow_ramp` | one ramp from 4 to 5 messages a second and no other call: the ticker is reset every 100 ms, before it is due, and never fires while the ramp lasts |
| `source_numeric_keys` | `defaults` and `templates` with a field number among their keys are accepted and dropped; for `set` the code takes the shape YAML gives them |

In both of the rate engine nothing calls `Stop` and no goroutine is late
(`CallsStop`, `Punctual`): the code alone does it.

Two more disagreements are settled by reading. `responder.go:108-111` says that a reset
replays "the exact same sequence of replies"; the fields it is about (`config.go:39-49`)
say that `seed` covers `$AUTH`, `$RAND` and `$ENUM`, and `deterministic_clock` `$NOW`
and `$RRN`. A `$UUID` is never the same again, and without `deterministic_clock` an RRN
has the day of the machine's clock, whatever the seed. `SameRequestsSameReplies` is what
the code does: it is about every field whose macro the seed and the clock of the gear
determine (`Replays`). And the weights of the mix that a specification brings are
dropped (`generator.go:557`), so that its first entry is always selected; `Mix` does the
same, and `WrittenMixIsFollowed` is about a mix that is written.

`CHECK_DEADLOCK FALSE` is said only where the model really ends: of the rate
engine and the generator, which stop when their bounded calls and clock are used
up, and of `responder`, where a gear that is refused does nothing more. In
`SimSource` the runtime can always ask for another `Stop`.

**Fairness** (`SimSource!FairSpec`, in `source_restarts`). Weak fairness of a handler under way and of a
loop outside its select: the Go scheduler runs a runnable goroutine. Strong
fairness of `SeeStop`: a loop comes back to its select after every emit, where the
stop is not continuously enabled, and select picks among ready cases at random.
Nothing is assumed of `emit`, of the runtime or of who sends commands;
`SignalledLoopsEnd` says so by excluding a loop that stays in `emit` for ever, and
`CommandsComplete` holds in spite of one because the wait has a timeout.

## 4. Proofs

`SimSourceProofs` proves, for every number of Starts, commands and loops:

| Theorem | For | States |
|---|---|---|
| `TypeCorrect` | any life cycle | `[]TypeOK` |
| `OneRunPerChannelHolds` | any life cycle | `[]OneRunPerChannel` |
| `OneControlLoopHolds` | any life cycle | `[]OneControlLoop` |
| `OneEmitterHolds` | a gear started once | `[]OneEmitter` |
| `RunHoldsTickerHolds` | a gear started once | `[]RunHoldsTicker` |
| `RunningMeansGeneratingHolds` | a gear started once | `[]RunningMeansGenerating` |

They rest on the named assumptions of `SimSource` (the triggers are the two that
`Start` knows, which refuses a gear with any other; the phases are phases, bounds are natural numbers). "Started once" is
the assumption `StartableIn = {"new"}` of the theorem; the runtime may still
drain, stop and cancel when it likes. `source_stop_race` shows that
`RunningMeansGenerating` needs it.

The argument has two inductive invariants. `AnyLifeCycle` is `TypeOK`,
`WellFormed` (channels and loops are numbered in order, actors exist only after
the Start that brings them), `OneRunPerChannel` and `OneControlLoop`. It is enough
because a loop is spawned only while `running` is false, which, when the gear's
channel is open, means that no loop is on it; and because a channel, once
replaced, is never the gear's again. `OnceLifeCycle` adds `StartedOnce` (every
channel but the gear's is closed) and `Handoff`. Neither `OneEmitter` nor
`RunHoldsTicker` is inductive: nothing in them says that the loop a handler
waits for is the only one alive. `Handoff` does: between its critical section and
its spawn a handler holds an open channel with nothing running on it, and a loop that nobody gave
up on is the last one spawned. From it follow both, since a handler can only
reach its spawn when that loop has ended or was abandoned.

**Refinement.** `SimSourceRefinement!GenerationImplemented` is
`ASSUME StartableIn = {"new"} PROVE Spec => ImplementsGeneration`, what
`source_once` checks for three commands: every step of the gear is a step of
`Generation` or leaves it as it is. Its invariant is `OnceLifeCycle` with
`WaitedForLeaves`: the loop a handler waits for is not wanted any more.

**`RateEngineProofs`** proves the five properties of `rate_engine` for all rates,
durations, calls and times. `TickerFollowsRate` and `RateWithinRamp` are inductive
once the types are known; the second rests on `PartBelow`, that the part of a
difference which integer division gives is between nothing and the whole of it, and
on what `\div` means below zero, for a ramp that falls. `OneRamp` is not inductive: the
invariant `RampsInOrder` adds that ramps are numbered in order, that the one in
force has not been told to end, and that one which ended by itself left the rate at
its end, from which `FinishedRampHoldsTo` follows too.

**`ResponderConfigProofs`** proves, for any catalog, rules and requests, and any
number of wires, Starts and calls:

| Theorem | States |
|---|---|
| `TypeCorrect` | `[]ConfigTypeOK` |
| `SilentUntilStartedHolds` | `[]SilentUntilStarted` |
| `SequencesRunOnHolds` | `[]SequencesRunOn` |
| `LastCommandWinsHolds` | `[]LastCommandWins` |
| `AcceptedRulesAreKeptHolds` | `[]AcceptedRulesAreKept` |

The invariant `Inv` is a conjunction of what each needs. `OneInMacro`: a wire inside
a macro holds `r.mu`, alone, and the counters are still what it read there.
`CountersFollow`: a counter is zero if its sequence has not begun and otherwise as far
on as the numbers it printed, which makes `SequencesRunOn` inductive. The counter is a
word: after the last value that it holds comes zero, which is also what a sequence that
has not begun has, and a `$SEQ` then begins at its start again. What is proved is that
it goes round all the values from its start to the end of the word, in order, and never
otherwise; `NextNumber` is the step, from what a remainder does when a number
grows by one (`ModNext`). A `$SEQ` that starts at zero goes round the whole word.
`StillSilent` adds to `SilentUntilStarted` that the gear is paused and no
wire is in a request. `CommandInHand` adds to `LastCommandWins` the time in which
the command is still in the handler. `ConfigInv` lifts `Inv` over `Init`. The
assumptions are those named in the modules: keys that a set of entries uses have
different places in the order of `sort.Strings` (`ConfigsAssumption`), and `Configs`
has what `Init` makes of the configurations it accepts (`WrittenAssumption`); words and moduli are positive and instants are whole
(`WrapAssumption`, `ClockAssumption`).

**`ReplyProofs`** proves `[]WrittenRulesDecide` and `[]SameRequestsSameReplies`, for any
configuration, any requests and any number of wires.

For the first the invariant `RepliesFollow` says of a request under way that some
number `k` of its entries have been expanded, and that each field of the reply is
either from the last of those `k` that names it or, if none does, echoed
(`BuiltFrom`). It is inductive because a wire's request and what it has still to
expand are its own: commands, resets and other wires change neither. When nothing is
left, `k` is all of them, and as they are the defaults in the order of their keys and
then the set of one rule, the last is the rule's where it has one (`LastIsOver`). The
rest is about `Init`: what `stringMap` makes of numbers and aliases names the fields
that are written (`GivenIsRead`), the default of the program stands where none is
written (`DefaultsWritten`), and the rules tried are those written, in their order
(`RulesWritten`).

The second says that a reply is a function of the requests since the reset, and not
inductively: it speaks of a reply that is done, when the wires are at rest. Its
invariant `ReplaysSoFar` is about every state. While requests come one after another and
the gear is seeded, lay what they expand end to end (`Expansions`): then either all of it
has been put and the wire of the last request is idle again (`AllPut`), or that wire has
still to put the rest of its own, which may be nothing (`SomePut`). What has been put is told by the number of draws, by the
place of each counter and by the fields the reply has so far (`PutSoFar`, `Moved`,
`PutAsExpected`); of a field whose macro the gear does not determine (`$UUID`, and `$NOW`
and `$RRN` on the machine's clock) nothing is foretold (`Foretold`), though an RRN
takes its number all the same. One expansion moves these as `Draws` and `Moves` say it should
(`LiteralExpected`, `MacroExpected`), where a macro reads a counter and moves it in
separate steps, while its wire holds the mutex (`ReplaysPut`); a request that is taken
adds its expansions to the end (`ReplaysTake`, with `FlattenAppend` of `FoldTheorems`);
a reset forgets them all (`ReplaysReset`); nothing else touches either side
(`ReplaysStay`).

`WrittenRulesDecide` assumes that numbers used as keys have a decimal text and that
`"39"` is one (`WrittenAssumption`, `DefaultAssumption`).

**`SourceConfigProofs`** proves:

| Theorem | For | States |
|---|---|---|
| `TypeCorrect` | any configuration | `[]ConfigTypeOK` |
| `AcceptedOverridesResolveHolds` | any configuration | `[]AcceptedOverridesResolve` |
| `SetIsInEveryMessageHolds` | any configuration | `[]SetIsInEveryMessage` |
| `WrittenMixIsFollowedHolds` | any configuration | `[]WrittenMixIsFollowed` |
| `SameSeedSameMessagesHolds` | one in which no two keys of one map name one field | `[]SameSeedSameMessages` |
| `PANsAreValidHolds` | one with `PANsAreGenerated` | `[]PANsAreValid` |
| `ExpiryInWindowHolds` | one with `ExpiriesAreSynthesized` | `[]ExpiryInWindow` |
| `STANsRunOnHolds` | one with `STANsAreNumbered`, for fewer than `WordSize` messages | `[]STANsRunOn` |

Each hypothesis is where the code promises nothing. Without the first (`Unambiguous`)
the map order decides. `PANsAreGenerated` is that a field that holds a PAN has no
enum and gets its value from `$PAN`, with a prefix of digits, or is synthesized: a
literal is sent as it is written. `ExpiriesAreSynthesized` is that nothing but the
specification gives an expiry date its value. `STANsAreNumbered` is that `$STAN` is the
value of field 11 wherever an override gives it one, and of no other field, and that one
rule at most gives a message type field 11, or `set` pins it: a second rule, in the code
as in the model, has the field generated twice, and takes two numbers for it. The bound
is where the counter itself wraps, at 2^64, which is no multiple of 10^6. The
configurations of `source_config` meet all three, in states with such messages.

There are three invariants. `ReplayInv`, for replay, says that each thing in a log is one
that `Generate` could give with the generator that the one before left (`IsRun`), and
that logs of one seed agree as far as both go; `OneOutcome`, that `Generate` could give
nothing else, carries it over the next message. `MessageInv`, for what is in a message,
adds to the types that each thing in the log was generated (`IsGenerated`) from some
state of the generator with this configuration. Everything else is then about one call,
in `GeneratorProofs`: `OutcomeIs` says that each value of a message is the `ValueFrom` of
its field, from some state of the generator. `STANInv`, for the numbers, is that the
counter is the number of messages in the log that have field 11, and that each of them shows what it
was then (`Counts`). Its step is `OutcomeNumbers`: a message with field 11 takes the
next number and shows it, and any other message, and a failure, takes none. No macro but
`$STAN` moves the counter (`ExpandNumbers`); each loop of `Generate` takes one number if
field 11 is among its fields and none otherwise (`GenerateFieldsNumbers`,
`SetFieldsNumbers`); and it is among those of one loop only, since what `set` pins is not
generated (`FillNumbers`).

*Induction over data.* What a message has, which draw selects which type, and whether a
check digit is right are folds. The folds of the community modules are recursive
functions on the subsets of an interval of numbers or of a set of numbers, and
`FoldTheorems` has what one needs to reason about them without an operator for a
parameter: `FoldInduction` (a set `T` of sets that has the empty one, and each set that
it has without its largest member, has them all), `FoldStays` (an invariant of the step is one of the
result) and `FoldExists` (the function exists). `FlattenAppend` is the same for
`FlattenSeq`. With them `GeneratorProofs` shows that a
sum of weights grows by each weight (`PrefixSums`), hence that the draws that select an
entry are as many as it weighs (`DrawsFollowWeights`); that the sum macroPAN takes and
the one of the standard add up to a multiple of ten (`CheckDigitMakesValid`); and that the
loops of `Generate` collect for each field what its first source gives
(`GenerateFieldsFolds`, `SetFieldsFolds`). `MixKeepsWeights` does the same for the
list `Init` reads the mix from.

The assumptions are those named in the modules: seeds have streams that are not empty,
arguments of macros are numbers, the rules of a field and the entries of `set` are
finite, and `Configs` and `Seeds` have what `Init` makes of the configurations that it
accepts.

**Only model-checked.** The liveness properties, `SignalledLoopsEnd` and
`CommandsComplete`, which are out of the prover's reach, and the properties that the
code violates. Every invariant of a passing run has its theorem.

## 5. What is not modelled

- Formatting: dates, alphabets of `$AUTH` and `$UUID`, the text of an RRN, which in
  both gears is a pair of a day and a number. `$NOW` gives an instant, and `$UUID` in a
  response any member of a set.
- Text that is parsed: macros and their arguments, durations, zones, numerals and
  `when` expressions are constants that say what each text means.
- Rates that are not whole. What `validRate` refuses is modelled.
- The metadata of a response, which is copied from the request; the check that the
  port is `in`; `g.running` of the responder, which nothing reads.
- The manifests: tables of declarations that the code only hands to the runtime.
- The runtime, the control plane, the store of specifications and the codec, which
  are in another repository.
- The licence check: one decision at startup that keeps no state and blocks nothing.
- Registration and executables: wiring without state.

## 6. Plan

The order was: the life cycle of `sim_source` first, since the other parts depend on
it and its interleavings are the ones tests reach least; its proofs; the rate engine,
the responder and the generator; then `Generation` and the refinement, the
configurations of both gears, two Starts and replay for the responder, and the
proofs about the rate engine and the responder; then induction for the folds, and with
it what a message and a reply hold, that replies replay, and that STANs run on. What is
left:

1. `SimGear`: `SimSource`, `RateEngine` and `Generator` composed, for what their
   separation leaves out: a ramp that outlives `Stop`, draws of an abandoned loop.
   Each has a mutex of its own and no call is made under two of them, so the product
   has few steps of interest and many states.
2. The shares of `chooseFromEnum`, should its treatment of values without a weight
   ever be documented.
