----------------------------- MODULE RateEngine -----------------------------
(***************************************************************************)
(* The rate engine of a sim_source gear                                    *)
(* (pkg/gears/sim_source/rate_engine.go): the rate in force, the ticker    *)
(* the generation loop reads, and the ramp goroutines that move the rate.  *)
(*                                                                         *)
(* Every method holds re.mu from its first line to its last, and so is one *)
(* step. A ramp goroutine is not: it takes a tick of its own at its        *)
(* select, and only then locks. In between anything may happen.            *)
(*                                                                         *)
(* Time is counted in ticks of a ramp, 100 ms each. A ticker fires as soon *)
(* as it is due; a goroutine may be as late as it likes, or, if Punctual,  *)
(* no time passes while one could go on.                                   *)
(***************************************************************************)
EXTENDS Integers

CONSTANTS
    Rates,          \* the rates a configuration or a sim.rate may name, in TPS
    Durations,      \* the durations of a ramp (0: none given, or not parsed)
    TicksPerSecond, \* time.Second in units of time
    Idle,           \* the interval of a rate of 0, an hour in the code
    CallsStop,      \* whether Stop is called: the gear never does, its tests do
    Punctual,       \* whether ramp goroutines run as soon as they can
    MaxTime,        \* bound: the clock
    MaxCalls        \* bound: calls of Ticker and UpdateRate

ASSUME RatesAssumption     == Rates \subseteq Nat /\ Rates # {}
ASSUME DurationsAssumption == Durations \subseteq Nat /\ Durations # {}
ASSUME UnitsAssumption     == TicksPerSecond \in Nat \ {0} /\ Idle \in Nat \ {0}
ASSUME CallersAssumption   == {CallsStop, Punctual} \subseteq BOOLEAN
ASSUME TimeBoundsAssumption == MaxTime \in Nat /\ MaxCalls \in Nat

VARIABLES
    cfg,            \* re.cfg: shape, tps, from, to
    rampDuration,   \* re.rampDuration
    currentTPS,     \* re.currentTPS
    ticker,         \* re.ticker: whether it is made and running, its period, when it is due
    rampStart,      \* re.rampStart
    rampDone,       \* re.rampDone, the number of the ramp it belongs to; 0 is nil
    nRamps,         \* ramps started so far
    ramp,           \* the ramp goroutines: where each is, and when its own ticker is due
    ended,          \* the ramps whose done channel is closed
    stopped,        \* re.stopCh is closed
    now,            \* the clock
    lastTick,       \* history: when the ticker fired last, or was told its rate by a caller
    calls           \* calls so far

vars == <<cfg, rampDuration, currentTPS, ticker, rampStart, rampDone, nRamps, ramp,
          ended, stopped, now, lastTick, calls>>

RampIds == 1..MaxCalls
Shapes  == {"constant", "ramp"}

\* Variant for a mutant: no floor under the interval.
IntervalUnbounded(tps) == IF tps = 0 THEN Idle ELSE TicksPerSecond \div tps

\* calculateInterval: an hour for no rate, and never below the floor.
Interval(tps) ==
    IF tps = 0 THEN Idle
    ELSE IF TicksPerSecond \div tps < 1 THEN 1
    ELSE TicksPerSecond \div tps

Init ==
    /\ cfg \in [shape : Shapes, tps : Rates, from : Rates, to : Rates]
    /\ rampDuration \in Durations
    /\ currentTPS = cfg.tps
    /\ ticker = [at |-> "nil", period |-> Idle, due |-> 0]
    /\ rampStart = 0 /\ rampDone = 0 /\ nRamps = 0
    /\ ramp = [r \in RampIds |-> [at |-> "unborn", due |-> 0]]
    /\ ended = {}
    /\ stopped = FALSE
    /\ now = 0 /\ lastTick = 0
    /\ calls = 0

-----------------------------------------------------------------------------
(* The methods, each under re.mu *)

\* endRampLocked
EndRampLocked == ended' = ended \union ({rampDone} \ {0})

\* Variant for a mutant: a ramp starts beside the one in progress.
StartRampBeside ==
    /\ UNCHANGED ended
    /\ rampStart' = now
    /\ nRamps' = nRamps + 1
    /\ rampDone' = nRamps + 1
    /\ ramp' = [ramp EXCEPT ![nRamps + 1] = [at |-> "select", due |-> now + 1]]

\* startRampLocked: the ramp in progress ends, a new one starts now.
StartRampLocked ==
    /\ EndRampLocked
    /\ rampStart' = now
    /\ nRamps' = nRamps + 1
    /\ rampDone' = nRamps + 1
    /\ ramp' = [ramp EXCEPT ![nRamps + 1] = [at |-> "select", due |-> now + 1]]

NoRampChange == UNCHANGED <<ended, rampStart, nRamps, rampDone, ramp>>

\* Variant for a mutant: a new rate does not reach the ticker.
ResetNothing(tps) == UNCHANGED ticker

\* ticker.Reset: the period starts again from now, whatever was left of it. It
\* also sets a stopped ticker going.
Reset(tps) ==
    IF ticker.at = "nil" THEN UNCHANGED ticker
    ELSE ticker' = [at |-> "on", period |-> Interval(tps), due |-> now + Interval(tps)]

\* Ticker: a new ticker in the place of the old one; a ramp starts from now.
Ticker ==
    /\ calls < MaxCalls
    /\ calls' = calls + 1
    /\ IF cfg.shape = "ramp" /\ rampDuration > 0
       THEN currentTPS' = cfg.from /\ StartRampLocked
       ELSE UNCHANGED currentTPS /\ NoRampChange
    /\ ticker' = [at |-> "on", period |-> Interval(currentTPS'),
                  due |-> now + Interval(currentTPS')]
    /\ lastTick' = now
    /\ UNCHANGED <<cfg, rampDuration, stopped, now>>

\* UpdateRate. Each argument may be absent or refused, which keeps the value in
\* force; an absent tps is 0. The new values are then any of those a caller can
\* name, and the ramp starts again or ends.
UpdateRate ==
    /\ calls < MaxCalls
    /\ calls' = calls + 1
    /\ cfg' \in [shape : Shapes, tps : Rates, from : Rates, to : Rates]
    /\ rampDuration' \in Durations
    /\ IF cfg'.shape = "ramp" /\ rampDuration' > 0
       THEN currentTPS' = cfg'.from /\ StartRampLocked
       ELSE /\ currentTPS' = cfg'.tps
            /\ EndRampLocked /\ rampDone' = 0
            /\ UNCHANGED <<rampStart, nRamps, ramp>>
    /\ Reset(currentTPS')
    /\ lastTick' = now
    /\ UNCHANGED <<stopped, now>>

\* Stop, once: the ramp and the ticker end.
Stop ==
    /\ CallsStop
    /\ ~stopped
    /\ stopped' = TRUE
    /\ EndRampLocked /\ rampDone' = 0
    /\ ticker' = IF ticker.at = "nil" THEN ticker ELSE [ticker EXCEPT !.at = "off"]
    /\ UNCHANGED <<cfg, rampDuration, currentTPS, rampStart, nRamps, ramp, now,
                   lastTick, calls>>

-----------------------------------------------------------------------------
(* Ramp goroutine r *)

\* Its select takes a tick, even when done or stopCh is ready too. Its ticker keeps to
\* its period: after a tick that waited, the one of this moment may be there too.
RampTick(r) ==
    /\ ramp[r].at = "select"
    /\ ramp[r].due <= now
    /\ \E next \in {now, now + 1} :
         /\ next > ramp[r].due
         /\ ramp' = [ramp EXCEPT ![r] = [at |-> "locking", due |-> next]]
    /\ UNCHANGED <<cfg, rampDuration, currentTPS, ticker, rampStart, rampDone, nRamps,
                   ended, stopped, now, lastTick, calls>>

\* Its select sees done or stopCh closed.
RampEnds(r) ==
    /\ ramp[r].at = "select"
    /\ r \in ended \/ stopped
    /\ ramp' = [ramp EXCEPT ![r].at = "ended"]
    /\ UNCHANGED <<cfg, rampDuration, currentTPS, ticker, rampStart, rampDone, nRamps,
                   ended, stopped, now, lastTick, calls>>

\* Variants for mutants: the ramp goes on past its end; it stops at its last step.
RampRateUnbounded(elapsed) ==
    IF rampDuration = 0 THEN cfg.to
    ELSE cfg.from + ((cfg.to - cfg.from) * elapsed) \div rampDuration

RampRateForgetsTo(elapsed) ==
    IF elapsed >= rampDuration THEN currentTPS
    ELSE cfg.from + ((cfg.to - cfg.from) * elapsed) \div rampDuration

\* The rate a ramp has reached, in whole TPS.
RampRate(elapsed) ==
    IF elapsed >= rampDuration THEN cfg.to
    ELSE cfg.from + ((cfg.to - cfg.from) * elapsed) \div rampDuration

\* With the lock: the rate of the ramp the engine is in now, whichever goroutine
\* this is, and the ticker starts its period again. It does not look at done.
Adjust(r) ==
    /\ ramp[r].at = "locking"
    /\ LET elapsed == now - rampStart IN
         /\ currentTPS' = RampRate(elapsed)
         /\ Reset(currentTPS')
         /\ ramp' = [ramp EXCEPT ![r].at = IF elapsed >= rampDuration THEN "ended"
                                           ELSE "select"]
    /\ UNCHANGED <<cfg, rampDuration, rampStart, rampDone, nRamps, ended, stopped, now,
                   lastTick, calls>>

-----------------------------------------------------------------------------
(* Time *)

Due == ticker.at = "on" /\ ticker.due <= now

\* The ticker fires, for the generation loop that reads it.
Fire ==
    /\ Due
    /\ ticker' = [ticker EXCEPT !.due = now + ticker.period]
    /\ lastTick' = now
    /\ UNCHANGED <<cfg, rampDuration, currentTPS, rampStart, rampDone, nRamps, ramp,
                   ended, stopped, now, calls>>

\* A ramp goroutine that has something to do.
Busy(r) ==
    \/ ramp[r].at = "locking"
    \/ ramp[r].at = "select" /\ (ramp[r].due <= now \/ r \in ended \/ stopped)

Advance ==
    /\ ~Due
    /\ Punctual => \A r \in RampIds : ~Busy(r)
    /\ now < MaxTime
    /\ now' = now + 1
    /\ UNCHANGED <<cfg, rampDuration, currentTPS, ticker, rampStart, rampDone, nRamps,
                   ramp, ended, stopped, lastTick, calls>>

Next ==
    \/ Ticker \/ UpdateRate \/ Stop
    \/ \E r \in RampIds : RampTick(r) \/ RampEnds(r) \/ Adjust(r)
    \/ Fire \/ Advance

Spec == Init /\ [][Next]_vars

-----------------------------------------------------------------------------
(* Properties *)

TypeOK ==
    /\ cfg \in [shape : Shapes, tps : Rates, from : Rates, to : Rates]
    /\ rampDuration \in Durations
    /\ currentTPS \in Nat
    /\ ticker \in [at : {"nil", "on", "off"}, period : Nat \ {0}, due : Nat]
    /\ nRamps \in 0..calls /\ rampDone \in 0..nRamps /\ ended \subseteq 1..nRamps
    /\ ramp \in [RampIds -> [at : {"unborn", "select", "locking", "ended"}, due : Nat]]
    /\ stopped \in BOOLEAN
    /\ now \in 0..MaxTime /\ rampStart \in 0..now /\ lastTick \in 0..now
    /\ calls \in 0..MaxCalls

Ramping == cfg.shape = "ramp" /\ rampDuration > 0

\* The ticker has the period of the rate in force: no change of the rate, by a
\* caller or by a ramp, leaves the generation loop on the old one.
TickerFollowsRate == ticker.at # "nil" => ticker.period = Interval(currentTPS)

\* At most one ramp goroutine has not been told to end, the one of rampDone: what
\* startRampLocked says of itself.
OneRamp ==
    \A r \in RampIds :
        ramp[r].at \in {"select", "locking"} /\ r \notin ended => r = rampDone

\* A ramp's rate stays between its ends, however late its goroutine runs and
\* whichever ramp's goroutine it is.
RateWithinRamp ==
    Ramping /\ ticker.at # "nil" =>
        \/ cfg.from <= currentTPS /\ currentTPS <= cfg.to
        \/ cfg.to <= currentTPS /\ currentTPS <= cfg.from

\* A ramp that ran to its end leaves its final rate in force.
FinishedRampHoldsTo ==
    rampDone # 0 /\ ramp[rampDone].at = "ended" /\ rampDone \notin ended /\ ~stopped =>
        currentTPS = cfg.to

\* A constant rate asked for is the rate in force: it ends a ramp.
ConstantRateStays ==
    cfg.shape = "constant" /\ ticker.at # "nil" => currentTPS = cfg.tps

\* The ticker fires at the configured rate: during a ramp no more time passes
\* without a tick than twice the interval of the lower of its two rates.
RampKeepsTicking ==
    Ramping /\ ticker.at = "on" =>
        now - lastTick <= 2 * Interval(IF cfg.from < cfg.to THEN cfg.from ELSE cfg.to)
=============================================================================
