-------------------------- MODULE RateEngineProofs --------------------------
(***************************************************************************)
(* Proofs about RateEngine, for every set of rates and durations and any   *)
(* number of calls and of ramps.                                           *)
(***************************************************************************)
EXTENDS RateEngine, TLAPS

-----------------------------------------------------------------------------
(* The numbers *)

\* What \div means for a positive divisor, also below zero.
LEMMA Division ==
    ASSUME NEW a \in Int, NEW d \in Nat \ {0}
    PROVE  /\ a \div d \in Int
           /\ d * (a \div d) <= a
           /\ a < d * (a \div d) + d
  BY SMTT(30)

\* A part of a difference lies between nothing and the whole of it.
LEMMA PartBelow ==
    ASSUME NEW x \in Nat, NEW e \in Nat, NEW d \in Nat \ {0}, e < d
    PROVE  (x * e) \div d \in 0..x
  <1> DEFINE q == (x * e) \div d
  <1>1. x * e \in Nat /\ x * e <= x * d
    BY SMTT(30)
  <1>2. q \in Int /\ d * q <= x * e /\ x * e < d * q + d
    BY <1>1, Division
  <1>3. q >= 0
    BY <1>1, <1>2, SMTT(30)
  <1>4. q <= x
    BY <1>1, <1>2, SMTT(30)
  <1> QED
    BY <1>2, <1>3, <1>4

\* calculateInterval never gives a ticker a period that is not positive.
LEMMA IntervalPositive ==
    ASSUME NEW tps \in Nat
    PROVE  Interval(tps) \in Nat \ {0}
  <1>1. CASE tps = 0
    BY <1>1, UnitsAssumption DEF Interval
  <1>2. CASE tps # 0
    <2>1. TicksPerSecond \div tps \in Int
      BY <1>2, UnitsAssumption, Division
    <2> QED
      BY <1>2, <2>1 DEF Interval
  <1> QED
    BY <1>1, <1>2

Between(x, a, b) == (a <= x /\ x <= b) \/ (b <= x /\ x <= a)

\* The rate a ramp has reached is between its ends.
LEMMA RampRateBetween ==
    ASSUME cfg.from \in Nat, cfg.to \in Nat, rampDuration \in Nat, NEW elapsed \in Nat
    PROVE  /\ RampRate(elapsed) \in Nat
           /\ Between(RampRate(elapsed), cfg.from, cfg.to)
  <1>1. CASE elapsed >= rampDuration
    BY <1>1 DEF RampRate, Between
  <1>2. CASE elapsed < rampDuration /\ cfg.from <= cfg.to
    <2> DEFINE x == cfg.to - cfg.from
    <2>1. x \in Nat /\ rampDuration \in Nat \ {0}
      BY <1>2
    <2>2. (x * elapsed) \div rampDuration \in 0..x
      <3> HIDE DEF x
      <3> QED
        BY <1>2, <2>1, PartBelow
    <2> QED
      BY <1>2, <2>2 DEF RampRate, Between
  <1>3. CASE elapsed < rampDuration /\ cfg.from > cfg.to
    <2> DEFINE x == cfg.from - cfg.to
               q == ((cfg.to - cfg.from) * elapsed) \div rampDuration
    <2>1. x \in Nat /\ rampDuration \in Nat \ {0}
      BY <1>3
    <2>2. (cfg.to - cfg.from) * elapsed = -(x * elapsed) /\ x * elapsed \in Nat
          /\ x * elapsed <= x * rampDuration
      BY <1>3, <2>1, SMTT(30)
    <2>3. q \in Int /\ rampDuration * q <= -(x * elapsed)
          /\ -(x * elapsed) < rampDuration * q + rampDuration
      <3> DEFINE a == (cfg.to - cfg.from) * elapsed
      <3>1. a \in Int /\ a = -(x * elapsed) /\ q = a \div rampDuration
        BY <2>2
      <3>2. a \div rampDuration \in Int /\ rampDuration * (a \div rampDuration) <= a
            /\ a < rampDuration * (a \div rampDuration) + rampDuration
        <4> HIDE DEF a, x, q
        <4> QED
          BY <2>1, <3>1, Division
      <3> QED
        BY <3>1, <3>2
    <2>4. q <= 0
      BY <2>1, <2>2, <2>3, SMTT(30)
    <2>5. q >= -x
      BY <2>1, <2>2, <2>3, SMTT(30)
    <2> QED
      BY <1>3, <2>3, <2>4, <2>5 DEF RampRate, Between
  <1> QED
    BY <1>1, <1>2, <1>3

-----------------------------------------------------------------------------
(* Type correctness *)

\* What the methods that start or end a ramp make of the goroutines.
LEMMA RampTypes ==
    ASSUME TypeOK, calls < MaxCalls, StartRampLocked \/ (EndRampLocked /\ rampDone' = 0
                                        /\ UNCHANGED <<rampStart, nRamps, ramp>>)
                   \/ NoRampChange
    PROVE  /\ nRamps' \in 0..(calls + 1) /\ rampDone' \in 0..nRamps'
           /\ ended' \subseteq 1..nRamps'
           /\ ramp' \in [RampIds -> [at : {"unborn", "select", "locking", "ended"}, due : Nat]]
           /\ rampStart' \in 0..now
  <1> USE TimeBoundsAssumption
  <1>1. CASE StartRampLocked
    <2>1. nRamps' \in 0..(calls + 1) /\ rampDone' \in 0..nRamps' /\ rampStart' \in 0..now
      BY <1>1 DEF StartRampLocked, TypeOK
    <2>2. ended' \subseteq 1..nRamps'
      BY <1>1 DEF StartRampLocked, EndRampLocked, TypeOK
    <2>3. [at |-> "select", due |-> now + 1]
              \in [at : {"unborn", "select", "locking", "ended"}, due : Nat]
      BY DEF TypeOK
    <2>4. ramp' \in [RampIds -> [at : {"unborn", "select", "locking", "ended"}, due : Nat]]
      BY <1>1, <2>3 DEF StartRampLocked, TypeOK
    <2> QED
      BY <2>1, <2>2, <2>4
  <1>2. CASE EndRampLocked /\ rampDone' = 0 /\ UNCHANGED <<rampStart, nRamps, ramp>>
    BY <1>2 DEF EndRampLocked, TypeOK
  <1>3. CASE NoRampChange
    BY <1>3 DEF NoRampChange, TypeOK
  <1> QED
    BY <1>1, <1>2, <1>3

\* A ticker that is reset to a rate keeps its type.
LEMMA ResetTypes ==
    ASSUME TypeOK, NEW tps \in Nat, Reset(tps)
    PROVE  ticker' \in [at : {"nil", "on", "off"}, period : Nat \ {0}, due : Nat]
  BY IntervalPositive, TimeBoundsAssumption DEF Reset, TypeOK

\* The calls keep every type.
LEMMA TypeCalls == TypeOK /\ (Ticker \/ UpdateRate \/ Stop) => TypeOK'
  <1> SUFFICES ASSUME TypeOK, Ticker \/ UpdateRate \/ Stop PROVE TypeOK'
    OBVIOUS
  <1> USE TimeBoundsAssumption
  <1>1. CASE Ticker
    <2>1. currentTPS' \in Nat
      BY <1>1, RatesAssumption DEF Ticker, TypeOK
    <2>2. ticker' \in [at : {"nil", "on", "off"}, period : Nat \ {0}, due : Nat]
      BY <1>1, <2>1, IntervalPositive DEF Ticker, TypeOK
    <2>3. StartRampLocked \/ NoRampChange
      BY <1>1 DEF Ticker
    <2>4. calls < MaxCalls
      BY <1>1 DEF Ticker
    <2> QED
      BY <1>1, <2>1, <2>2, <2>3, <2>4, RampTypes DEF Ticker, TypeOK
  <1>2. CASE UpdateRate
    <2>1. cfg' \in [shape : Shapes, tps : Rates, from : Rates, to : Rates]
          /\ rampDuration' \in Durations
      BY <1>2 DEF UpdateRate
    <2>2. currentTPS' \in Nat
      BY <1>2, <2>1, RatesAssumption DEF UpdateRate
    <2>3. ticker' \in [at : {"nil", "on", "off"}, period : Nat \ {0}, due : Nat]
      BY <1>2, <2>2, ResetTypes DEF UpdateRate
    <2>4. StartRampLocked \/ (EndRampLocked /\ rampDone' = 0
                              /\ UNCHANGED <<rampStart, nRamps, ramp>>)
      BY <1>2 DEF UpdateRate
    <2>5. calls < MaxCalls
      BY <1>2 DEF UpdateRate
    <2> QED
      BY <1>2, <2>1, <2>2, <2>3, <2>4, <2>5, RampTypes DEF UpdateRate, TypeOK
  <1>3. CASE Stop
    <2>1. ended' \subseteq 1..nRamps
      BY <1>3 DEF Stop, EndRampLocked, TypeOK
    <2> QED
      BY <1>3, <2>1 DEF Stop, TypeOK
  <1> QED
    BY <1>1, <1>2, <1>3

\* The ramp goroutines and time keep every type.
LEMMA TypeSteps ==
    TypeOK /\ ((\E r \in RampIds : RampTick(r) \/ RampEnds(r) \/ Adjust(r)) \/ Fire \/ Advance)
        => TypeOK'
  <1> SUFFICES ASSUME TypeOK, (\E r \in RampIds : RampTick(r) \/ RampEnds(r) \/ Adjust(r))
                              \/ Fire \/ Advance
               PROVE TypeOK'
    OBVIOUS
  <1> USE TimeBoundsAssumption
  <1>1. ASSUME NEW r \in RampIds, RampTick(r) PROVE TypeOK'
    <2>1. PICK next \in {now, now + 1} : ramp' = [ramp EXCEPT ![r] = [at |-> "locking", due |-> next]]
      BY <1>1 DEF RampTick
    <2>2. next \in Nat
      BY DEF TypeOK
    <2> QED
      BY <1>1, <2>1, <2>2 DEF RampTick, TypeOK
  <1>2. ASSUME NEW r \in RampIds, RampEnds(r) PROVE TypeOK'
    BY <1>2 DEF RampEnds, TypeOK
  <1>3. ASSUME NEW r \in RampIds, Adjust(r) PROVE TypeOK'
    <2>1. cfg.from \in Nat /\ cfg.to \in Nat /\ rampDuration \in Nat /\ now - rampStart \in Nat
      <3>1. cfg.from \in Rates /\ cfg.to \in Rates /\ rampDuration \in Durations
        BY DEF TypeOK
      <3>2. now \in Nat /\ rampStart \in 0..now
        BY DEF TypeOK
      <3>3. cfg.from \in Nat /\ cfg.to \in Nat
        BY <3>1, RatesAssumption
      <3>4. rampDuration \in Nat
        BY <3>1, DurationsAssumption
      <3>5. now - rampStart \in Nat
        BY <3>2
      <3> QED
        BY <3>3, <3>4, <3>5
    <2>2. currentTPS' \in Nat
      BY <1>3, <2>1, RampRateBetween DEF Adjust
    <2>3. ticker' \in [at : {"nil", "on", "off"}, period : Nat \ {0}, due : Nat]
      BY <1>3, <2>2, ResetTypes DEF Adjust
    <2>4. ramp' \in [RampIds -> [at : {"unborn", "select", "locking", "ended"}, due : Nat]]
      BY <1>3 DEF Adjust, TypeOK
    <2> QED
      BY <1>3, <2>2, <2>3, <2>4 DEF Adjust, TypeOK
  <1>4. CASE Fire
    BY <1>4 DEF Fire, TypeOK
  <1>5. CASE Advance
    BY <1>5 DEF Advance, TypeOK
  <1> QED
    BY <1>1, <1>2, <1>3, <1>4, <1>5

\* The rate engine keeps its types: in particular every period is positive, below
\* which a time.Ticker panics, and every rate is one that can be.
THEOREM TypeCorrect == Spec => []TypeOK
  <1>1. Init => TypeOK
    <2> SUFFICES ASSUME Init PROVE TypeOK
      OBVIOUS
    <2>1. currentTPS \in Nat
      BY RatesAssumption DEF Init
    <2>2. ticker \in [at : {"nil", "on", "off"}, period : Nat \ {0}, due : Nat]
      BY UnitsAssumption DEF Init
    <2>3. ramp \in [RampIds -> [at : {"unborn", "select", "locking", "ended"}, due : Nat]]
      BY DEF Init
    <2>4. /\ nRamps \in 0..calls /\ rampDone \in 0..nRamps /\ ended \subseteq 1..nRamps
          /\ now \in 0..MaxTime /\ rampStart \in 0..now /\ lastTick \in 0..now
          /\ calls \in 0..MaxCalls
      BY TimeBoundsAssumption DEF Init
    <2> QED
      BY <2>1, <2>2, <2>3, <2>4 DEF Init, TypeOK
  <1>2. TypeOK /\ [Next]_vars => TypeOK'
    <2> SUFFICES ASSUME TypeOK, [Next]_vars PROVE TypeOK'
      OBVIOUS
    <2>1. CASE UNCHANGED vars
      BY <2>1 DEF vars, TypeOK
    <2>2. CASE Next
      BY <2>2, TypeCalls, TypeSteps DEF Next
    <2> QED
      BY <2>1, <2>2
  <1> QED
    BY <1>1, <1>2, PTL DEF Spec

-----------------------------------------------------------------------------
(* The ticker and the rate *)

\* The ticker has the period of the rate in force, in every step.
LEMMA TickerStep == TypeOK /\ TickerFollowsRate /\ [Next]_vars => TickerFollowsRate'
  <1> SUFFICES ASSUME TypeOK, TickerFollowsRate, [Next]_vars PROVE TickerFollowsRate'
    OBVIOUS
  <1>1. ASSUME NEW tps, Reset(tps), currentTPS' = tps PROVE TickerFollowsRate'
    BY <1>1 DEF Reset, TickerFollowsRate
  <1>2. CASE Ticker
    BY <1>2 DEF Ticker, TickerFollowsRate
  <1>3. CASE UpdateRate
    BY <1>1, <1>3 DEF UpdateRate
  <1>4. CASE Stop
    <2>1. ticker'.period = ticker.period /\ (ticker'.at = "nil" <=> ticker.at = "nil")
      BY <1>4 DEF Stop, TypeOK
    <2> QED
      BY <1>4, <2>1 DEF Stop, TickerFollowsRate
  <1>5. ASSUME NEW r \in RampIds, RampTick(r) \/ RampEnds(r) PROVE TickerFollowsRate'
    BY <1>5 DEF RampTick, RampEnds, TickerFollowsRate
  <1>6. ASSUME NEW r \in RampIds, Adjust(r) PROVE TickerFollowsRate'
    BY <1>1, <1>6 DEF Adjust
  <1>7. CASE Fire
    <2>1. ticker'.period = ticker.period /\ ticker'.at = ticker.at
      BY <1>7 DEF Fire, TypeOK
    <2> QED
      BY <1>7, <2>1 DEF Fire, TickerFollowsRate
  <1>8. CASE Advance \/ UNCHANGED vars
    BY <1>8 DEF Advance, vars, TickerFollowsRate
  <1> QED
    BY <1>2, <1>3, <1>4, <1>5, <1>6, <1>7, <1>8 DEF Next

\* A change of the rate by whoever makes it, a caller or the goroutine of a ramp
\* that was ended long ago, reaches the ticker in the same step.
THEOREM TickerFollowsRateHolds == Spec => []TickerFollowsRate
  <1>1. Init => TickerFollowsRate
    BY DEF Init, TickerFollowsRate
  <1> QED
    BY <1>1, TickerStep, TypeCorrect, PTL DEF Spec

\* While a ramp is on, the rate is between its ends.
LEMMA WithinStep == TypeOK /\ RateWithinRamp /\ [Next]_vars => RateWithinRamp'
  <1> SUFFICES ASSUME TypeOK, RateWithinRamp, [Next]_vars PROVE RateWithinRamp'
    OBVIOUS
  <1>a. cfg.from \in Rates /\ cfg.to \in Rates /\ rampDuration \in Durations
    BY DEF TypeOK
  <1>b. cfg.from \in Nat /\ cfg.to \in Nat /\ rampDuration \in Nat
    BY <1>a, RatesAssumption, DurationsAssumption
  <1>1. CASE Ticker
    <2>1. CASE Ramping
      <3>1. currentTPS' = cfg.from /\ cfg' = cfg
        BY <1>1, <2>1 DEF Ticker, Ramping
      <3> QED
        BY <1>b, <3>1 DEF RateWithinRamp
    <2>2. CASE ~Ramping
      BY <1>1, <2>2 DEF Ticker, Ramping, RateWithinRamp
    <2> QED
      BY <2>1, <2>2
  <1>2. CASE UpdateRate
    <2> SUFFICES ASSUME Ramping' PROVE RateWithinRamp'
      BY DEF RateWithinRamp
    <2>1. currentTPS' = cfg'.from /\ cfg' \in [shape : Shapes, tps : Rates, from : Rates, to : Rates]
      BY <1>2 DEF UpdateRate, Ramping
    <2>2. cfg'.from \in Nat /\ cfg'.to \in Nat
      <3>1. cfg'.from \in Rates /\ cfg'.to \in Rates
        BY <2>1
      <3> QED
        BY <3>1, RatesAssumption
    <2> QED
      BY <2>1, <2>2 DEF RateWithinRamp
  <1>3. CASE Stop
    <2>1. ticker'.at = "nil" <=> ticker.at = "nil"
      BY <1>3 DEF Stop, TypeOK
    <2> QED
      BY <1>3, <2>1 DEF Stop, Ramping, RateWithinRamp
  <1>4. ASSUME NEW r \in RampIds, RampTick(r) \/ RampEnds(r) PROVE RateWithinRamp'
    BY <1>4 DEF RampTick, RampEnds, Ramping, RateWithinRamp
  <1>5. ASSUME NEW r \in RampIds, Adjust(r) PROVE RateWithinRamp'
    <2>1. now - rampStart \in Nat
      BY DEF TypeOK
    <2>2. Between(currentTPS', cfg.from, cfg.to) /\ cfg' = cfg
      BY <1>5, <1>b, <2>1, RampRateBetween DEF Adjust
    <2> QED
      BY <2>2 DEF Between, RateWithinRamp
  <1>6. CASE Fire
    <2>1. ticker'.at = ticker.at
      BY <1>6 DEF Fire, TypeOK
    <2> QED
      BY <1>6, <2>1 DEF Fire, Ramping, RateWithinRamp
  <1>7. CASE Advance \/ UNCHANGED vars
    BY <1>7 DEF Advance, vars, Ramping, RateWithinRamp
  <1> QED
    BY <1>1, <1>2, <1>3, <1>4, <1>5, <1>6, <1>7 DEF Next

\* However late a ramp goroutine runs, and whichever ramp it belongs to, the rate of
\* a ramp stays between the two rates it was given.
THEOREM RateWithinRampHolds == Spec => []RateWithinRamp
  <1>1. Init => RateWithinRamp
    BY DEF Init, RateWithinRamp
  <1> QED
    BY <1>1, WithinStep, TypeCorrect, PTL DEF Spec

-----------------------------------------------------------------------------
(* The ramps *)

\* The ramp goroutines there are, and the one in progress: it was not told to end,
\* the others were; and once it has ended by itself, its time is over, its last rate
\* is in force, and a goroutine that comes later can only set that rate again.
RampsInOrder ==
    /\ \A r \in RampIds : r > nRamps => ramp[r].at = "unborn"
    /\ rampDone \notin ended
    /\ OneRamp
    /\ rampDone # 0 /\ ramp[rampDone].at = "ended" /\ ~stopped =>
         currentTPS = cfg.to /\ now - rampStart >= rampDuration

\* A new ramp is the only one that was not told to end.
LEMMA NewRamp ==
    ASSUME TypeOK, RampsInOrder, calls < MaxCalls, StartRampLocked, UNCHANGED stopped
    PROVE  RampsInOrder'
  <1> USE TimeBoundsAssumption
  <1>1. /\ nRamps \in Nat /\ nRamps + 1 \in RampIds /\ nRamps' = nRamps + 1
        /\ rampDone' = nRamps + 1 /\ ended' = ended \union ({rampDone} \ {0})
        /\ ramp' = [ramp EXCEPT ![nRamps + 1] = [at |-> "select", due |-> now + 1]]
    BY DEF TypeOK, StartRampLocked, EndRampLocked, RampIds
  <1>2. ramp'[nRamps + 1].at = "select"
    BY <1>1 DEF TypeOK
  <1>3. \A r \in RampIds : r # nRamps + 1 => ramp'[r] = ramp[r]
    BY <1>1 DEF TypeOK
  <1>4. nRamps + 1 \notin ended'
    BY <1>1 DEF TypeOK
  <1>5. \A r \in RampIds : r > nRamps' => ramp'[r].at = "unborn"
    BY <1>1, <1>3 DEF RampsInOrder, RampIds
  <1>6. ASSUME NEW r \in RampIds, ramp'[r].at \in {"select", "locking"}, r \notin ended'
        PROVE  r = rampDone'
    <2> SUFFICES ASSUME r # nRamps + 1 PROVE FALSE
      BY <1>1
    <2>1. r = rampDone
      BY <1>1, <1>3, <1>6 DEF RampsInOrder, OneRamp
    <2>2. r # 0
      BY DEF RampIds
    <2> QED
      BY <1>1, <1>6, <2>1, <2>2
  <1> QED
    BY <1>1, <1>2, <1>4, <1>5, <1>6 DEF RampsInOrder, OneRamp

\* Where the ramp in progress is told to end, none is in progress.
LEMMA NoRamp ==
    ASSUME TypeOK, RampsInOrder, EndRampLocked, rampDone' = 0, UNCHANGED <<nRamps, ramp>>
    PROVE  RampsInOrder'
  <1>1. 0 \notin ended'
    BY DEF TypeOK, EndRampLocked
  <1>2. OneRamp'
    BY DEF RampsInOrder, OneRamp, EndRampLocked, RampIds
  <1> QED
    BY <1>1, <1>2 DEF RampsInOrder

\* The ramps stay in order.
LEMMA RampsStep == TypeOK /\ RampsInOrder /\ [Next]_vars => RampsInOrder'
  <1> SUFFICES ASSUME TypeOK, RampsInOrder, [Next]_vars PROVE RampsInOrder'
    OBVIOUS
  <1> USE TimeBoundsAssumption
  <1>1. CASE Ticker
    <2>1. CASE StartRampLocked
      BY <1>1, <2>1, NewRamp DEF Ticker
    <2>2. CASE UNCHANGED currentTPS /\ NoRampChange
      BY <1>1, <2>2 DEF Ticker, NoRampChange, RampsInOrder, OneRamp
    <2> QED
      BY <1>1, <2>1, <2>2 DEF Ticker
  <1>2. CASE UpdateRate
    BY <1>2, NewRamp, NoRamp DEF UpdateRate
  <1>3. CASE Stop
    BY <1>3, NoRamp DEF Stop
  <1>4. ASSUME NEW r \in RampIds, RampTick(r) PROVE RampsInOrder'
    <2>1. /\ ramp[r].at = "select" /\ ramp'[r].at = "locking"
          /\ \A s \in RampIds : s # r => ramp'[s] = ramp[s]
      BY <1>4 DEF RampTick, TypeOK
    <2>2. UNCHANGED <<cfg, rampDuration, currentTPS, rampStart, rampDone, nRamps, ended, stopped, now>>
      BY <1>4 DEF RampTick
    <2>3. rampDone # 0 => rampDone \in RampIds
      BY DEF TypeOK, RampIds
    <2> QED
      BY <2>1, <2>2, <2>3 DEF RampsInOrder, OneRamp
  <1>5. ASSUME NEW r \in RampIds, RampEnds(r) PROVE RampsInOrder'
    <2>1. /\ ramp[r].at = "select" /\ ramp'[r].at = "ended" /\ (r \in ended \/ stopped)
          /\ \A s \in RampIds : s # r => ramp'[s] = ramp[s]
      BY <1>5 DEF RampEnds, TypeOK
    <2>2. UNCHANGED <<cfg, rampDuration, currentTPS, rampStart, rampDone, nRamps, ended, stopped, now>>
      BY <1>5 DEF RampEnds
    <2>3. rampDone # 0 => rampDone \in RampIds
      BY DEF TypeOK, RampIds
    <2> QED
      BY <2>1, <2>2, <2>3 DEF RampsInOrder, OneRamp
  <1>6. ASSUME NEW r \in RampIds, Adjust(r) PROVE RampsInOrder'
    <2>1. /\ ramp[r].at = "locking"
          /\ ramp'[r].at = IF now - rampStart >= rampDuration THEN "ended" ELSE "select"
          /\ \A s \in RampIds : s # r => ramp'[s] = ramp[s]
      BY <1>6 DEF Adjust, TypeOK
    <2>2. UNCHANGED <<cfg, rampDuration, rampStart, rampDone, nRamps, ended, stopped, now>>
      BY <1>6 DEF Adjust
    <2>3. now - rampStart >= rampDuration => currentTPS' = cfg.to
      BY <1>6 DEF Adjust, RampRate
    <2>4. rampDone # 0 => rampDone \in RampIds
      BY DEF TypeOK, RampIds
    <2> QED
      BY <2>1, <2>2, <2>3, <2>4 DEF RampsInOrder, OneRamp
  <1>7. CASE Fire \/ UNCHANGED vars
    BY <1>7 DEF Fire, vars, RampsInOrder, OneRamp
  <1>8. CASE Advance
    <2>1. now \in Nat /\ rampStart \in Nat /\ rampDuration \in Nat /\ now' = now + 1
      BY <1>8, DurationsAssumption DEF TypeOK, Advance
    <2>2. UNCHANGED <<cfg, rampDuration, currentTPS, rampStart, rampDone, nRamps, ramp, ended, stopped>>
      BY <1>8 DEF Advance
    <2>3. now - rampStart >= rampDuration => now' - rampStart >= rampDuration
      BY <2>1
    <2> QED
      BY <2>2, <2>3 DEF RampsInOrder, OneRamp
  <1> QED
    BY <1>1, <1>2, <1>3, <1>4, <1>5, <1>6, <1>7, <1>8 DEF Next

\* The ramps are in order in every state.
LEMMA RampsInductive == Spec => []RampsInOrder
  <1>1. Init => RampsInOrder
    BY DEF Init, RampsInOrder, OneRamp, RampIds
  <1> QED
    BY <1>1, RampsStep, TypeCorrect, PTL DEF Spec

\* At most one ramp goroutine was not told to end, whatever calls Ticker and
\* UpdateRate get.
THEOREM OneRampHolds == Spec => []OneRamp
  <1>1. RampsInOrder => OneRamp
    BY DEF RampsInOrder
  <1> QED
    BY <1>1, RampsInductive, PTL

\* A ramp that ran to its end arrives and stays there, even if goroutines of ramps
\* before it are still to adjust the rate.
THEOREM FinishedRampHoldsToHolds == Spec => []FinishedRampHoldsTo
  <1>1. RampsInOrder => FinishedRampHoldsTo
    BY DEF RampsInOrder, FinishedRampHoldsTo
  <1> QED
    BY <1>1, RampsInductive, PTL
=============================================================================
