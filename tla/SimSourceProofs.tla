------------------------- MODULE SimSourceProofs -------------------------
(***************************************************************************)
(* Proofs about SimSource, for every number of Starts, commands and loops. *)
(***************************************************************************)
EXTENDS SimSource, TLAPS

-----------------------------------------------------------------------------
(* Type correctness *)

\* startGeneration keeps the types of what it touches.
LEMMA StartGenerationTypes ==
    ASSUME TypeOK, NEW ctx \in Nat, StartGeneration(ctx)
    PROVE  /\ running' \in BOOLEAN
           /\ nLoops' \in 0..MaxLoops
           /\ genDone' \in 0..nLoops'
           /\ loop' \in [LoopIds -> [at : LoopPlaces, ch : Nat, ctx : Nat]]
  <1>1. /\ loop \in [LoopIds -> [at : LoopPlaces, ch : Nat, ctx : Nat]]
        /\ stopCh \in Nat
    BY DEF TypeOK
  <1>2. CASE running
    BY <1>2 DEF TypeOK, StartGeneration
  <1>3. CASE ~running
    <2>1. [at |-> "spawned", ch |-> stopCh, ctx |-> ctx]
              \in [at : LoopPlaces, ch : Nat, ctx : Nat]
      BY <1>1 DEF LoopPlaces
    <2>2. loop' \in [LoopIds -> [at : LoopPlaces, ch : Nat, ctx : Nat]]
      BY <1>1, <1>3, <2>1 DEF StartGeneration
    <2>3. /\ running' \in BOOLEAN
          /\ nLoops' \in 0..MaxLoops
          /\ genDone' \in 0..nLoops'
      <3>1. running' = TRUE /\ nLoops < MaxLoops /\ nLoops' = nLoops + 1
            /\ genDone' = nLoops + 1
        BY <1>3 DEF StartGeneration
      <3>2. nLoops \in 0..MaxLoops
        BY DEF TypeOK
      <3> QED
        BY <3>1, <3>2, BoundsAssumption
    <2> QED
      BY <2>2, <2>3
  <1> QED
    BY <1>2, <1>3

\* closeStopLocked closes no channel that was not made.
LEMMA CloseStopTypes ==
    ASSUME TypeOK, CloseStopLocked
    PROVE  closed' \subseteq 1..nChans
  BY DEF TypeOK, CloseStopLocked

\* Moving a control loop keeps the type of the control loops.
LEMMA MoveControlTypes ==
    ASSUME TypeOK, NEW k \in Nat, NEW place \in ControlPlaces,
           ctl' = [ctl EXCEPT ![k].pc = place]
    PROVE  ctl' \in [StartIds -> [pc : ControlPlaces, cmd : LastCommands, done : Nat]]
  BY DEF TypeOK

\* Moving a loop to a place keeps the type of the loops.
LEMMA MoveLoopTypes ==
    ASSUME TypeOK, NEW l \in LoopIds, NEW place \in LoopPlaces, MoveLoop(l, place)
    PROVE  loop' \in [LoopIds -> [at : LoopPlaces, ch : Nat, ctx : Nat]]
  BY DEF TypeOK, MoveLoop

\* The runtime's steps keep every type: Start, its three ways on, Drain, Stop.
LEMMA TypeRuntime == TypeOK /\ RuntimeStep => TypeOK'
  <1> SUFFICES ASSUME TypeOK, RuntimeStep PROVE TypeOK'
    OBVIOUS
  <1> USE BoundsAssumption
  <1>1. CASE Start
    BY <1>1 DEF TypeOK, Start, MakeStopCh, loops, Phases
  <1>2. CASE Subscribed
    <2>1. ctl' \in [StartIds -> [pc : ControlPlaces, cmd : LastCommands, done : Nat]]
      BY <1>2, MoveControlTypes, ZenonT(30) DEF TypeOK, Subscribed, ControlPlaces
    <2>2. sub' \in 0..nStarts'
      BY <1>2 DEF TypeOK, Subscribed
    <2> QED
      BY <1>2, <2>1, <2>2 DEF TypeOK, Subscribed, loops, chans
  <1>3. CASE NotSubscribed
    BY <1>3 DEF TypeOK, NotSubscribed, gear, loops, chans
  <1>4. CASE GenerateOnLoad
    BY <1>4, StartGenerationTypes DEF TypeOK, GenerateOnLoad, chans
  <1>5. CASE ShutDown
    <2>1. closed' \subseteq 1..nChans'
      BY <1>5, CloseStopTypes DEF ShutDown
    <2>2. ctxDone' \subseteq 1..nStarts'
      BY <1>5 DEF TypeOK, ShutDown
    <2>3. sub' \in 0..nStarts'
      BY <1>5 DEF TypeOK, ShutDown
    <2> QED
      BY <1>5, <2>1, <2>2, <2>3 DEF TypeOK, ShutDown, loops, Phases
  <1>6. ASSUME NEW s \in StartIds, CancelContext(s) PROVE TypeOK'
    BY <1>6 DEF TypeOK, CancelContext, gear, loops, chans, runtime
  <1> QED
    BY <1>1, <1>2, <1>3, <1>4, <1>5, <1>6 DEF RuntimeStep, Drain, Stop

\* A control loop's steps keep every type.
LEMMA TypeControl ==
    ASSUME TypeOK, NEW k \in StartIds, ControlStep(k)
    PROVE  TypeOK'
  <1> USE BoundsAssumption
  <1>1. CASE Receive(k)
    BY <1>1 DEF TypeOK, Receive, gear, loops, chans, runtime, ControlPlaces, LastCommands
  <1>2. CASE ControlLoopEnds(k)
    BY <1>2 DEF TypeOK, ControlLoopEnds, gear, loops, chans, runtime, ControlPlaces
  <1>3. CASE Reseed(k)
    BY <1>3 DEF TypeOK, Reseed, gear, loops, chans, runtime, ControlPlaces
  <1>4. CASE HandleStart(k)
    BY <1>4 DEF TypeOK, HandleStart, MakeStopCh, loops, runtime, ControlPlaces
  <1>5. CASE HandleStop(k)
    <2>1. closed' \subseteq 1..nChans'
      BY <1>5, CloseStopTypes DEF HandleStop
    <2> QED
      BY <1>5, <2>1 DEF TypeOK, HandleStop, loops, runtime, ControlPlaces
  <1>6. CASE HandleRate(k)
    BY <1>6 DEF TypeOK, HandleRate, gear, loops, chans, runtime, ControlPlaces
  <1>7. CASE HandleReset(k)
    <2>1. closed' \subseteq 1..nChans
      BY <1>7, CloseStopTypes DEF HandleReset
    <2>2. /\ nChans' \in Nat
          /\ stopCh' \in 0..nChans'
          /\ closed' \subseteq 1..nChans'
      BY <1>7, <2>1 DEF TypeOK, HandleReset, MakeStopCh
    <2>3. ctl' \in [StartIds -> [pc : ControlPlaces, cmd : LastCommands, done : Nat]]
      BY <1>7, MoveControlTypes DEF HandleReset, ControlPlaces, StartIds
    <2> QED
      BY <1>7, <2>2, <2>3 DEF TypeOK, HandleReset, loops, runtime
  <1>8. CASE SnapshotDone(k)
    <2>1. genDone \in Nat
      BY DEF TypeOK
    <2>2. ctl' \in [StartIds -> [pc : ControlPlaces, cmd : LastCommands, done : Nat]]
      BY <1>8, <2>1, ZenonT(30) DEF TypeOK, SnapshotDone, ControlPlaces
    <2> QED
      BY <1>8, <2>2 DEF TypeOK, SnapshotDone, gear, loops, chans, runtime
  <1>9. CASE LoopExited(k)
    BY <1>9 DEF TypeOK, LoopExited, gear, loops, chans, runtime, ControlPlaces
  <1>10. CASE WaitTimesOut(k)
    BY <1>10 DEF TypeOK, WaitTimesOut, gear, chans, runtime, ControlPlaces
  <1>11. CASE Spawn(k)
    BY <1>11, StartGenerationTypes DEF TypeOK, Spawn, chans, runtime, ControlPlaces
  <1> QED
    BY <1>1, <1>2, <1>3, <1>4, <1>5, <1>6, <1>7, <1>8, <1>9, <1>10, <1>11
       DEF ControlStep

\* A generation loop's steps keep every type.
LEMMA TypeLoop ==
    ASSUME TypeOK, NEW l \in LoopIds, LoopStep(l)
    PROVE  TypeOK'
  <1> USE BoundsAssumption DEF LoopPlaces
  <1>1. CASE TakeTicker(l)
    <2>1. ticker' \in 0..MaxLoops
      BY <1>1 DEF TakeTicker, LoopIds
    <2> QED
      BY <1>1, <2>1, MoveLoopTypes DEF TypeOK, TakeTicker, gear, chans, runtime
  <1>2. CASE Tick(l)
    BY <1>2, MoveLoopTypes DEF TypeOK, Tick, gear, chans, runtime
  <1>3. CASE EmitReturns(l)
    BY <1>3, MoveLoopTypes DEF TypeOK, EmitReturns, gear, chans, runtime
  <1>4. CASE SeeStop(l)
    BY <1>4, MoveLoopTypes DEF TypeOK, SeeStop, gear, chans, runtime
  <1>5. CASE DeadlineFires(l)
    BY <1>5, MoveLoopTypes DEF TypeOK, DeadlineFires, gear, chans, runtime
  <1>6. CASE Expire(l)
    BY <1>6, MoveLoopTypes DEF TypeOK, Expire, gear, chans, runtime
  <1>7. CASE Exit(l)
    BY <1>7, MoveLoopTypes DEF TypeOK, Exit, gear, chans, runtime
  <1> QED
    BY <1>1, <1>2, <1>3, <1>4, <1>5, <1>6, <1>7 DEF LoopStep

\* The gear Init leaves has every type.
LEMMA TypeInit == Init => TypeOK
  <1> SUFFICES ASSUME Init PROVE TypeOK
    OBVIOUS
  <1>1. loop \in [LoopIds -> [at : LoopPlaces, ch : Nat, ctx : Nat]]
    BY DEF Init, LoopPlaces
  <1>2. ctl \in [StartIds -> [pc : ControlPlaces, cmd : LastCommands, done : Nat]]
    BY DEF Init, ControlPlaces, LastCommands
  <1>3. /\ closed \subseteq 1..nChans
        /\ ctxDone \subseteq 1..nStarts
        /\ abandoned \subseteq Nat
    BY DEF Init
  <1>4. /\ nChans \in Nat /\ stopCh \in 0..nChans
        /\ nLoops \in 0..MaxLoops /\ genDone \in 0..nLoops /\ ticker \in 0..MaxLoops
        /\ nStarts \in 0..MaxStarts /\ sub \in 0..nStarts
        /\ nCommands \in 0..MaxCommands
    BY BoundsAssumption DEF Init
  <1> QED
    BY <1>1, <1>2, <1>3, <1>4 DEF Init, TypeOK, Phases

\* Every step, and a stutter, keeps every type.
LEMMA TypeStep == TypeOK /\ [Next]_vars => TypeOK'
  <1> SUFFICES ASSUME TypeOK, [Next]_vars PROVE TypeOK'
    OBVIOUS
  <1>1. CASE UNCHANGED vars
    BY <1>1 DEF TypeOK, vars, gear, chans, loops, runtime
  <1>2. CASE Next
    BY <1>2, TypeRuntime, TypeControl, TypeLoop DEF Next
  <1> QED
    BY <1>1, <1>2

\* The gear's fields, its channels, loops and control loops keep their types,
\* whatever the life cycle the runtime drives.
THEOREM TypeCorrect == Spec => []TypeOK
  BY TypeInit, TypeStep, PTL DEF Spec

-----------------------------------------------------------------------------
(* What the updates of the loops and of the control loops do, pointwise *)

\* MoveLoop changes the place of its loop, and nothing else of any loop.
LEMMA MovedLoop ==
    ASSUME TypeOK, NEW l \in LoopIds, NEW place, MoveLoop(l, place)
    PROVE  \A m \in LoopIds :
              /\ loop'[m].at = IF m = l THEN place ELSE loop[m].at
              /\ loop'[m].ch = loop[m].ch
              /\ loop'[m].ctx = loop[m].ctx
  BY DEF TypeOK, MoveLoop

\* The loop startGeneration spawns holds the channel and the context of that moment,
\* and every other loop is as it was.
LEMMA SpawnedLoop ==
    ASSUME TypeOK, NEW ctx, running = FALSE, StartGeneration(ctx)
    PROVE  /\ running' = TRUE
           /\ nLoops \in Nat
           /\ nLoops + 1 \in LoopIds
           /\ nLoops' = nLoops + 1
           /\ genDone' = nLoops + 1
           /\ loop'[nLoops + 1].at = "spawned"
           /\ loop'[nLoops + 1].ch = stopCh
           /\ loop'[nLoops + 1].ctx = ctx
           /\ \A m \in LoopIds : m # nLoops + 1 => loop'[m] = loop[m]
  <1>1. nLoops \in 0..MaxLoops /\ DOMAIN loop = LoopIds
    BY DEF TypeOK
  <1>2. /\ nLoops < MaxLoops /\ running' = TRUE
        /\ nLoops' = nLoops + 1 /\ genDone' = nLoops + 1
        /\ loop' = [loop EXCEPT ![nLoops + 1] =
                        [at |-> "spawned", ch |-> stopCh, ctx |-> ctx]]
    BY DEF StartGeneration
  <1>3. nLoops + 1 \in LoopIds
    BY <1>1, <1>2, BoundsAssumption DEF LoopIds
  <1> QED
    BY <1>1, <1>2, <1>3

\* A step of a control loop moves no other.
LEMMA MovedControl ==
    ASSUME TypeOK, NEW k \in StartIds, NEW place, ctl' = [ctl EXCEPT ![k].pc = place]
    PROVE  \A j \in StartIds :
              /\ ctl'[j].pc = IF j = k THEN place ELSE ctl[j].pc
              /\ ctl'[j].done = ctl[j].done
  BY DEF TypeOK

\* What a control loop's step does to its own place and to the gear's history:
\* no other control loop moves, and no Start, subscription or context changes.
LEMMA ControlMoves ==
    ASSUME TypeOK, NEW k \in StartIds, ControlStep(k)
    PROVE  /\ \A j \in StartIds : j # k => ctl'[j] = ctl[j]
           /\ ctl[k].pc \notin {"unborn", "ended"}
           /\ ctl'[k].pc # "unborn"
           /\ ctl'[k].pc = "ended" => k \in ctxDone
           /\ UNCHANGED <<ctxDone, sub, trigger, runtime>>
  <1>1. ctl \in [StartIds -> [pc : ControlPlaces, cmd : LastCommands, done : Nat]]
    BY DEF TypeOK
  <1> USE <1>1
  <1>2. CASE Receive(k)
    BY <1>2 DEF Receive, gear
  <1>3. CASE ControlLoopEnds(k)
    BY <1>3 DEF ControlLoopEnds, gear
  <1>4. CASE Reseed(k) \/ HandleRate(k) \/ SnapshotDone(k) \/ LoopExited(k)
             \/ WaitTimesOut(k) \/ Spawn(k)
    BY <1>4 DEF Reseed, HandleRate, SnapshotDone, LoopExited, WaitTimesOut, Spawn, gear
  <1>5. CASE HandleStart(k) \/ HandleStop(k) \/ HandleReset(k)
    BY <1>5 DEF HandleStart, HandleStop, HandleReset
  <1> QED
    BY <1>2, <1>3, <1>4, <1>5 DEF ControlStep

\* A step of a generation loop touches no other loop and no channel; it moves
\* between the places of a spawned loop, and only the deadline branch may touch
\* running.
LEMMA LoopMoves ==
    ASSUME TypeOK, NEW l \in LoopIds, LoopStep(l)
    PROVE  /\ \A m \in LoopIds : /\ m # l => loop'[m].at = loop[m].at
                                 /\ loop'[m].ch = loop[m].ch
                                 /\ loop'[m].ctx = loop[m].ctx
           /\ loop[l].at # "unborn" /\ loop'[l].at # "unborn"
           /\ Unended(l)' => Unended(l)
           /\ Live(l)' => Live(l)
           /\ UNCHANGED <<stopCh, genDone, sub, chans, nLoops, abandoned, trigger, ctl,
                          ctxDone, runtime>>
           /\ \/ running' = running
              \/ /\ loop[l].at = "expired" /\ loop'[l].at = "exiting"
                 /\ stopCh = loop[l].ch /\ ~running'
  <1> USE DEF Unended, Live
  <1>1. CASE TakeTicker(l)
    BY <1>1, MovedLoop DEF TakeTicker, gear
  <1>2. CASE Tick(l)
    BY <1>2, MovedLoop DEF Tick, gear
  <1>3. CASE EmitReturns(l) \/ SeeStop(l) \/ DeadlineFires(l) \/ Exit(l)
    BY <1>3, MovedLoop DEF EmitReturns, SeeStop, DeadlineFires, Exit, gear
  <1>4. CASE Expire(l)
    <2>1. running' = (running /\ stopCh # loop[l].ch) /\ running \in BOOLEAN
      BY <1>4 DEF Expire, TypeOK
    <2>2. \/ running' = running
          \/ stopCh = loop[l].ch /\ ~running'
      BY <2>1
    <2> QED
      BY <1>4, <2>2, MovedLoop DEF Expire
  <1> QED
    BY <1>1, <1>2, <1>3, <1>4 DEF LoopStep
-----------------------------------------------------------------------------
(* Any life cycle *)

\* A startGeneration after the first Start keeps the loops well formed.
LEMMA StartGenerationWellFormed ==
    ASSUME TypeOK, WellFormed, NEW ctx, StartGeneration(ctx), UNCHANGED <<stopCh, nChans>>,
           nStarts > 0
    PROVE  /\ \A l \in LoopIds : loop'[l].at # "unborn" <=> l <= nLoops'
           /\ \A l \in LoopIds : l <= nLoops' => loop'[l].ch \in 1..nChans'
  <1>1. CASE running = TRUE
    BY <1>1 DEF WellFormed, StartGeneration
  <1>2. CASE running = FALSE
    <2>1. stopCh \in 1..nChans
      BY DEF TypeOK, WellFormed
    <2>2. /\ nLoops \in Nat /\ nLoops' = nLoops + 1
          /\ loop'[nLoops + 1].at = "spawned" /\ loop'[nLoops + 1].ch = stopCh
          /\ \A m \in LoopIds : m # nLoops + 1 => loop'[m] = loop[m]
      BY <1>2, SpawnedLoop
    <2> SUFFICES ASSUME NEW l \in LoopIds
                 PROVE  /\ loop'[l].at # "unborn" <=> l <= nLoops'
                        /\ l <= nLoops' => loop'[l].ch \in 1..nChans'
      OBVIOUS
    <2>. l \in Nat
      BY BoundsAssumption DEF LoopIds
    <2>3. CASE l = nLoops + 1
      BY <2>1, <2>2, <2>3
    <2>4. CASE l # nLoops + 1
      <3>1. loop'[l] = loop[l] /\ (l <= nLoops' <=> l <= nLoops)
        BY <2>2, <2>4
      <3> QED
        BY <3>1 DEF WellFormed
    <2> QED
      BY <2>3, <2>4
  <1> QED
    BY <1>1, <1>2 DEF TypeOK

\* The runtime's steps keep the numbering of channels and loops.
LEMMA WellFormedRuntime == TypeOK /\ WellFormed /\ RuntimeStep => WellFormed'
  <1> SUFFICES ASSUME TypeOK, WellFormed, RuntimeStep PROVE WellFormed'
    OBVIOUS
  <1>0. /\ nStarts \in Nat /\ nLoops \in Nat /\ nChans \in Nat
        /\ \A k \in StartIds : k \in Nat
    BY BoundsAssumption DEF TypeOK, StartIds
  <1>1. CASE Start
    BY <1>0, <1>1 DEF TypeOK, WellFormed, Start, MakeStopCh, loops
  <1>2. CASE Subscribed
    <2>1. \A k \in StartIds : ctl'[k].pc # "unborn" => k <= nStarts
      BY <1>0, <1>2 DEF TypeOK, WellFormed, Subscribed
    <2> QED
      BY <1>2, <2>1 DEF WellFormed, Subscribed, loops, chans
  <1>3. CASE NotSubscribed
    BY <1>3 DEF WellFormed, NotSubscribed, gear, loops, chans
  <1>4. CASE GenerateOnLoad
    BY <1>0, <1>4, StartGenerationWellFormed DEF WellFormed, GenerateOnLoad, chans
  <1>5. CASE ShutDown
    BY <1>5 DEF WellFormed, ShutDown, loops
  <1>6. ASSUME NEW s \in StartIds, CancelContext(s) PROVE WellFormed'
    BY <1>6 DEF WellFormed, CancelContext, gear, loops, chans, runtime
  <1> QED
    BY <1>1, <1>2, <1>3, <1>4, <1>5, <1>6 DEF RuntimeStep, Drain, Stop

\* A control loop's steps keep it: only an existing one steps, after the first Start.
LEMMA WellFormedControl ==
    ASSUME TypeOK, WellFormed, NEW k \in StartIds, ControlStep(k)
    PROVE  WellFormed'
  <1>0. /\ nStarts \in Nat /\ nLoops \in Nat /\ nChans \in Nat
        /\ k \in Nat /\ k <= nStarts /\ nStarts > 0 /\ stopCh > 0
    <2>1. /\ nStarts \in Nat /\ nLoops \in Nat /\ nChans \in Nat
          /\ k \in Nat \ {0}
      BY BoundsAssumption DEF TypeOK, StartIds
    <2>2. k <= nStarts
      BY ControlMoves DEF WellFormed
    <2> QED
      BY <2>1, <2>2 DEF WellFormed
  <1>1. /\ UNCHANGED <<nStarts, rt, sub>>
        /\ \A j \in StartIds : ctl'[j].pc # "unborn" => j <= nStarts
    BY <1>0, ControlMoves DEF WellFormed, runtime
  <1>2. CASE Receive(k) \/ ControlLoopEnds(k) \/ Reseed(k) \/ HandleRate(k)
             \/ SnapshotDone(k) \/ LoopExited(k)
    BY <1>1, <1>2 DEF WellFormed, Receive, ControlLoopEnds, Reseed, HandleRate,
                      SnapshotDone, LoopExited, gear, loops, chans
  <1>3. CASE WaitTimesOut(k)
    BY <1>1, <1>3 DEF WellFormed, WaitTimesOut, gear, chans
  <1>4. CASE HandleStart(k)
    BY <1>0, <1>1, <1>4 DEF TypeOK, WellFormed, HandleStart, MakeStopCh, loops
  <1>5. CASE HandleStop(k)
    BY <1>0, <1>1, <1>5 DEF WellFormed, HandleStop, loops
  <1>6. CASE HandleReset(k)
    BY <1>0, <1>1, <1>6 DEF TypeOK, WellFormed, HandleReset, MakeStopCh, loops
  <1>7. CASE Spawn(k)
    BY <1>0, <1>1, <1>7, StartGenerationWellFormed DEF WellFormed, Spawn, chans
  <1> QED
    BY <1>2, <1>3, <1>4, <1>5, <1>6, <1>7 DEF ControlStep

\* A generation loop's steps keep it: no loop is born, no channel is made.
LEMMA WellFormedLoop ==
    ASSUME TypeOK, WellFormed, NEW l \in LoopIds, LoopStep(l)
    PROVE  WellFormed'
  <1>1. /\ UNCHANGED <<stopCh, sub, nChans, nLoops, ctl, nStarts, rt>>
        /\ \A m \in LoopIds : /\ loop'[m].at # "unborn" <=> loop[m].at # "unborn"
                              /\ loop'[m].ch = loop[m].ch
    BY LoopMoves DEF chans, runtime
  <1>2. nStarts = 0 => ~running'
    BY LoopMoves DEF WellFormed
  <1> QED
    BY <1>1, <1>2 DEF WellFormed

\* One live control loop, the subscription's.
LEMMA OneControlLoopInit == Init => OneControlLoop
  BY BoundsAssumption DEF Init, OneControlLoop, StartIds

\* A subscription brings its control loop, and ends it: ShutDown cancels what it clears.
LEMMA OneControlLoopStep ==
    ASSUME TypeOK, WellFormed, OneControlLoop, [Next]_vars
    PROVE  OneControlLoop'
  <1> USE DEF OneControlLoop
  <1>0. /\ nStarts \in Nat
        /\ ctl \in [StartIds -> [pc : ControlPlaces, cmd : LastCommands, done : Nat]]
        /\ \A k \in StartIds : k \in Nat /\ k # 0
    BY BoundsAssumption DEF TypeOK, StartIds
  <1>1. CASE Start \/ NotSubscribed \/ GenerateOnLoad \/ UNCHANGED vars
    BY <1>1 DEF Start, NotSubscribed, GenerateOnLoad, gear, vars
  <1>2. CASE Subscribed
    BY <1>0, <1>2 DEF Subscribed, WellFormed
  <1>3. CASE ShutDown
    BY <1>0, <1>3 DEF ShutDown
  <1>4. ASSUME NEW s \in StartIds, CancelContext(s) PROVE OneControlLoop'
    BY <1>4 DEF CancelContext, gear
  <1>5. ASSUME NEW k \in StartIds, ControlStep(k) PROVE OneControlLoop'
    BY <1>5, ControlMoves
  <1>6. ASSUME NEW l \in LoopIds, LoopStep(l) PROVE OneControlLoop'
    BY <1>6, LoopMoves
  <1> QED
    BY <1>1, <1>2, <1>3, <1>4, <1>5, <1>6 DEF Next, RuntimeStep, Drain, Stop

\* One run per open channel: a loop is spawned on the gear's channel only when no
\* loop that has not ended is on it.
LEMMA OneRunStartGeneration ==
    ASSUME TypeOK, WellFormed, OneRunPerChannel, NEW ctx, StartGeneration(ctx),
           UNCHANGED <<stopCh, closed>>
    PROVE  OneRunPerChannel'
  <1>1. CASE running = TRUE
    BY <1>1 DEF StartGeneration, OneRunPerChannel, Unended, Live
  <1>2. CASE running = FALSE
    <2> DEFINE new == nLoops + 1
    <2>1. /\ running' = TRUE /\ new \in LoopIds
          /\ loop'[new].ch = stopCh
          /\ \A m \in LoopIds : m # new => loop'[m] = loop[m]
      BY <1>2, SpawnedLoop
    <2>2. \A m \in LoopIds : Unended(m) /\ loop[m].ch \notin closed => loop[m].ch # stopCh
      BY <1>2 DEF OneRunPerChannel
    <2> HIDE DEF new
    <2>3. \A m \in LoopIds : m # new => (Unended(m)' <=> Unended(m)) /\ loop'[m].ch = loop[m].ch
      BY <2>1 DEF Unended, Live
    <2> QED
      BY <2>1, <2>2, <2>3 DEF OneRunPerChannel
  <1> QED
    BY <1>1, <1>2 DEF TypeOK

\* One run per open channel: a control loop's step.
LEMMA OneRunControl ==
    ASSUME TypeOK, WellFormed, OneRunPerChannel, NEW k \in StartIds, ControlStep(k)
    PROVE  OneRunPerChannel'
  <1>0. /\ nChans \in Nat /\ stopCh > 0
        /\ \A l \in LoopIds : Unended(l) => loop[l].ch \in 1..nChans
    <2>1. nChans \in Nat /\ nStarts \in Nat /\ k \in Nat \ {0}
      BY BoundsAssumption DEF TypeOK, StartIds
    <2>2. k <= nStarts
      BY ControlMoves DEF WellFormed
    <2> QED
      BY <2>1, <2>2 DEF WellFormed, Unended, Live
  <1>1. CASE Receive(k) \/ ControlLoopEnds(k) \/ Reseed(k) \/ HandleRate(k)
             \/ SnapshotDone(k) \/ LoopExited(k) \/ WaitTimesOut(k)
    <2>1. UNCHANGED <<loop, closed, stopCh, running>>
      BY <1>1 DEF Receive, ControlLoopEnds, Reseed, HandleRate, SnapshotDone,
                  LoopExited, WaitTimesOut, gear, chans, loops
    <2> QED
      BY <2>1 DEF OneRunPerChannel, Unended, Live
  <1>2. CASE HandleStart(k)
    <2>1. /\ UNCHANGED <<loop, closed, running>>
          /\ stopCh' = stopCh \/ stopCh' = nChans + 1
      BY <1>2 DEF HandleStart, MakeStopCh, loops
    <2> QED
      BY <1>0, <2>1 DEF OneRunPerChannel, Unended, Live
  <1>3. CASE HandleStop(k)
    <2>1. /\ UNCHANGED <<loop, stopCh>>
          /\ closed' = closed \union {stopCh}
      BY <1>0, <1>3 DEF HandleStop, CloseStopLocked, loops
    <2> QED
      BY <2>1 DEF OneRunPerChannel, Unended, Live
  <1>4. CASE HandleReset(k)
    <2>1. /\ UNCHANGED loop
          /\ closed' = closed \union {stopCh}
          /\ stopCh' = stopCh \/ stopCh' = nChans + 1
      BY <1>0, <1>4 DEF HandleReset, CloseStopLocked, MakeStopCh, loops
    <2> QED
      BY <1>0, <2>1 DEF OneRunPerChannel, Unended, Live
  <1>5. CASE Spawn(k)
    BY <1>5, OneRunStartGeneration DEF Spawn, chans
  <1> QED
    BY <1>1, <1>2, <1>3, <1>4, <1>5 DEF ControlStep

\* Every step keeps one run per open channel; a deadline clears running only for the
\* channel of its own loop.
LEMMA OneRunStep ==
    ASSUME TypeOK, WellFormed, OneRunPerChannel, [Next]_vars
    PROVE  OneRunPerChannel'
  <1>0. /\ nChans \in Nat /\ stopCh \in Nat
        /\ \A l \in LoopIds : Unended(l) => loop[l].ch \in 1..nChans
    BY BoundsAssumption DEF TypeOK, WellFormed, Unended, Live
  <1>1. CASE Subscribed \/ NotSubscribed \/ UNCHANGED vars
    <2>1. UNCHANGED <<loop, closed, stopCh, running>>
      BY <1>1 DEF Subscribed, NotSubscribed, vars, gear, chans, loops
    <2> QED
      BY <2>1 DEF OneRunPerChannel, Unended, Live
  <1>2. CASE Start
    <2>1. UNCHANGED <<loop, closed, running>> /\ stopCh' = nChans + 1
      BY <1>2 DEF Start, MakeStopCh, loops
    <2> QED
      BY <1>0, <2>1 DEF OneRunPerChannel, Unended, Live
  <1>3. CASE GenerateOnLoad
    BY <1>3, OneRunStartGeneration DEF GenerateOnLoad, chans
  <1>4. CASE ShutDown
    <2>1. /\ UNCHANGED <<loop, stopCh>>
          /\ closed' = closed \union ({stopCh} \ {0})
      BY <1>4 DEF ShutDown, CloseStopLocked, loops
    <2> QED
      BY <1>0, <2>1 DEF OneRunPerChannel, Unended, Live
  <1>5. ASSUME NEW s \in StartIds, CancelContext(s) PROVE OneRunPerChannel'
    <2>1. UNCHANGED <<loop, closed, stopCh, running>>
      BY <1>5 DEF CancelContext, gear, chans, loops
    <2> QED
      BY <2>1 DEF OneRunPerChannel, Unended, Live
  <1>6. ASSUME NEW l \in LoopIds, LoopStep(l) PROVE OneRunPerChannel'
    <2>1. UNCHANGED <<closed, stopCh>>
      BY <1>6, LoopMoves DEF chans
    <2>2. \A m \in LoopIds : /\ Unended(m)' => Unended(m)
                            /\ loop'[m].ch = loop[m].ch
      BY <1>6, LoopMoves DEF Unended, Live
    <2>3. CASE running' = running
      BY <2>1, <2>2, <2>3 DEF OneRunPerChannel
    <2>4. CASE /\ loop[l].at = "expired" /\ loop'[l].at = "exiting"
               /\ stopCh = loop[l].ch
      <3>1. Unended(l) /\ ~Unended(l)'
        BY <2>4 DEF Unended, Live
      <3>2. \A m \in LoopIds : Unended(m)' /\ loop[m].ch \notin closed => loop[m].ch # stopCh
        BY <2>2, <2>4, <3>1 DEF OneRunPerChannel
      <3> QED
        BY <2>1, <2>2, <3>2 DEF OneRunPerChannel
    <2> QED
      BY <1>6, <2>3, <2>4, LoopMoves
  <1> QED
    BY <1>1, <1>2, <1>3, <1>4, <1>5, <1>6, OneRunControl
       DEF Next, RuntimeStep, Drain, Stop

\* The inductive invariant that needs no assumption on the life cycle.
AnyLifeCycle == TypeOK /\ WellFormed /\ OneRunPerChannel /\ OneControlLoop

\* The inductive invariant holds of the gear Init leaves.
LEMMA AnyLifeCycleInit == Init => AnyLifeCycle
  <1> SUFFICES ASSUME Init PROVE AnyLifeCycle
    OBVIOUS
  <1>1. TypeOK
    BY TypeInit
  <1>2. WellFormed
    BY BoundsAssumption DEF Init, WellFormed, LoopIds
  <1>3. OneRunPerChannel
    BY DEF Init, OneRunPerChannel, Unended, Live
  <1> QED
    BY <1>1, <1>2, <1>3, OneControlLoopInit DEF AnyLifeCycle

\* Every step keeps it.
LEMMA AnyLifeCycleStep == AnyLifeCycle /\ [Next]_vars => AnyLifeCycle'
  <1> SUFFICES ASSUME AnyLifeCycle, [Next]_vars PROVE AnyLifeCycle'
    OBVIOUS
  <1> USE DEF AnyLifeCycle
  <1>1. TypeOK'
    BY TypeStep
  <1>2. WellFormed'
    <2>1. CASE UNCHANGED vars
      BY <2>1 DEF WellFormed, vars, gear, chans, loops, runtime
    <2>2. CASE Next
      BY <2>2, WellFormedRuntime, WellFormedControl, WellFormedLoop DEF Next
    <2> QED
      BY <2>1, <2>2
  <1> QED
    BY <1>1, <1>2, OneRunStep, OneControlLoopStep

\* However the runtime drives the gear, an open channel has one run, and the
\* deadline of an old run leaves running to the run in progress.
THEOREM OneRunPerChannelHolds == Spec => []OneRunPerChannel
  <1>1. Spec => []AnyLifeCycle
    BY AnyLifeCycleInit, AnyLifeCycleStep, PTL DEF Spec
  <1>2. AnyLifeCycle => OneRunPerChannel
    BY DEF AnyLifeCycle
  <1> QED
    BY <1>1, <1>2, PTL

\* However the runtime drives the gear, the control loop whose context lives is
\* the current subscription's, and a subscription has its control loop.
THEOREM OneControlLoopHolds == Spec => []OneControlLoop
  <1>1. Spec => []AnyLifeCycle
    BY AnyLifeCycleInit, AnyLifeCycleStep, PTL DEF Spec
  <1>2. AnyLifeCycle => OneControlLoop
    BY DEF AnyLifeCycle
  <1> QED
    BY <1>1, <1>2, PTL

-----------------------------------------------------------------------------
(* A gear that is started once *)

\* With a single Start nobody acts before it has returned.
LEMMA StartedOnceInit == Init => StartedOnce
  BY DEF Init, StartedOnce

\* Every step of a gear started once keeps StartedOnce.
LEMMA StartedOnceStep ==
    ASSUME StartableIn = {"new"}, AnyLifeCycle, StartedOnce, [Next]_vars
    PROVE  StartedOnce'
  <1> USE DEF StartedOnce
  <1>0. /\ nStarts \in Nat /\ nLoops \in Nat /\ nChans \in Nat
        /\ stopCh \in 0..nChans /\ closed \subseteq 1..nChans
        /\ \A k \in StartIds : k \in Nat \ {0}
        /\ WellFormed
    BY BoundsAssumption DEF AnyLifeCycle, TypeOK, StartIds
  <1>1. CASE Start
    <2>1. nStarts = 0 /\ nLoops = 0 /\ nChans = 0 /\ ~running
      BY <1>0, <1>1 DEF Start, WellFormed
    <2>2. \A k \in StartIds : ctl[k].pc = "unborn"
      BY <1>0, <2>1 DEF WellFormed
    <2> QED
      BY <1>0, <1>1, <2>1, <2>2 DEF Start, MakeStopCh, loops
  <1>2. CASE Subscribed \/ NotSubscribed \/ GenerateOnLoad
    BY <1>2 DEF Subscribed, NotSubscribed, GenerateOnLoad, gear, chans
  <1>3. CASE ShutDown
    BY <1>0, <1>3 DEF ShutDown, CloseStopLocked, WellFormed
  <1>4. CASE (\E s \in StartIds : CancelContext(s)) \/ UNCHANGED vars
    BY <1>4 DEF CancelContext, vars, gear, chans, loops, runtime
  <1>5. ASSUME NEW k \in StartIds, ControlStep(k) PROVE StartedOnce'
    <2>1. UNCHANGED <<nStarts, rt, phase>> /\ rt = "idle"
      BY <1>5, ControlMoves DEF AnyLifeCycle, runtime
    <2>2. 1..nChans' \subseteq closed' \union {stopCh'}
      <3>1. CASE HandleStart(k)
        BY <1>0, <3>1 DEF HandleStart, MakeStopCh
      <3>2. CASE HandleReset(k)
        BY <1>0, <3>2 DEF HandleReset, MakeStopCh, CloseStopLocked
      <3>3. CASE HandleStop(k)
        BY <3>3 DEF HandleStop, CloseStopLocked
      <3>4. CASE \/ Receive(k) \/ ControlLoopEnds(k) \/ Reseed(k) \/ HandleRate(k)
                 \/ SnapshotDone(k) \/ LoopExited(k) \/ WaitTimesOut(k) \/ Spawn(k)
        BY <3>4 DEF Receive, ControlLoopEnds, Reseed, HandleRate, SnapshotDone,
                    LoopExited, WaitTimesOut, Spawn, gear, chans
      <3> QED
        BY <1>5, <3>1, <3>2, <3>3, <3>4 DEF ControlStep
    <2> QED
      BY <2>1, <2>2
  <1>6. ASSUME NEW l \in LoopIds, LoopStep(l) PROVE StartedOnce'
    <2>1. /\ UNCHANGED <<stopCh, nChans, closed, nLoops, ctl, nStarts, rt, phase>>
          /\ running' = running \/ ~running'
      BY <1>6, LoopMoves DEF AnyLifeCycle, chans, runtime
    <2> QED
      BY <2>1
  <1> QED
    BY <1>1, <1>2, <1>3, <1>4, <1>5, <1>6 DEF Next, RuntimeStep, Drain, Stop

\* Before the Start there is nothing to hand off.
LEMMA HandoffInit == Init => Handoff
  BY DEF Init, Handoff

\* With one Start there is one control loop.
LEMMA OneHandler ==
    ASSUME AnyLifeCycle, StartedOnce, NEW k \in StartIds, ctl[k].pc # "unborn"
    PROVE  \A j \in StartIds : j # k => ctl[j].pc = "unborn"
  <1>1. nStarts \in Nat /\ \A j \in StartIds : j \in Nat \ {0}
    BY BoundsAssumption DEF AnyLifeCycle, TypeOK, StartIds
  <1> QED
    BY <1>1 DEF AnyLifeCycle, WellFormed, StartedOnce

\* A loop spawned on an open channel, when no loop that anybody still waits for
\* is alive and no handler is on its way to a wait, takes the hand.
LEMMA FreshLoop ==
    ASSUME TypeOK, NEW ctx, StartGeneration(ctx), running = FALSE, stopCh \notin closed,
           \A l \in LoopIds : Live(l) => l \in abandoned,
           UNCHANGED <<stopCh, closed, abandoned>>,
           \A k \in StartIds : ctl'[k].pc \notin {"snapshot", "wait", "spawn"}
    PROVE  Handoff'
  <1>0. nLoops \in Nat /\ nLoops + 1 \in LoopIds
    BY SpawnedLoop
  <1>1. PICK new \in LoopIds : new = nLoops + 1
    BY <1>0
  <1>2. /\ running' = TRUE
        /\ genDone' = new
        /\ loop'[new].at = "spawned"
        /\ loop'[new].ch = stopCh
        /\ \A m \in LoopIds : m # new => loop'[m] = loop[m]
    BY <1>1, SpawnedLoop
  <1>3. \A l \in LoopIds : l # new => (Live(l)' <=> Live(l))
    BY <1>2 DEF Live
  <1>4. Unended(new)' /\ new # 0
    BY <1>0, <1>1, <1>2 DEF Unended, Live
  <1> QED
    BY <1>2, <1>3, <1>4 DEF Handoff

\* The runtime's steps keep the handoff: ShutDown leaves the phase it speaks of.
LEMMA HandoffRuntime ==
    ASSUME StartableIn = {"new"}, AnyLifeCycle, StartedOnce, Handoff, RuntimeStep
    PROVE  Handoff'
  <1>0. /\ nStarts \in Nat /\ nLoops \in Nat /\ nChans \in Nat
        /\ stopCh \in 0..nChans /\ closed \subseteq 1..nChans
        /\ \A k \in StartIds : k \in Nat \ {0}
        /\ \A l \in LoopIds : l \in Nat \ {0}
        /\ WellFormed /\ TypeOK
    BY BoundsAssumption DEF AnyLifeCycle, TypeOK, StartIds, LoopIds
  <1>1. CASE Start
    <2>1. nStarts = 0 /\ nLoops = 0 /\ nChans = 0 /\ ~running
      BY <1>0, <1>1 DEF Start, StartedOnce, WellFormed
    <2>2. /\ \A k \in StartIds : ctl[k].pc = "unborn"
          /\ \A l \in LoopIds : ~Live(l)
      BY <1>0, <2>1 DEF WellFormed, Live
    <2> QED
      BY <1>0, <1>1, <2>1, <2>2 DEF Start, MakeStopCh, loops, Handoff, Live
  <1>2. CASE Subscribed
    <2>1. /\ UNCHANGED <<running, stopCh, genDone, closed, loop, abandoned, ctxDone, phase>>
          /\ \A k \in StartIds : ctl[k].pc = "unborn"
          /\ \A l \in LoopIds : ~Live(l)
          /\ ~running
      BY <1>0, <1>2 DEF Subscribed, StartedOnce, WellFormed, chans, loops, Live
    <2>2. \A k \in StartIds : ctl'[k].pc \in {"unborn", "idle"}
      BY <1>0, <1>2, <2>1 DEF Subscribed, TypeOK
    <2> QED
      BY <2>1, <2>2 DEF Handoff, Live
  <1>3. CASE NotSubscribed
    BY <1>3 DEF NotSubscribed, gear, chans, loops, Handoff, Live, Unended
  <1>4. CASE GenerateOnLoad
    <2>1. /\ UNCHANGED <<stopCh, closed, abandoned, ctl, ctxDone, phase>>
          /\ StartGeneration(nStarts)
          /\ \A k \in StartIds : ctl[k].pc = "unborn"
          /\ \A l \in LoopIds : ~Live(l)
          /\ running = FALSE
          /\ stopCh \notin closed
      BY <1>0, <1>4 DEF GenerateOnLoad, StartedOnce, WellFormed, chans, Live, TypeOK
    <2> QED
      BY <1>0, <2>1, FreshLoop
  <1>5. CASE ShutDown
    BY <1>5 DEF ShutDown, Handoff
  <1>6. ASSUME NEW s \in StartIds, CancelContext(s) PROVE Handoff'
    BY <1>6 DEF CancelContext, gear, chans, loops, runtime, Handoff, Live, Unended
  <1> QED
    BY <1>1, <1>2, <1>3, <1>4, <1>5, <1>6 DEF RuntimeStep, Drain, Stop

\* A control loop's steps keep the handoff: the only handler there is closes, waits
\* and spawns in that order.
LEMMA HandoffControl ==
    ASSUME AnyLifeCycle, StartedOnce, Handoff, NEW k \in StartIds, ControlStep(k)
    PROVE  Handoff'
  <1> SUFFICES ASSUME phase = "started" PROVE Handoff'
    <2>1. phase' = phase
      BY ControlMoves DEF AnyLifeCycle, runtime
    <2> QED
      BY <2>1 DEF Handoff
  <1>0. /\ TypeOK /\ WellFormed
        /\ nChans \in Nat /\ stopCh \in 1..nChans /\ closed \subseteq 1..nChans
        /\ genDone \in Nat
        /\ \A j \in StartIds : j # k => ctl[j].pc = "unborn" /\ ctl'[j].pc = "unborn"
        /\ phase' = "started"
        /\ ctxDone' = ctxDone
    <2>1. \A j \in StartIds : j \in Nat \ {0}
      BY BoundsAssumption DEF StartIds
    <2>2. stopCh > 0
      BY <2>1, ControlMoves DEF AnyLifeCycle, TypeOK, WellFormed
    <2>3. TypeOK /\ WellFormed
      BY DEF AnyLifeCycle
    <2> QED
      BY <2>2, <2>3, ControlMoves, OneHandler DEF AnyLifeCycle, TypeOK, runtime
  <1>1. CASE Receive(k) \/ ControlLoopEnds(k) \/ Reseed(k) \/ HandleRate(k)
    <2>1. UNCHANGED <<running, stopCh, genDone, closed, loop, abandoned>>
      BY <1>1 DEF Receive, ControlLoopEnds, Reseed, HandleRate, gear, chans, loops
    <2>2. /\ ctl[k].pc \notin {"snapshot", "wait", "spawn"}
          /\ ctl'[k].pc \notin {"snapshot", "wait", "spawn"}
      BY <1>0, <1>1 DEF Receive, ControlLoopEnds, Reseed, HandleRate, TypeOK
    <2> QED
      BY <1>0, <2>1, <2>2 DEF Handoff, Live, Unended
  <1>2. CASE HandleStart(k)
    <2>1. UNCHANGED <<running, genDone, closed, loop, abandoned>>
      BY <1>2 DEF HandleStart, loops
    <2>2. CASE stopCh \in closed
      <3>1. ~running /\ stopCh' \notin closed /\ ctl'[k].pc = "snapshot"
        BY <1>0, <1>2, <2>2 DEF HandleStart, MakeStopCh, Handoff, TypeOK
      <3> QED
        BY <1>0, <2>1, <3>1 DEF Handoff, Live
    <2>3. CASE stopCh \notin closed
      <3>1. stopCh' = stopCh /\ ctl[k].pc = "signal" /\ ctl'[k].pc = "spawn"
        BY <1>0, <1>2, <2>3 DEF HandleStart, TypeOK
      <3> QED
        BY <1>0, <2>1, <2>3, <3>1 DEF Handoff, Live, Unended
    <2> QED
      BY <2>2, <2>3
  <1>3. CASE HandleStop(k)
    <2>1. /\ UNCHANGED <<stopCh, genDone, loop, abandoned>>
          /\ ~running' /\ stopCh \in closed'
          /\ ctl'[k].pc = "idle"
      BY <1>0, <1>3 DEF HandleStop, CloseStopLocked, loops, TypeOK
    <2> QED
      BY <1>0, <2>1 DEF Handoff, Live
  <1>4. CASE HandleReset(k)
    <2>1. UNCHANGED <<genDone, loop, abandoned>> /\ ~running'
      BY <1>4 DEF HandleReset, loops
    <2>2. CASE running
      <3>1. stopCh' \notin closed' /\ ctl'[k].pc = "snapshot"
        BY <1>0, <1>4, <2>2 DEF HandleReset, MakeStopCh, CloseStopLocked, TypeOK
      <3> QED
        BY <1>0, <2>1, <3>1 DEF Handoff, Live
    <2>3. CASE ~running
      <3>1. stopCh' \in closed' /\ ctl'[k].pc = "idle"
        BY <1>0, <1>4, <2>3 DEF HandleReset, CloseStopLocked, TypeOK
      <3> QED
        BY <1>0, <2>1, <3>1 DEF Handoff, Live
    <2> QED
      BY <2>2, <2>3
  <1>5. CASE SnapshotDone(k)
    <2>1. UNCHANGED <<running, stopCh, genDone, closed, loop, abandoned>>
      BY <1>5 DEF SnapshotDone, gear, chans, loops
    <2>2. /\ ctl[k].pc = "snapshot" /\ ~running /\ stopCh \notin closed
      BY <1>5 DEF SnapshotDone, Handoff
    <2>3. CASE genDone = 0
      <3>1. ctl'[k].pc = "spawn"
        BY <1>0, <1>5, <2>3 DEF SnapshotDone, TypeOK
      <3>2. \A l \in LoopIds : l # genDone
        BY <2>3, BoundsAssumption DEF LoopIds
      <3> QED
        BY <1>0, <2>1, <2>2, <3>1, <3>2 DEF Handoff, Live
    <2>4. CASE genDone # 0
      <3>1. ctl'[k].pc = "wait" /\ ctl'[k].done = genDone
        BY <1>0, <1>5, <2>4 DEF SnapshotDone, TypeOK
      <3> QED
        BY <1>0, <2>1, <2>2, <3>1 DEF Handoff, Live
    <2> QED
      BY <2>3, <2>4
  <1>6. CASE LoopExited(k) \/ WaitTimesOut(k)
    <2>1. UNCHANGED <<running, stopCh, genDone, closed, loop>>
      BY <1>6 DEF LoopExited, WaitTimesOut, gear, chans, loops
    <2>2. /\ ctl[k].pc = "wait" /\ ctl[k].done = genDone /\ ~running /\ stopCh \notin closed
          /\ ctl'[k].pc = "spawn"
      BY <1>0, <1>6 DEF LoopExited, WaitTimesOut, Handoff, TypeOK
    <2>3. /\ abandoned \subseteq abandoned'
          /\ loop[genDone].at = "ended" \/ genDone \in abandoned'
      BY <1>6, <2>2 DEF LoopExited, WaitTimesOut, loops
    <2>4. \A l \in LoopIds : Live(l) => l \in abandoned'
      BY <2>3 DEF Handoff, Live
    <2> QED
      BY <1>0, <2>1, <2>2, <2>3, <2>4 DEF Handoff, Live
  <1>7. CASE Spawn(k)
    <2>1. /\ UNCHANGED <<stopCh, closed, abandoned>>
          /\ StartGeneration(0)
          /\ ctl[k].pc = "spawn" /\ ctl'[k].pc = "idle"
          /\ stopCh \notin closed
      BY <1>0, <1>7 DEF Spawn, chans, Handoff, TypeOK
    <2>2. CASE running = TRUE
      <3>1. UNCHANGED <<running, genDone, loop>>
        BY <2>1, <2>2 DEF StartGeneration
      <3> QED
        BY <1>0, <2>1, <2>2, <3>1 DEF Handoff, Live, Unended
    <2>3. CASE running = FALSE
      <3>1. \A l \in LoopIds : Live(l) => l \in abandoned
        BY <1>0, <2>1, <2>3 DEF Handoff
      <3>2. \A j \in StartIds : ctl'[j].pc \notin {"snapshot", "wait", "spawn"}
        BY <1>0, <2>1
      <3> QED
        BY <1>0, <2>1, <2>3, <3>1, <3>2, FreshLoop
    <2> QED
      BY <1>0, <2>2, <2>3 DEF TypeOK
  <1> QED
    BY <1>1, <1>2, <1>3, <1>4, <1>5, <1>6, <1>7 DEF ControlStep

\* A generation loop's steps keep the handoff: what ends was signalled, or clears
\* running for its own channel.
LEMMA HandoffLoop ==
    ASSUME AnyLifeCycle, StartedOnce, Handoff, NEW l \in LoopIds, LoopStep(l)
    PROVE  Handoff'
  <1> SUFFICES ASSUME phase = "started" PROVE Handoff'
    <2>1. phase' = phase
      BY LoopMoves DEF AnyLifeCycle, runtime
    <2> QED
      BY <2>1 DEF Handoff
  <1>0. TypeOK /\ OneRunPerChannel
    BY DEF AnyLifeCycle
  <1>1. /\ UNCHANGED <<stopCh, genDone, closed, abandoned, ctl, ctxDone, phase>>
        /\ \A m \in LoopIds : Live(m)' => Live(m)
        /\ \A m \in LoopIds : loop'[m].ch = loop[m].ch /\ loop'[m].ctx = loop[m].ctx
        /\ \A m \in LoopIds : m # l => loop'[m] .at = loop[m].at
    BY <1>0, LoopMoves DEF chans, runtime, Live
  <1>2. genDone # 0 => genDone \in LoopIds
    BY BoundsAssumption DEF AnyLifeCycle, TypeOK, LoopIds
  <1>3. CASE TakeTicker(l) \/ Tick(l) \/ EmitReturns(l) \/ DeadlineFires(l) \/ Exit(l)
    <2>1. running' = running
      BY <1>3 DEF TakeTicker, Tick, EmitReturns, DeadlineFires, Exit, gear
    <2>2. Unended(l)' <=> Unended(l)
      BY <1>0, <1>3, MovedLoop DEF TakeTicker, Tick, EmitReturns, DeadlineFires, Exit,
                                   Unended, Live
    <2>3. \A m \in LoopIds : Unended(m)' <=> Unended(m)
      BY <1>1, <2>2 DEF Unended, Live
    <2> QED
      BY <1>1, <1>2, <2>1, <2>3 DEF Handoff
  <1>4. CASE SeeStop(l)
    <2>1. running' = running /\ (loop[l].ch \in closed \/ loop[l].ctx \in ctxDone)
      BY <1>4 DEF SeeStop, Unsignalled, gear
    <2>2. \A m \in LoopIds : m # l => (Unended(m)' <=> Unended(m))
      BY <1>1 DEF Unended, Live
    <2>3. running => \/ stopCh \in closed
                     \/ Unended(genDone)'
                     \/ loop[genDone].ctx \in ctxDone
      BY <1>1, <1>2, <2>1, <2>2 DEF Handoff
    <2> QED
      BY <1>1, <1>2, <2>1, <2>3 DEF Handoff
  <1>5. CASE Expire(l)
    <2>1. /\ loop[l].at = "expired"
          /\ running' => running /\ stopCh # loop[l].ch
          /\ ~running' => ~running \/ stopCh = loop[l].ch
      BY <1>0, <1>5 DEF Expire
    <2>2. \A m \in LoopIds : m # l => (Unended(m)' <=> Unended(m))
      BY <1>1 DEF Unended, Live
    <2>3. running' => /\ genDone # 0
                      /\ loop'[genDone].ch = stopCh
                      /\ \/ stopCh \in closed
                         \/ Unended(genDone)'
                         \/ loop[genDone].ctx \in ctxDone
      BY <1>1, <1>2, <2>1, <2>2 DEF Handoff
    <2>4. ASSUME NEW m \in LoopIds, Live(m)', m \notin abandoned, ~running',
                 stopCh \notin closed
          PROVE  \E k \in StartIds : ctl[k].pc \in {"snapshot", "wait"}
      <3>1. Live(m) /\ m = genDone /\ m # l
        BY <1>1, <2>1, <2>4 DEF Handoff, Live
      <3>2. CASE ~running
        BY <2>4, <3>1, <3>2 DEF Handoff
      <3>3. CASE running
        <4>1. loop[m].ch = stopCh /\ loop[l].ch = stopCh
          BY <2>1, <2>4, <3>1, <3>3 DEF Handoff
        <4>2. Unended(l) /\ Unended(m)
          BY <2>1, <3>1 DEF Unended
        <4> QED
          BY <1>0, <2>4, <3>1, <4>1, <4>2 DEF OneRunPerChannel
      <3> QED
        BY <3>2, <3>3
    <2> QED
      BY <1>1, <1>2, <2>1, <2>3, <2>4 DEF Handoff
  <1> QED
    BY <1>3, <1>4, <1>5 DEF LoopStep

\* The inductive invariant of a gear started once. Handoff is what OneEmitter
\* lacks: without it nothing says that the loop a handler waits for is the only
\* one alive, nor that a spawn outside a wait finds none.
OnceLifeCycle == AnyLifeCycle /\ StartedOnce /\ Handoff /\ RunHoldsTicker

\* Every step keeps RunHoldsTicker, given the handoff: no loop but the last one
\* spawned is left to take a ticker.
LEMMA TickerStep ==
    ASSUME AnyLifeCycle, StartedOnce, Handoff, RunHoldsTicker, StartableIn = {"new"},
           [Next]_vars
    PROVE  RunHoldsTicker'
  <1> USE DEF RunHoldsTicker
  <1>0. TypeOK /\ WellFormed
    BY DEF AnyLifeCycle
  <1>1. CASE Start
    <2>1. nLoops = 0 /\ \A l \in LoopIds : ~(l <= nLoops)
      BY <1>0, <1>1, BoundsAssumption DEF Start, StartedOnce, WellFormed, LoopIds
    <2> QED
      BY <1>0, <1>1, <2>1 DEF Start, loops, WellFormed
  <1>2. CASE Subscribed \/ NotSubscribed \/ (\E s \in StartIds : CancelContext(s))
             \/ UNCHANGED vars
    BY <1>2 DEF Subscribed, NotSubscribed, CancelContext, vars, loops, runtime
  <1>3. CASE ShutDown
    BY <1>3 DEF ShutDown
  <1>4. ASSUME NEW ctx, StartGeneration(ctx), UNCHANGED <<ticker, abandoned, phase>>
        PROVE  RunHoldsTicker'
    <2>1. CASE running = TRUE
      BY <1>4, <2>1 DEF StartGeneration
    <2>2. CASE running = FALSE
      <3>1. \A l \in LoopIds : loop'[l].at = "spawned" \/ loop'[l] = loop[l]
        BY <1>0, <1>4, <2>2, SpawnedLoop
      <3> QED
        BY <1>4, <3>1
    <2> QED
      BY <1>0, <2>1, <2>2 DEF TypeOK
  <1>5. ASSUME NEW k \in StartIds, ControlStep(k) PROVE RunHoldsTicker'
    <2>1. phase' = phase
      BY <1>0, <1>5, ControlMoves DEF runtime
    <2>2. CASE Spawn(k)
      BY <1>4, <2>2 DEF Spawn, runtime
    <2>3. CASE ~Spawn(k)
      <3>1. UNCHANGED <<ticker, loop>> /\ abandoned \subseteq abandoned'
        BY <1>5, <2>3 DEF ControlStep, Receive, ControlLoopEnds, Reseed, HandleStart,
             HandleStop, HandleRate, HandleReset, SnapshotDone, LoopExited, WaitTimesOut,
             loops
      <3> QED
        BY <2>1, <3>1
    <2> QED
      BY <2>2, <2>3
  <1>6. ASSUME NEW l \in LoopIds, LoopStep(l) PROVE RunHoldsTicker'
    <2>1. UNCHANGED <<abandoned, phase>>
      BY <1>0, <1>6, LoopMoves DEF runtime
    <2>2. CASE TakeTicker(l)
      <3>1. /\ ticker' = l /\ loop[l].at = "spawned"
            /\ \A m \in LoopIds : m # l => loop'[m].at = loop[m].at
        BY <1>0, <2>2, MovedLoop DEF TakeTicker
      <3>2. ASSUME phase = "started", abandoned = {}
            PROVE  \A m \in LoopIds : m # l => loop[m].at \notin {"select", "emit"}
        BY <3>1, <3>2 DEF Handoff, Live
      <3> QED
        BY <2>1, <3>1, <3>2
    <2>3. CASE ~TakeTicker(l)
      <3>1. /\ ticker' = ticker
            /\ \A m \in LoopIds : loop'[m].at \in {"select", "emit"} =>
                                   loop[m].at \in {"select", "emit"}
        BY <1>0, <1>6, <2>3, MovedLoop DEF LoopStep, Tick, EmitReturns, SeeStop,
                                           DeadlineFires, Expire, Exit
      <3> QED
        BY <2>1, <3>1
    <2> QED
      BY <2>2, <2>3
  <1> QED
    BY <1>1, <1>2, <1>3, <1>4, <1>5, <1>6
       DEF Next, RuntimeStep, Drain, Stop, GenerateOnLoad

\* The invariant of a gear started once, from Init and over every step.
LEMMA OnceInductive ==
    ASSUME StartableIn = {"new"}
    PROVE  Spec => []OnceLifeCycle
  <1>1. Init => OnceLifeCycle
    BY AnyLifeCycleInit, StartedOnceInit, HandoffInit
       DEF OnceLifeCycle, Init, RunHoldsTicker
  <1>2. OnceLifeCycle /\ [Next]_vars => OnceLifeCycle'
    <2> SUFFICES ASSUME OnceLifeCycle, [Next]_vars PROVE OnceLifeCycle'
      OBVIOUS
    <2> USE DEF OnceLifeCycle
    <2>1. AnyLifeCycle' /\ StartedOnce' /\ RunHoldsTicker'
      BY AnyLifeCycleStep, StartedOnceStep, TickerStep
    <2>2. Handoff'
      <3>1. CASE UNCHANGED vars
        BY <3>1 DEF vars, gear, chans, loops, runtime, Handoff, Live, Unended
      <3>2. CASE Next
        BY <3>2, HandoffRuntime, HandoffControl, HandoffLoop DEF Next
      <3> QED
        BY <3>1, <3>2
    <2> QED
      BY <2>1, <2>2
  <1> QED
    BY <1>1, <1>2, PTL DEF Spec

\* A gear the runtime starts once has one emitter until it is shut down, except
\* for a loop that a handler gave up waiting for.
THEOREM OneEmitterHolds ==
    ASSUME StartableIn = {"new"}
    PROVE  Spec => []OneEmitter
  <1>1. OnceLifeCycle => OneEmitter
    BY DEF OnceLifeCycle, Handoff, OneEmitter
  <1> QED
    BY <1>1, OnceInductive, PTL

\* The run of such a gear keeps the rate engine's ticker.
THEOREM RunHoldsTickerHolds ==
    ASSUME StartableIn = {"new"}
    PROVE  Spec => []RunHoldsTicker
  <1>1. OnceLifeCycle => RunHoldsTicker
    BY DEF OnceLifeCycle
  <1> QED
    BY <1>1, OnceInductive, PTL

\* Such a gear never shows running without a run, so no sim.start is lost to it.
THEOREM RunningMeansGeneratingHolds ==
    ASSUME StartableIn = {"new"}
    PROVE  Spec => []RunningMeansGenerating
  <1>1. OnceLifeCycle => RunningMeansGenerating
    <2> SUFFICES ASSUME OnceLifeCycle, phase = "started", running, stopCh \notin closed
                 PROVE  \E l \in LoopIds : /\ loop[l].ch = stopCh
                                           /\ Unended(l) \/ loop[l].ctx \in ctxDone
      BY DEF RunningMeansGenerating
    <2>1. genDone \in LoopIds
      BY BoundsAssumption DEF OnceLifeCycle, AnyLifeCycle, TypeOK, Handoff, LoopIds
    <2> QED
      BY <2>1 DEF OnceLifeCycle, Handoff
  <1> QED
    BY <1>1, OnceInductive, PTL
=============================================================================
