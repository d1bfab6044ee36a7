------------------------ MODULE SimSourceRefinement ------------------------
(***************************************************************************)
(* A sim_source gear that is started once implements Generation: every     *)
(* step of SimSource is a step of Generation or leaves its state alone.    *)
(***************************************************************************)
EXTENDS SimSourceProofs

\* The loop a handler waits for was told to end or is over, and none is wanted
\* while a handler is about to look which one to wait for.
WaitedForLeaves ==
    \A k \in StartIds :
        /\ ctl[k].pc = "snapshot" => WantedLoops = {}
        /\ ctl[k].pc = "wait" => ctl[k].done \in BornLoops \ WantedLoops

RefinementInv == OnceLifeCycle /\ WaitedForLeaves

-----------------------------------------------------------------------------
(* What the mapped state depends on *)

\* Where no loop changes its place for another side of life, no stop is signalled
\* and the phase stays, the state of Generation stays.
LEMMA NothingForGeneration ==
    ASSUME UNCHANGED <<closed, ctxDone, abandoned, phase>>,
           \A l \in LoopIds : /\ loop'[l].at = "unborn" <=> loop[l].at = "unborn"
                              /\ Live(l)' <=> Live(l)
                              /\ loop'[l].ch = loop[l].ch
                              /\ loop'[l].ctx = loop[l].ctx
    PROVE  UNCHANGED Gen!vars
  <1>1. BornLoops' = BornLoops
    BY DEF BornLoops
  <1>2. WantedLoops' = WantedLoops
    BY DEF WantedLoops, Unsignalled
  <1>3. LeavingLoops' = LeavingLoops
    BY DEF LeavingLoops, Unsignalled
  <1> QED
    BY <1>1, <1>2, <1>3 DEF Gen!vars

\* In a gear started once a loop that is wanted is on the gear's open channel, is
\* what running stands for, and is the only one.
LEMMA WantedIsTheRun ==
    ASSUME OnceLifeCycle
    PROVE  /\ \A l \in WantedLoops : loop[l].ch = stopCh /\ stopCh \notin closed /\ running
           /\ \A l, m \in WantedLoops : l = m
  <1>1. \A l \in WantedLoops : Unended(l) /\ loop[l].ch \notin closed /\ l \in LoopIds
    BY DEF WantedLoops, Unended, Unsignalled
  <1>2. \A l \in WantedLoops : loop[l].ch \in 1..nChans
    <2>1. nLoops \in Nat /\ \A l \in WantedLoops : l <= nLoops
      BY <1>1 DEF OnceLifeCycle, AnyLifeCycle, TypeOK, WellFormed, Unended, Live
    <2> QED
      BY <1>1, <2>1 DEF OnceLifeCycle, AnyLifeCycle, WellFormed
  <1>3. \A l \in WantedLoops : loop[l].ch = stopCh
    BY <1>1, <1>2 DEF OnceLifeCycle, StartedOnce
  <1> QED
    BY <1>1, <1>3 DEF OnceLifeCycle, AnyLifeCycle, OneRunPerChannel

\* Closing the gear's channel tells every loop to end.
LEMMA ClosingTellsAll ==
    ASSUME OnceLifeCycle, UNCHANGED loop, ctxDone \subseteq ctxDone', CloseStopLocked
    PROVE  /\ BornLoops' = BornLoops
           /\ WantedLoops' = {}
           /\ LeavingLoops' = LeavingLoops \union WantedLoops
  <1>1. \A l \in WantedLoops : loop[l].ch \in closed'
    <2>1. \A l \in WantedLoops : loop[l].ch = stopCh /\ l \in LoopIds /\ l <= nLoops
      <3>1. \A l \in WantedLoops : l \in LoopIds /\ loop[l].at # "unborn"
        BY DEF WantedLoops, Live
      <3> QED
        BY <3>1, WantedIsTheRun DEF OnceLifeCycle, AnyLifeCycle, WellFormed
    <2>2. \A l \in WantedLoops : stopCh # 0
      BY <2>1 DEF OnceLifeCycle, AnyLifeCycle, WellFormed, TypeOK
    <2> QED
      BY <2>1, <2>2 DEF CloseStopLocked
  <1>2. closed \subseteq closed'
    BY DEF CloseStopLocked
  <1> QED
    BY <1>1, <1>2 DEF BornLoops, WantedLoops, LeavingLoops, Live, Unsignalled

\* The context of a Start that is done tells its loop to end, if it is the run.
LEMMA CancellingTells ==
    ASSUME OnceLifeCycle, UNCHANGED <<loop, closed>>, ctxDone \subseteq ctxDone'
    PROVE  /\ BornLoops' = BornLoops
           /\ \/ WantedLoops' = WantedLoops /\ LeavingLoops' = LeavingLoops
              \/ /\ WantedLoops' = {}
                 /\ LeavingLoops' = LeavingLoops \union WantedLoops
  <1>1. BornLoops' = BornLoops
    BY DEF BornLoops
  <1>2. WantedLoops' \subseteq WantedLoops
    BY DEF WantedLoops, Live, Unsignalled
  <1>3. LeavingLoops' = LeavingLoops \union (WantedLoops \ WantedLoops')
    BY <1>2 DEF WantedLoops, LeavingLoops, Live, Unsignalled
  <1>4. WantedLoops' = WantedLoops \/ WantedLoops' = {}
    BY <1>2, WantedIsTheRun
  <1> QED
    BY <1>1, <1>3, <1>4

\* A loop that is spawned when none is wanted, and in service when every other is
\* given up on, is a run that begins.
LEMMA SpawnBegins ==
    ASSUME OnceLifeCycle, NEW ctx, StartGeneration(ctx), running = FALSE,
           phase = "started" => LeavingLoops \subseteq abandoned,
           UNCHANGED <<closed, ctxDone, abandoned, phase>>
    PROVE  \E r \in LoopIds : Gen!Begin(r)
  <1>0. TypeOK
    BY DEF OnceLifeCycle, AnyLifeCycle
  <1>1. PICK new \in LoopIds : new = nLoops + 1
    BY <1>0, SpawnedLoop
  <1>2. /\ loop'[new].at = "spawned"
        /\ \A m \in LoopIds : m # new => loop'[m] = loop[m]
    BY <1>0, <1>1, SpawnedLoop
  <1>3. new \notin BornLoops
    <2>1. nLoops \in Nat
      BY <1>0, SpawnedLoop
    <2> QED
      BY <1>1, <2>1 DEF OnceLifeCycle, AnyLifeCycle, WellFormed, BornLoops
  <1>4. WantedLoops = {}
    BY WantedIsTheRun
  <1>5. BornLoops' = BornLoops \union {new}
    BY <1>2 DEF BornLoops
  <1>6. new \notin LeavingLoops
    BY <1>3 DEF BornLoops, LeavingLoops, Live
  <1>7. CASE Unsignalled(new)'
    <2>1. WantedLoops' = {new}
      BY <1>2, <1>4, <1>7 DEF WantedLoops, Live, Unsignalled
    <2>2. LeavingLoops' = LeavingLoops
      BY <1>2, <1>6, <1>7 DEF LeavingLoops, Live, Unsignalled
    <2> QED
      BY <1>3, <1>4, <1>5, <2>1, <2>2 DEF Gen!Begin
  <1>8. CASE ~Unsignalled(new)'
    <2>1. WantedLoops' = WantedLoops
      BY <1>2, <1>4, <1>8 DEF WantedLoops, Live, Unsignalled
    <2>2. LeavingLoops' = LeavingLoops \union {new}
      BY <1>2, <1>8 DEF LeavingLoops, Live, Unsignalled
    <2> QED
      BY <1>3, <1>4, <1>5, <2>1, <2>2 DEF Gen!Begin
  <1> QED
    BY <1>7, <1>8

-----------------------------------------------------------------------------
(* WaitedForLeaves is inductive *)

\* No step takes a signal back.
LEMMA SignalsStay ==
    ASSUME AnyLifeCycle, [Next]_vars
    PROVE  closed \subseteq closed' /\ ctxDone \subseteq ctxDone'
  <1>1. CASE UNCHANGED vars
    BY <1>1 DEF vars, chans
  <1>2. CASE RuntimeStep
    BY <1>2 DEF RuntimeStep, Start, Subscribed, NotSubscribed, GenerateOnLoad, Drain, Stop,
                ShutDown, CancelContext, CloseStopLocked, chans
  <1>3. ASSUME NEW k \in StartIds, ControlStep(k)
        PROVE  closed \subseteq closed' /\ ctxDone \subseteq ctxDone'
    BY <1>3 DEF ControlStep, Receive, ControlLoopEnds, Reseed, HandleStart, HandleStop,
                HandleRate, HandleReset, SnapshotDone, LoopExited, WaitTimesOut, Spawn,
                CloseStopLocked, chans
  <1>4. ASSUME NEW l \in LoopIds, LoopStep(l)
        PROVE  closed \subseteq closed' /\ ctxDone \subseteq ctxDone'
    BY <1>4, LoopMoves DEF AnyLifeCycle, chans
  <1> QED
    BY <1>1, <1>2, <1>3, <1>4 DEF Next

\* Which steps touch the loops at all, and what becomes of the loops there are.
LEMMA LoopsGoOn ==
    ASSUME AnyLifeCycle, [Next]_vars, NEW m \in BornLoops
    PROVE  /\ loop'[m].at # "unborn"
           /\ Live(m)' => Live(m)
           /\ loop'[m].ch = loop[m].ch /\ loop'[m].ctx = loop[m].ctx
  <1>0. TypeOK /\ m \in LoopIds /\ loop[m].at # "unborn" /\ m <= nLoops /\ nLoops \in Nat
    BY DEF AnyLifeCycle, TypeOK, WellFormed, BornLoops
  <1>1. CASE UNCHANGED loop
    BY <1>0, <1>1 DEF Live
  <1>2. ASSUME NEW ctx, StartGeneration(ctx)
        PROVE  loop'[m] = loop[m]
    <2>1. CASE running = TRUE
      <3>1. UNCHANGED loop
        BY <1>2, <2>1, Zenon DEF StartGeneration
      <3> QED
        BY <3>1
    <2>2. CASE running = FALSE
      <3>1. m # nLoops + 1
        BY <1>0, BoundsAssumption DEF LoopIds
      <3>2. \A l \in LoopIds : l # nLoops + 1 => loop'[l] = loop[l]
        BY <1>0, <1>2, <2>2, SpawnedLoop
      <3> QED
        BY <1>0, <3>1, <3>2
    <2> QED
      BY <1>0, <2>1, <2>2 DEF TypeOK
  <1>3. CASE GenerateOnLoad
    BY <1>0, <1>2, <1>3 DEF GenerateOnLoad, Live
  <1>4. CASE RuntimeStep /\ ~GenerateOnLoad
    BY <1>1, <1>4 DEF RuntimeStep, Start, Subscribed, NotSubscribed, Drain, Stop,
                ShutDown, CancelContext, loops
  <1>5. ASSUME NEW k \in StartIds, ControlStep(k), ~Spawn(k)
        PROVE  UNCHANGED loop
    BY <1>5 DEF ControlStep, Receive, ControlLoopEnds, Reseed, HandleStart, HandleStop,
                HandleRate, HandleReset, SnapshotDone, LoopExited, WaitTimesOut, loops
  <1>6. ASSUME NEW k \in StartIds, Spawn(k)
        PROVE  loop'[m] = loop[m]
    BY <1>2, <1>6 DEF Spawn
  <1>7. CASE \E l \in LoopIds : LoopStep(l)
    <2>1. PICK l \in LoopIds : LoopStep(l)
      BY <1>7
    <2> QED
      BY <1>0, <2>1, LoopMoves DEF Live
  <1> QED
    BY <1>0, <1>1, <1>3, <1>4, <1>5, <1>6, <1>7 DEF Next, vars, loops, Live

\* A run that is not wanted never is again.
LEMMA StaysUnwanted ==
    ASSUME AnyLifeCycle, [Next]_vars, NEW m \in BornLoops \ WantedLoops
    PROVE  m \in BornLoops' \ WantedLoops'
  <1>1. m \in LoopIds /\ m \in BornLoops /\ ~(Live(m) /\ Unsignalled(m))
    BY DEF BornLoops, WantedLoops
  <1>2. /\ loop'[m].at # "unborn" /\ (Live(m)' => Live(m))
        /\ loop'[m].ch = loop[m].ch /\ loop'[m].ctx = loop[m].ctx
    BY <1>1, LoopsGoOn
  <1>3. ~(Live(m)' /\ Unsignalled(m)')
    BY <1>1, <1>2, SignalsStay DEF Unsignalled
  <1> QED
    BY <1>1, <1>2, <1>3 DEF BornLoops, WantedLoops

\* Where no loop is spawned none becomes wanted.
LEMMA NoneWanted ==
    ASSUME AnyLifeCycle, [Next]_vars, UNCHANGED nLoops, AnyLifeCycle', WantedLoops = {}
    PROVE  WantedLoops' = {}
  <1>1. ASSUME NEW m \in WantedLoops' PROVE FALSE
    <2>1. m \in LoopIds /\ Live(m)'
      BY <1>1 DEF WantedLoops
    <2>2. m \in BornLoops
      BY <2>1 DEF AnyLifeCycle, WellFormed, BornLoops, Live
    <2> QED
      BY <1>1, <2>2, StaysUnwanted
  <1> QED
    BY <1>1

\* Nobody waits before the Start.
LEMMA WaitedForInit == Init => WaitedForLeaves
  BY DEF Init, WaitedForLeaves

\* A step of a control loop: its critical section leaves no loop wanted, and it waits
\* for the loop it found.
LEMMA WaitedForControl ==
    ASSUME RefinementInv, AnyLifeCycle', [Next]_vars, NEW k \in StartIds, ControlStep(k)
    PROVE  WaitedForLeaves'
  <1>0. /\ OnceLifeCycle /\ AnyLifeCycle /\ StartedOnce /\ TypeOK /\ WaitedForLeaves
    BY DEF RefinementInv, OnceLifeCycle, AnyLifeCycle
  <1>1. \A j \in StartIds : j # k => ctl'[j].pc = "unborn"
    <2>1. ctl[k].pc # "unborn" /\ \A j \in StartIds : j # k => ctl'[j] = ctl[j]
      BY <1>0, ControlMoves
    <2> QED
      BY <1>0, <2>1, OneHandler
  <1>2. ctl \in [StartIds -> [pc : ControlPlaces, cmd : LastCommands, done : Nat]]
    BY <1>0 DEF TypeOK
  <1>3. CASE HandleStart(k)
    <2>1. CASE stopCh \in closed
      <3>1. WantedLoops = {} /\ nLoops' = nLoops
        BY <1>0, <1>3, <2>1, WantedIsTheRun DEF HandleStart, loops
      <3>2. WantedLoops' = {}
        BY <1>0, <3>1, NoneWanted
      <3>3. ctl'[k].pc = "snapshot"
        BY <1>2, <1>3, <2>1 DEF HandleStart
      <3> QED
        BY <1>1, <3>2, <3>3 DEF WaitedForLeaves
    <2>2. CASE stopCh \notin closed
      <3>1. ctl'[k].pc = "spawn"
        BY <1>2, <1>3, <2>2 DEF HandleStart
      <3> QED
        BY <1>1, <3>1 DEF WaitedForLeaves
    <2> QED
      BY <2>1, <2>2
  <1>4. CASE HandleReset(k)
    <2>1. WantedLoops' = {}
      BY <1>0, <1>4, ClosingTellsAll DEF HandleReset, loops
    <2>2. ctl'[k].pc \in {"snapshot", "idle"}
      BY <1>2, <1>4 DEF HandleReset
    <2> QED
      BY <1>1, <2>1, <2>2 DEF WaitedForLeaves
  <1>5. CASE SnapshotDone(k)
    <2>1. WantedLoops = {} /\ nLoops' = nLoops /\ genDone \in 0..nLoops /\ nLoops \in 0..MaxLoops
      BY <1>0, <1>5 DEF SnapshotDone, WaitedForLeaves, loops, TypeOK
    <2>2. WantedLoops' = {} /\ loop' = loop
      BY <1>0, <1>5, <2>1, NoneWanted DEF SnapshotDone, loops
    <2>3. genDone # 0 => genDone \in BornLoops
      BY <1>0, <2>1, BoundsAssumption DEF AnyLifeCycle, WellFormed, BornLoops, LoopIds
    <2>4. /\ ctl'[k].pc \in {"spawn", "wait"}
          /\ ctl'[k].pc = "wait" => genDone # 0 /\ ctl'[k].done = genDone
      BY <1>2, <1>5 DEF SnapshotDone
    <2> QED
      BY <1>1, <2>2, <2>3, <2>4 DEF WaitedForLeaves, BornLoops
  <1>6. CASE \/ Receive(k) \/ ControlLoopEnds(k) \/ Reseed(k) \/ HandleStop(k)
             \/ HandleRate(k) \/ LoopExited(k) \/ WaitTimesOut(k) \/ Spawn(k)
    <2>1. ctl'[k].pc \notin {"snapshot", "wait"}
      BY <1>2, <1>6 DEF Receive, ControlLoopEnds, Reseed, HandleStop, HandleRate,
                        LoopExited, WaitTimesOut, Spawn
    <2> QED
      BY <1>1, <2>1 DEF WaitedForLeaves
  <1> QED
    BY <1>3, <1>4, <1>5, <1>6 DEF ControlStep

\* The other steps: no handler moves, and none spawns a loop under one that waits.
LEMMA WaitedForStep ==
    ASSUME RefinementInv, AnyLifeCycle', [Next]_vars
    PROVE  WaitedForLeaves'
  <1>0. /\ OnceLifeCycle /\ AnyLifeCycle /\ StartedOnce /\ TypeOK /\ WaitedForLeaves
    BY DEF RefinementInv, OnceLifeCycle, AnyLifeCycle
  <1>1. ASSUME UNCHANGED nLoops,
               \A k \in StartIds : ctl'[k].pc \in {"snapshot", "wait"} => ctl'[k] = ctl[k]
        PROVE  WaitedForLeaves'
    <2>1. WantedLoops = {} => WantedLoops' = {}
      BY <1>0, <1>1, NoneWanted
    <2>2. \A m \in BornLoops \ WantedLoops : m \in BornLoops' \ WantedLoops'
      BY <1>0, StaysUnwanted
    <2> QED
      BY <1>0, <1>1, <2>1, <2>2 DEF WaitedForLeaves
  <1>2. CASE GenerateOnLoad
    BY <1>0, <1>2 DEF GenerateOnLoad, StartedOnce, WaitedForLeaves
  <1>3. CASE Subscribed
    <2>1. /\ nLoops' = nLoops
          /\ ctl \in [StartIds -> [pc : ControlPlaces, cmd : LastCommands, done : Nat]]
          /\ ctl' = [ctl EXCEPT ![nStarts].pc = "idle"]
      BY <1>0, <1>3 DEF Subscribed, loops, TypeOK
    <2> QED
      BY <1>1, <2>1
  <1>4. CASE Start \/ NotSubscribed \/ ShutDown \/ (\E s \in StartIds : CancelContext(s))
    BY <1>1, <1>4 DEF Start, NotSubscribed, ShutDown, CancelContext, loops
  <1>5. CASE UNCHANGED vars
    BY <1>1, <1>5 DEF vars, loops
  <1>6. CASE \E l \in LoopIds : LoopStep(l)
    <2>1. UNCHANGED <<nLoops, ctl>>
      BY <1>0, <1>6, LoopMoves
    <2> QED
      BY <1>1, <2>1
  <1>7. CASE \E k \in StartIds : ControlStep(k)
    BY <1>7, WaitedForControl
  <1> QED
    BY <1>2, <1>3, <1>4, <1>5, <1>6, <1>7 DEF Next, RuntimeStep, Drain, Stop

\* The invariant the refinement rests on, from Init and over every step.
LEMMA RefinementInductive ==
    ASSUME StartableIn = {"new"}
    PROVE  Spec => []RefinementInv
  <1>1. OnceLifeCycle => AnyLifeCycle
    BY DEF OnceLifeCycle
  <1>2. WaitedForLeaves /\ OnceLifeCycle /\ OnceLifeCycle' /\ [Next]_vars => WaitedForLeaves'
    BY <1>1, AnyLifeCycleStep, WaitedForStep DEF RefinementInv
  <1> QED
    BY <1>2, OnceInductive, WaitedForInit, PTL DEF Spec, RefinementInv

-----------------------------------------------------------------------------
(* Every step is a step of Generation, or none *)

\* What the runtime does: it takes the gear into service and out of it, begins a run
\* on load, and tells a run to end by its context.
LEMMA RuntimeSimulates ==
    ASSUME StartableIn = {"new"}, RefinementInv, RuntimeStep
    PROVE  [Gen!Next]_(Gen!vars)
  <1>0. /\ OnceLifeCycle /\ AnyLifeCycle /\ StartedOnce /\ TypeOK /\ WellFormed
    BY DEF RefinementInv, OnceLifeCycle, AnyLifeCycle
  <1>1. CASE Start
    <2>1. phase = "new" /\ UNCHANGED <<closed, ctxDone, loop, abandoned>> /\ phase' = "started"
      BY <1>1 DEF Start, loops
    <2>2. \A l \in LoopIds : loop[l].at = "unborn"
      <3>1. nLoops = 0 /\ \A l \in LoopIds : l \in Nat \ {0}
        BY <1>0, <2>1 DEF StartedOnce, WellFormed, LoopIds
      <3> QED
        BY <1>0, <3>1 DEF WellFormed
    <2>3. WantedLoops = {} /\ LeavingLoops = {} /\ WantedLoops' = {} /\ LeavingLoops' = {}
          /\ BornLoops' = BornLoops
      BY <2>1, <2>2 DEF WantedLoops, LeavingLoops, BornLoops, Live
    <2>4. Gen!Enter
      BY <2>1, <2>3 DEF Gen!Enter
    <2> QED
      BY <2>4 DEF Gen!Next
  <1>2. CASE Subscribed \/ NotSubscribed
    <2>1. UNCHANGED <<closed, ctxDone, abandoned, phase, loop>>
      BY <1>2 DEF Subscribed, NotSubscribed, chans, loops
    <2> QED
      BY <2>1, NothingForGeneration DEF Live
  <1>3. CASE GenerateOnLoad
    <2>1. /\ running = FALSE /\ StartGeneration(nStarts)
          /\ UNCHANGED <<closed, ctxDone, abandoned, phase>>
      BY <1>0, <1>3 DEF GenerateOnLoad, StartedOnce, TypeOK, chans
    <2>2. LeavingLoops = {}
      <3>1. nLoops = 0 /\ \A l \in LoopIds : l \in Nat \ {0}
        BY <1>0, <1>3 DEF GenerateOnLoad, StartedOnce, LoopIds
      <3> QED
        BY <1>0, <3>1 DEF WellFormed, LeavingLoops, Live
    <2>3. \E r \in LoopIds : Gen!Begin(r)
      BY <1>0, <2>1, <2>2, SpawnBegins
    <2> QED
      BY <2>3 DEF Gen!Next
  <1>4. CASE ShutDown
    <2>1. /\ phase' = "stopped" /\ CloseStopLocked /\ UNCHANGED <<loop, abandoned>>
          /\ ctxDone \subseteq ctxDone'
      BY <1>4 DEF ShutDown, loops
    <2>2. /\ BornLoops' = BornLoops
          /\ WantedLoops' = {}
          /\ LeavingLoops' = LeavingLoops \union WantedLoops
      BY <1>0, <2>1, ClosingTellsAll
    <2>3. Gen!Leave
      BY <2>1, <2>2 DEF Gen!Leave
    <2> QED
      BY <2>3 DEF Gen!Next
  <1>5. CASE \E s \in StartIds : CancelContext(s)
    <2>1. /\ UNCHANGED <<loop, closed, abandoned, phase>> /\ ctxDone \subseteq ctxDone'
      BY <1>5 DEF CancelContext, chans, loops, runtime
    <2>2. /\ BornLoops' = BornLoops
          /\ \/ WantedLoops' = WantedLoops /\ LeavingLoops' = LeavingLoops
             \/ /\ WantedLoops' = {}
                /\ LeavingLoops' = LeavingLoops \union WantedLoops
      BY <1>0, <2>1, CancellingTells
    <2>3. Gen!TellToEnd \/ UNCHANGED Gen!vars
      BY <2>1, <2>2 DEF Gen!TellToEnd, Gen!vars
    <2> QED
      BY <2>3 DEF Gen!Next
  <1> QED
    BY <1>1, <1>2, <1>3, <1>4, <1>5 DEF RuntimeStep, Drain, Stop

\* What a handler does: it tells the run to end, gives up on one it waited for, and
\* begins the next.
LEMMA ControlSimulates ==
    ASSUME RefinementInv, NEW k \in StartIds, ControlStep(k)
    PROVE  [Gen!Next]_(Gen!vars)
  <1>0. /\ OnceLifeCycle /\ AnyLifeCycle /\ StartedOnce /\ TypeOK /\ WellFormed
        /\ Handoff /\ WaitedForLeaves
    BY DEF RefinementInv, OnceLifeCycle, AnyLifeCycle
  <1>1. CASE \/ Receive(k) \/ ControlLoopEnds(k) \/ Reseed(k) \/ HandleStart(k)
             \/ HandleRate(k) \/ SnapshotDone(k) \/ LoopExited(k)
    <2>1. UNCHANGED <<closed, ctxDone, abandoned, phase, loop>>
      BY <1>1 DEF Receive, ControlLoopEnds, Reseed, HandleStart, HandleRate, SnapshotDone,
                  LoopExited, chans, loops, runtime
    <2> QED
      BY <2>1, NothingForGeneration DEF Live
  <1>2. CASE HandleStop(k) \/ HandleReset(k)
    <2>1. CloseStopLocked /\ UNCHANGED <<loop, abandoned, ctxDone, phase>>
      BY <1>2 DEF HandleStop, HandleReset, loops, runtime
    <2>2. Gen!TellToEnd
      BY <1>0, <2>1, ClosingTellsAll DEF Gen!TellToEnd
    <2> QED
      BY <2>2 DEF Gen!Next
  <1>3. CASE WaitTimesOut(k)
    <2>1. /\ UNCHANGED <<closed, ctxDone, phase, loop>>
          /\ abandoned' = abandoned \union {ctl[k].done} /\ ctl[k].pc = "wait"
      BY <1>3 DEF WaitTimesOut, chans, runtime
    <2>2. PICK r \in LoopIds : r = ctl[k].done /\ r \in BornLoops \ WantedLoops
      BY <1>0, <2>1 DEF WaitedForLeaves, BornLoops
    <2>3. BornLoops' = BornLoops /\ WantedLoops' = WantedLoops /\ LeavingLoops' = LeavingLoops
      BY <2>1 DEF BornLoops, WantedLoops, LeavingLoops, Live, Unsignalled
    <2>4. Gen!GiveUp(r)
      BY <2>1, <2>2, <2>3 DEF Gen!GiveUp
    <2> QED
      BY <2>4 DEF Gen!Next
  <1>4. CASE Spawn(k)
    <2>0. /\ ctl[k].pc = "spawn" /\ StartGeneration(0)
          /\ UNCHANGED <<closed, ctxDone, abandoned, phase>>
      BY <1>4 DEF Spawn, chans, runtime
    <2>1. CASE running = TRUE
      <3>1. UNCHANGED loop
        BY <2>0, <2>1, Zenon DEF StartGeneration
      <3> QED
        BY <2>0, <3>1, NothingForGeneration DEF Live
    <2>2. CASE running = FALSE
      <3>1. \A j \in StartIds : ctl[j].pc \notin {"snapshot", "wait"}
        BY <1>0, <2>0, OneHandler
      <3>2. phase = "started" => LeavingLoops \subseteq abandoned
        BY <1>0, <2>0, <2>2, <3>1 DEF Handoff, LeavingLoops
      <3>3. \E r \in LoopIds : Gen!Begin(r)
        BY <1>0, <2>0, <2>2, <3>2, SpawnBegins
      <3> QED
        BY <3>3 DEF Gen!Next
    <2> QED
      BY <1>0, <2>1, <2>2 DEF TypeOK
  <1> QED
    BY <1>1, <1>2, <1>3, <1>4 DEF ControlStep

\* What a generation loop does: it ends, when it leaves its select for good.
LEMMA LoopSimulates ==
    ASSUME RefinementInv, NEW l \in LoopIds, LoopStep(l)
    PROVE  [Gen!Next]_(Gen!vars)
  <1>0. OnceLifeCycle /\ TypeOK
    BY DEF RefinementInv, OnceLifeCycle, AnyLifeCycle
  <1>1. /\ UNCHANGED <<closed, ctxDone, abandoned, phase>>
        /\ \A m \in LoopIds : /\ m # l => loop'[m].at = loop[m].at
                              /\ loop'[m].ch = loop[m].ch
                              /\ loop'[m].ctx = loop[m].ctx
        /\ loop[l].at # "unborn" /\ loop'[l].at # "unborn"
        /\ Live(l)' => Live(l)
    BY <1>0, LoopMoves DEF chans, runtime
  <1>2. CASE Live(l)' <=> Live(l)
    <2>1. \A m \in LoopIds : /\ loop'[m].at = "unborn" <=> loop[m].at = "unborn"
                             /\ Live(m)' <=> Live(m)
      BY <1>1, <1>2 DEF Live
    <2> QED
      BY <1>1, <2>1, NothingForGeneration
  <1>3. CASE Live(l) /\ ~Live(l)'
    <2>1. BornLoops' = BornLoops
      BY <1>1 DEF BornLoops
    <2>2. l \in WantedLoops \union LeavingLoops
      BY <1>3 DEF WantedLoops, LeavingLoops
    <2>3. WantedLoops' = WantedLoops \ {l} /\ LeavingLoops' = LeavingLoops \ {l}
      <3>1. \A m \in LoopIds : /\ Live(m)' <=> Live(m) /\ m # l
                               /\ Unsignalled(m)' <=> Unsignalled(m)
        BY <1>1, <1>3 DEF Live, Unsignalled
      <3> QED
        BY <3>1 DEF WantedLoops, LeavingLoops
    <2>4. Gen!End(l)
      BY <1>1, <2>1, <2>2, <2>3 DEF Gen!End
    <2> QED
      BY <2>4 DEF Gen!Next
  <1> QED
    BY <1>1, <1>2, <1>3

\* A gear that the runtime starts once implements Generation: whatever the commands,
\* the deadlines, the timeouts and the shut-downs are, its loops follow one another
\* as the runs of Generation.
THEOREM GenerationImplemented ==
    ASSUME StartableIn = {"new"}
    PROVE  Spec => ImplementsGeneration
  <1>1. Init => Gen!Init
    BY DEF Init, Gen!Init, BornLoops, WantedLoops, LeavingLoops, Live
  <1>2. RefinementInv /\ [Next]_vars => [Gen!Next]_(Gen!vars)
    <2> SUFFICES ASSUME RefinementInv, [Next]_vars PROVE [Gen!Next]_(Gen!vars)
      OBVIOUS
    <2>1. CASE UNCHANGED vars
      BY <2>1, NothingForGeneration DEF vars, chans, loops, runtime, Live
    <2> QED
      BY <2>1, RuntimeSimulates, ControlSimulates, LoopSimulates DEF Next
  <1> QED
    BY <1>1, <1>2, RefinementInductive, PTL DEF Spec, ImplementsGeneration, Gen!Spec
=============================================================================
