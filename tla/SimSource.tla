----------------------------- MODULE SimSource -----------------------------
(***************************************************************************)
(* The life cycle of one sim_source gear (pkg/gears/sim_source/gear.go).   *)
(*                                                                         *)
(* Three kinds of goroutine share the gear:                                *)
(*   - the engine runtime, which calls Start, Drain and Stop one at a time *)
(*     and may cancel the context it gave to a Start;                      *)
(*   - the control loops, one per subscription to the control plane, each  *)
(*     handling one command at a time (an ended subscription's loop may    *)
(*     still be inside a handler when the next one is spawned);            *)
(*   - the generation loops, one per call of startGeneration that found    *)
(*     the gear not running.                                               *)
(* A step is what one of them does under one hold of g.mu, of the          *)
(* generator's mutex or of the rate engine's, or at one select.            *)
(*                                                                         *)
(* Channels are numbered in the order they are made, a generation loop's   *)
(* genDone channel is the loop's own number, and a subscription (ctrlCh    *)
(* with ctrlCancel) and a Start's context are the number of that Start.    *)
(* 0 is nil, or context.Background for a context.                          *)
(***************************************************************************)
EXTENDS Naturals

CONSTANTS
    Triggers,       \* the triggers Start knows; it refuses others
    StartableIn,    \* the phases in which the runtime may call Start
    Commands,       \* the commands that may come from the control plane
    MaxStarts,      \* bound: calls of Start
    MaxCommands,    \* bound: control commands taken off the control plane
    MaxLoops        \* bound: generation loops spawned

Phases == {"new", "started", "stopped"}

ASSUME TriggersAssumption    == Triggers \subseteq {"on_load", "on_control"}
ASSUME StartableInAssumption == StartableIn \subseteq Phases
\* sim.start comes with a seed ("reseed") or without; sim.reset puts the
\* generator back at the start of its sequence either way.
ASSUME CommandsAssumption ==
    Commands \subseteq {"start", "reseed", "stop", "rate", "reset"}
ASSUME BoundsAssumption ==
    /\ MaxStarts \in Nat
    /\ MaxCommands \in Nat
    /\ MaxLoops \in Nat

VARIABLES
    trigger,    \* g.cfg.Trigger, set by Init
    running,    \* g.running
    stopCh,     \* g.stopCh
    genDone,    \* g.genDone: the loop startGeneration spawned last
    sub,        \* g.ctrlCh and g.ctrlCancel: the current subscription
    nChans,     \* stop channels made so far
    closed,     \* the stop channels that are closed
    ticker,     \* the loop whose ticker is the rate engine's, the only one not stopped
    advanced,   \* the generator has drawn since it was last reset or reseeded
    nLoops,     \* generation loops spawned so far
    loop,       \* the generation loops
    abandoned,  \* history: loops a handler gave up waiting for
    ctl,        \* the control loops
    ctxDone,    \* the Starts whose context is done
    nStarts,    \* calls of Start so far
    rt,         \* where the runtime is inside Start
    phase,      \* what the runtime last asked for
    nCommands   \* commands taken so far

gear    == <<running, stopCh, genDone, sub>>
chans   == <<nChans, closed>>
loops   == <<nLoops, loop, abandoned>>
runtime == <<nStarts, rt, phase>>
vars    == <<trigger, gear, chans, ticker, advanced, loops, ctl, ctxDone,
             runtime, nCommands>>

LoopIds  == 1..MaxLoops
StartIds == 1..MaxStarts

\* Where a generation loop is: not spawned, spawned and yet to take its ticker,
\* at its select, inside emit, past its deadline and yet to lock, returning,
\* ended (genDone closed).
LoopPlaces == {"unborn", "spawned", "select", "emit", "expired", "exiting", "ended"}

\* Where a control loop is: not spawned, at its select, in a handler, ended.
ControlPlaces == {"unborn", "idle", "reseed", "signal", "snapshot", "wait",
                  "spawn", "ended"}

\* The command a control loop took last.
LastCommands == Commands \union {"none"}

Live(l)    == loop[l].at \in {"spawned", "select", "emit"}
Unended(l) == Live(l) \/ loop[l].at = "expired"
\* Nothing tells the loop to stop.
Unsignalled(l) == loop[l].ch \notin closed /\ loop[l].ctx \notin ctxDone

Init ==
    /\ trigger \in Triggers
    /\ running = FALSE
    /\ stopCh = 0 /\ genDone = 0 /\ sub = 0
    /\ nChans = 0 /\ closed = {}
    /\ ticker = 0
    /\ advanced = FALSE
    /\ nLoops = 0
    /\ loop = [l \in LoopIds |-> [at |-> "unborn", ch |-> 0, ctx |-> 0]]
    /\ abandoned = {}
    /\ ctl = [k \in StartIds |-> [pc |-> "unborn", cmd |-> "none", done |-> 0]]
    /\ ctxDone = {}
    /\ nStarts = 0 /\ rt = "idle" /\ phase = "new"
    /\ nCommands = 0

-----------------------------------------------------------------------------
(* What several actors do under g.mu *)

\* stopCh = make(chan struct{})
MakeStopCh ==
    /\ nChans' = nChans + 1
    /\ stopCh' = nChans + 1

\* Variant for a mutant: closing without the nil check.
CloseStopUnchecked == closed' = closed \union {stopCh}

\* closeStopLocked: nothing before the first Start, nothing the second time.
CloseStopLocked == closed' = closed \union ({stopCh} \ {0})

\* startGeneration: nothing while running; otherwise a loop that keeps the
\* channel and the context of this moment.
StartGeneration(ctx) ==
    \/ /\ running
       /\ UNCHANGED <<running, genDone, nLoops, loop>>
    \/ /\ ~running
       /\ nLoops < MaxLoops
       /\ running' = TRUE
       /\ nLoops' = nLoops + 1
       /\ genDone' = nLoops + 1
       /\ loop' = [loop EXCEPT ![nLoops + 1] =
                        [at |-> "spawned", ch |-> stopCh, ctx |-> ctx]]

-----------------------------------------------------------------------------
(* The runtime: Start, Drain, Stop *)

\* Start up to the end of its first critical section, and the choice it makes
\* by the trigger and by the subscription it saw there. A Start that finds the
\* gear subscribed only replaces the channel.
Start ==
    /\ rt = "idle"
    /\ phase \in StartableIn
    /\ nStarts < MaxStarts
    /\ nStarts' = nStarts + 1
    /\ phase' = "started"
    /\ MakeStopCh
    /\ rt' = CASE trigger = "on_load" -> "generating"
               [] trigger = "on_control" /\ sub = 0 -> "subscribing"
               [] OTHER -> "idle"
    /\ UNCHANGED <<trigger, running, genDone, sub, closed, ticker, advanced,
                   loops, ctl, ctxDone, nCommands>>

\* Start, on_control: the control plane gave a channel; keep it and spawn the
\* control loop on it.
Subscribed ==
    /\ rt = "subscribing"
    /\ rt' = "idle"
    /\ sub' = nStarts
    /\ ctl' = [ctl EXCEPT ![nStarts].pc = "idle"]
    /\ UNCHANGED <<trigger, running, stopCh, genDone, chans, ticker, advanced,
                   loops, ctxDone, nStarts, phase, nCommands>>

\* Start, on_control: no control plane, or it refused. Nothing is undone.
NotSubscribed ==
    /\ rt = "subscribing"
    /\ rt' = "idle"
    /\ UNCHANGED <<trigger, gear, chans, ticker, advanced, loops, ctl, ctxDone,
                   nStarts, phase, nCommands>>

\* Start, on_load: generate at once, under the context Start was given.
GenerateOnLoad ==
    /\ rt = "generating"
    /\ rt' = "idle"
    /\ StartGeneration(nStarts)
    /\ UNCHANGED <<trigger, stopCh, sub, chans, ticker, advanced, abandoned,
                   ctl, ctxDone, nStarts, phase, nCommands>>

\* Variant for a mutant: ctrlCancel declared and never assigned.
ShutDownNeverCancels ==
    /\ rt = "idle"
    /\ phase' = "stopped"
    /\ sub' = 0
    /\ CloseStopLocked
    /\ running' = FALSE
    /\ UNCHANGED <<trigger, stopCh, genDone, nChans, ticker, advanced, loops,
                   ctl, ctxDone, nStarts, rt, nCommands>>

\* The body Drain and Stop share: stopControlLoopLocked, closeStopLocked,
\* running = false.
ShutDown ==
    /\ rt = "idle"
    /\ phase' = "stopped"
    /\ ctxDone' = ctxDone \union ({sub} \ {0})
    /\ sub' = 0
    /\ CloseStopLocked
    /\ running' = FALSE
    /\ UNCHANGED <<trigger, stopCh, genDone, nChans, ticker, advanced, loops,
                   ctl, nStarts, rt, nCommands>>

Drain == ShutDown
Stop  == ShutDown

\* The runtime cancels the context it gave to Start s.
CancelContext(s) ==
    /\ s \in 1..nStarts
    /\ s \notin ctxDone
    /\ ctxDone' = ctxDone \union {s}
    /\ UNCHANGED <<trigger, gear, chans, ticker, advanced, loops, ctl, runtime,
                   nCommands>>

-----------------------------------------------------------------------------
(* Control loop k: controlLoop and handleControlCommand *)

\* The select takes a command. A done context does not keep it from that: Go
\* picks any ready case. sim.start without a seed goes straight to its critical
\* section, and so do sim.stop and sim.rate.
Receive(k) ==
    /\ ctl[k].pc = "idle"
    /\ nCommands < MaxCommands
    /\ nCommands' = nCommands + 1
    /\ \E cmd \in Commands :
         ctl' = [ctl EXCEPT ![k] =
                    [pc   |-> IF cmd \in {"reseed", "reset"} THEN "reseed" ELSE "signal",
                     cmd  |-> cmd,
                     done |-> 0]]
    /\ UNCHANGED <<trigger, gear, chans, ticker, advanced, loops, ctxDone, runtime>>

\* The select sees that the context is done.
ControlLoopEnds(k) ==
    /\ ctl[k].pc = "idle"
    /\ k \in ctxDone
    /\ ctl' = [ctl EXCEPT ![k].pc = "ended"]
    /\ UNCHANGED <<trigger, gear, chans, ticker, advanced, loops, ctxDone,
                   runtime, nCommands>>

\* Reseed or ResetCounters, under the generator's own mutex. Both handlers do
\* it first, while a loop may still be drawing.
Reseed(k) ==
    /\ ctl[k].pc = "reseed"
    /\ advanced' = FALSE
    /\ ctl' = [ctl EXCEPT ![k].pc = "signal"]
    /\ UNCHANGED <<trigger, gear, chans, ticker, loops, ctxDone, runtime, nCommands>>

\* Variants for mutants: sim.start does not wait for the loop it replaces; it sets
\* running itself; it takes back the stop instead of replacing the channel.
HandleStartNoWait(k) ==
    /\ ctl[k].pc = "signal"
    /\ ctl[k].cmd \in {"start", "reseed"}
    /\ IF stopCh \in closed THEN MakeStopCh ELSE UNCHANGED <<nChans, stopCh>>
    /\ ctl' = [ctl EXCEPT ![k].pc = "spawn"]
    /\ UNCHANGED <<trigger, running, genDone, sub, closed, ticker, advanced,
                   loops, ctxDone, runtime, nCommands>>

HandleStartPresetsRunning(k) ==
    /\ ctl[k].pc = "signal"
    /\ ctl[k].cmd \in {"start", "reseed"}
    /\ IF stopCh \in closed THEN MakeStopCh ELSE UNCHANGED <<nChans, stopCh>>
    /\ running' = TRUE
    /\ ctl' = [ctl EXCEPT ![k].pc = "spawn"]
    /\ UNCHANGED <<trigger, genDone, sub, closed, ticker, advanced,
                   loops, ctxDone, runtime, nCommands>>

HandleStartReopens(k) ==
    /\ ctl[k].pc = "signal"
    /\ ctl[k].cmd \in {"start", "reseed"}
    /\ closed' = closed \ {stopCh}
    /\ ctl' = [ctl EXCEPT ![k].pc = IF stopCh \in closed THEN "snapshot" ELSE "spawn"]
    /\ UNCHANGED <<trigger, gear, nChans, ticker, advanced, loops, ctxDone,
                   runtime, nCommands>>

\* sim.start, its critical section: a closed channel is replaced, and then the
\* loop that held it is waited for.
HandleStart(k) ==
    /\ ctl[k].pc = "signal"
    /\ ctl[k].cmd \in {"start", "reseed"}
    /\ \/ /\ stopCh \in closed
          /\ MakeStopCh
          /\ ctl' = [ctl EXCEPT ![k].pc = "snapshot"]
       \/ /\ stopCh \notin closed
          /\ ctl' = [ctl EXCEPT ![k].pc = "spawn"]
          /\ UNCHANGED <<nChans, stopCh>>
    /\ UNCHANGED <<trigger, running, genDone, sub, closed, ticker, advanced,
                   loops, ctxDone, runtime, nCommands>>

\* sim.stop
HandleStop(k) ==
    /\ ctl[k].pc = "signal"
    /\ ctl[k].cmd = "stop"
    /\ running' = FALSE
    /\ CloseStopLocked
    /\ ctl' = [ctl EXCEPT ![k].pc = "idle"]
    /\ UNCHANGED <<trigger, stopCh, genDone, sub, nChans, ticker, advanced,
                   loops, ctxDone, runtime, nCommands>>

\* sim.rate: the rate engine's state changes, none of the gear's does.
HandleRate(k) ==
    /\ ctl[k].pc = "signal"
    /\ ctl[k].cmd = "rate"
    /\ ctl' = [ctl EXCEPT ![k].pc = "idle"]
    /\ UNCHANGED <<trigger, gear, chans, ticker, advanced, loops, ctxDone,
                   runtime, nCommands>>

\* Variant for a mutant: sim.reset spawns the new loop at once.
HandleResetNoWait(k) ==
    /\ ctl[k].pc = "signal"
    /\ ctl[k].cmd = "reset"
    /\ running' = FALSE
    /\ CloseStopLocked
    /\ IF running THEN MakeStopCh ELSE UNCHANGED <<nChans, stopCh>>
    /\ ctl' = [ctl EXCEPT ![k].pc = IF running THEN "spawn" ELSE "idle"]
    /\ UNCHANGED <<trigger, genDone, sub, ticker, advanced, loops, ctxDone,
                   runtime, nCommands>>

\* sim.reset, its critical section.
HandleReset(k) ==
    /\ ctl[k].pc = "signal"
    /\ ctl[k].cmd = "reset"
    /\ running' = FALSE
    /\ CloseStopLocked
    /\ \/ /\ running
          /\ MakeStopCh
          /\ ctl' = [ctl EXCEPT ![k].pc = "snapshot"]
       \/ /\ ~running
          /\ ctl' = [ctl EXCEPT ![k].pc = "idle"]
          /\ UNCHANGED <<nChans, stopCh>>
    /\ UNCHANGED <<trigger, genDone, sub, ticker, advanced, loops, ctxDone,
                   runtime, nCommands>>

\* waitForGenerationLoopToExit reads genDone under g.mu ...
SnapshotDone(k) ==
    /\ ctl[k].pc = "snapshot"
    /\ ctl' = [ctl EXCEPT ![k].pc   = IF genDone = 0 THEN "spawn" ELSE "wait",
                          ![k].done = genDone]
    /\ UNCHANGED <<trigger, gear, chans, ticker, advanced, loops, ctxDone,
                   runtime, nCommands>>

\* ... and waits without it for that loop to end ...
LoopExited(k) ==
    /\ ctl[k].pc = "wait"
    /\ loop[ctl[k].done].at = "ended"
    /\ ctl' = [ctl EXCEPT ![k].pc = "spawn"]
    /\ UNCHANGED <<trigger, gear, chans, ticker, advanced, loops, ctxDone,
                   runtime, nCommands>>

\* Variant for a mutant: the wait has no timeout.
WaitForEver(k) == FALSE /\ UNCHANGED vars

\* ... or for generationLoopExitTimeout.
WaitTimesOut(k) ==
    /\ ctl[k].pc = "wait"
    /\ loop[ctl[k].done].at # "ended"
    /\ abandoned' = abandoned \union {ctl[k].done}
    /\ ctl' = [ctl EXCEPT ![k].pc = "spawn"]
    /\ UNCHANGED <<trigger, gear, chans, ticker, advanced, nLoops, loop, ctxDone,
                   runtime, nCommands>>

\* startGeneration(context.Background()), the end of sim.start and sim.reset.
Spawn(k) ==
    /\ ctl[k].pc = "spawn"
    /\ StartGeneration(0)
    /\ ctl' = [ctl EXCEPT ![k].pc = "idle"]
    /\ UNCHANGED <<trigger, stopCh, sub, chans, ticker, advanced, abandoned,
                   ctxDone, runtime, nCommands>>

-----------------------------------------------------------------------------
(* Generation loop l: the goroutine of startGeneration *)

MoveLoop(l, place) == loop' = [loop EXCEPT ![l].at = place]

\* rateEngine.Ticker() stops the ticker it gave before, whoever reads it.
TakeTicker(l) ==
    /\ loop[l].at = "spawned"
    /\ ticker' = l
    /\ MoveLoop(l, "select")
    /\ UNCHANGED <<trigger, gear, chans, advanced, nLoops, abandoned, ctl, ctxDone,
                   runtime, nCommands>>

\* A tick, even after a stop was signalled. Generate draws from the generator
\* whether or not it returns a message to emit.
Tick(l) ==
    /\ loop[l].at = "select"
    /\ ticker = l
    /\ advanced' = TRUE
    /\ \E place \in {"emit", "select"} : MoveLoop(l, place)
    /\ UNCHANGED <<trigger, gear, chans, ticker, nLoops, abandoned, ctl, ctxDone,
                   runtime, nCommands>>

\* emit returns: downstream took the message.
EmitReturns(l) ==
    /\ loop[l].at = "emit"
    /\ MoveLoop(l, "select")
    /\ UNCHANGED <<trigger, gear, chans, ticker, advanced, nLoops, abandoned, ctl,
                   ctxDone, runtime, nCommands>>

\* Variant for a mutant: the loop reads g.stopCh again on every turn.
SeeStopOfTheGear(l) ==
    /\ loop[l].at = "select"
    /\ stopCh \in closed \/ loop[l].ctx \in ctxDone
    /\ MoveLoop(l, "exiting")
    /\ UNCHANGED <<trigger, gear, chans, ticker, advanced, nLoops, abandoned, ctl,
                   ctxDone, runtime, nCommands>>

\* <-ctx.Done() or <-stopCh
SeeStop(l) ==
    /\ loop[l].at = "select"
    /\ ~Unsignalled(l)
    /\ MoveLoop(l, "exiting")
    /\ UNCHANGED <<trigger, gear, chans, ticker, advanced, nLoops, abandoned, ctl,
                   ctxDone, runtime, nCommands>>

\* <-deadline, in a run that has a duration
DeadlineFires(l) ==
    /\ loop[l].at = "select"
    /\ MoveLoop(l, "expired")
    /\ UNCHANGED <<trigger, gear, chans, ticker, advanced, nLoops, abandoned, ctl,
                   ctxDone, runtime, nCommands>>

\* Variant for a mutant: the deadline ends whatever run is in progress.
ExpireAnyRun(l) ==
    /\ loop[l].at = "expired"
    /\ running' = FALSE
    /\ MoveLoop(l, "exiting")
    /\ UNCHANGED <<trigger, stopCh, genDone, sub, chans, ticker, advanced, nLoops,
                   abandoned, ctl, ctxDone, runtime, nCommands>>

\* The deadline branch under g.mu: only the loop of the current run ends it.
Expire(l) ==
    /\ loop[l].at = "expired"
    /\ running' = (running /\ stopCh # loop[l].ch)
    /\ MoveLoop(l, "exiting")
    /\ UNCHANGED <<trigger, stopCh, genDone, sub, chans, ticker, advanced, nLoops,
                   abandoned, ctl, ctxDone, runtime, nCommands>>

\* The deferred calls: its ticker stops, done closes.
Exit(l) ==
    /\ loop[l].at = "exiting"
    /\ MoveLoop(l, "ended")
    /\ UNCHANGED <<trigger, gear, chans, ticker, advanced, nLoops, abandoned, ctl,
                   ctxDone, runtime, nCommands>>

-----------------------------------------------------------------------------
RuntimeStep ==
    \/ Start \/ Subscribed \/ NotSubscribed \/ GenerateOnLoad
    \/ Drain \/ Stop
    \/ \E s \in StartIds : CancelContext(s)

ControlStep(k) ==
    \/ Receive(k) \/ ControlLoopEnds(k)
    \/ Reseed(k)
    \/ HandleStart(k) \/ HandleStop(k) \/ HandleRate(k) \/ HandleReset(k)
    \/ SnapshotDone(k) \/ LoopExited(k) \/ WaitTimesOut(k)
    \/ Spawn(k)

LoopStep(l) ==
    \/ TakeTicker(l) \/ Tick(l) \/ EmitReturns(l)
    \/ SeeStop(l) \/ DeadlineFires(l) \/ Expire(l) \/ Exit(l)

Next ==
    \/ RuntimeStep
    \/ \E k \in StartIds : ControlStep(k)
    \/ \E l \in LoopIds : LoopStep(l)

Spec == Init /\ [][Next]_vars

\* A handler that is under way is scheduled until it is done, and so is a loop
\* outside its select. The select is fair to a stop only in the strong sense: a
\* loop comes back to it after every emit, and Go picks among the ready cases at
\* random. Nothing is assumed of emit, of the runtime or of who sends commands.
HandlerStep(k) ==
    \/ Reseed(k)
    \/ HandleStart(k) \/ HandleStop(k) \/ HandleRate(k) \/ HandleReset(k)
    \/ SnapshotDone(k) \/ LoopExited(k) \/ WaitTimesOut(k)
    \/ Spawn(k)

Fairness ==
    /\ \A k \in StartIds : WF_vars(HandlerStep(k))
    /\ \A l \in LoopIds : /\ WF_vars(TakeTicker(l) \/ Expire(l) \/ Exit(l))
                           /\ SF_vars(SeeStop(l))

FairSpec == Spec /\ Fairness

-----------------------------------------------------------------------------
(* Properties *)

TypeOK ==
    /\ trigger \in Triggers
    /\ running \in BOOLEAN
    /\ nChans \in Nat /\ stopCh \in 0..nChans /\ closed \subseteq 1..nChans
    /\ nLoops \in 0..MaxLoops /\ genDone \in 0..nLoops /\ ticker \in 0..MaxLoops
    /\ loop \in [LoopIds -> [at : LoopPlaces, ch : Nat, ctx : Nat]]
    /\ abandoned \subseteq Nat
    /\ advanced \in BOOLEAN
    /\ ctl \in [StartIds -> [pc : ControlPlaces, cmd : LastCommands, done : Nat]]
    /\ nStarts \in 0..MaxStarts /\ sub \in 0..nStarts /\ ctxDone \subseteq 1..nStarts
    /\ rt \in {"idle", "subscribing", "generating"}
    /\ phase \in Phases
    /\ nCommands \in 0..MaxCommands

\* Until the gear is shut down, two generation loops are alive together only when
\* a handler gave up waiting for one of them: the promise of
\* waitForGenerationLoopToExit, which sim.start and sim.reset keep between them
\* and the deadline branch must not break.
OneEmitter ==
    phase = "started" =>
        \A l, m \in LoopIds :
            Live(l) /\ Live(m) /\ l # m => l \in abandoned \/ m \in abandoned

\* Until the gear is shut down, and as long as no wait timed out, the loop that
\* generates reads the rate engine's own ticker: another loop that calls Ticker
\* would stop the ticks of the run in progress for good.
RunHoldsTicker ==
    phase = "started" /\ abandoned = {} =>
        \A l \in LoopIds : loop[l].at \in {"select", "emit"} => ticker = l

\* Every loop that nothing stops is on the channel that sim.stop, Drain and Stop
\* close: none is out of their reach.
StopReachesEveryLoop ==
    \A l \in LoopIds : Unended(l) /\ Unsignalled(l) => loop[l].ch = stopCh

\* On one open channel there is at most one loop that has not ended, and it is
\* the run that g.running stands for if the gear still holds the channel. With
\* two, the deadline of one would clear running under the other, and the next
\* sim.start would add a third.
OneRunPerChannel ==
    \A l, m \in LoopIds :
        Unended(l) /\ loop[l].ch \notin closed =>
            /\ loop[l].ch = stopCh => running
            /\ Unended(m) /\ loop[m].ch = loop[l].ch => l = m

\* Until the gear is shut down, running on an open channel stands for a loop on
\* that channel. Without one, startGeneration returns at once for every sim.start
\* and the gear is silent until a sim.stop or sim.reset.
RunningMeansGenerating ==
    phase = "started" /\ running /\ stopCh \notin closed =>
        \E l \in LoopIds :
            /\ loop[l].ch = stopCh
            /\ Unended(l) \/ loop[l].ctx \in ctxDone

\* The control loops whose context lives are exactly the one of the current
\* subscription: no two race for commands, and a subscribed gear listens.
OneControlLoop ==
    \A k \in StartIds :
        k \notin ctxDone => (ctl[k].pc \notin {"unborn", "ended"} <=> k = sub)

\* After Drain or Stop, what still generates has been told to end: its channel
\* is closed or its context done.
StoppedGearIsSilent ==
    phase = "stopped" => \A l \in LoopIds : Unended(l) => ~Unsignalled(l)

\* A run that a seeded sim.start or a sim.reset begins draws from the start of
\* the generator's sequence.
SeededRunStartsAfresh ==
    [][\A k \in StartIds :
            Spawn(k) /\ nLoops' # nLoops /\ ctl[k].cmd \in {"reseed", "reset"}
                => ~advanced]_vars

\* A loop whose channel is closed ends, unless it stays in emit for ever. Holding
\* the channel it started with is what makes this true.
SignalledLoopsEnd ==
    \A l \in LoopIds :
        []<>(loop[l].at # "emit") =>
            ((Unended(l) /\ loop[l].ch \in closed) ~> loop[l].at = "ended")

\* Every command handler finishes, even while a loop is blocked in emit for ever:
\* the control loop is not lost to its own wait.
CommandsComplete ==
    \A k \in StartIds :
        ctl[k].pc \notin {"unborn", "idle", "ended"} ~> ctl[k].pc = "idle"

-----------------------------------------------------------------------------
(* What the gear implements *)

BornLoops    == {l \in LoopIds : loop[l].at # "unborn"}
WantedLoops  == {l \in LoopIds : Live(l) /\ Unsignalled(l)}
LeavingLoops == {l \in LoopIds : Live(l) /\ ~Unsignalled(l)}

Gen == INSTANCE Generation WITH
    Runs <- LoopIds, inService <- (phase = "started"), begun <- BornLoops,
    current <- WantedLoops, leaving <- LeavingLoops

\* However commands, deadlines, cancellations and shut-downs fall, the loops of a
\* gear started once follow one another as the runs of Generation do.
ImplementsGeneration == Gen!Spec

-----------------------------------------------------------------------------
(* What makes the invariants inductive *)

\* Actors exist only after the Start that brings them, the loops are those
\* numbered up to nLoops, and each of them is on a channel that was made.
WellFormed ==
    /\ nStarts > 0 => stopCh > 0
    /\ nStarts = 0 => nLoops = 0 /\ nChans = 0 /\ ~running
    /\ rt # "idle" => nStarts > 0
    /\ rt = "subscribing" => sub = 0
    /\ \A k \in StartIds : ctl[k].pc # "unborn" => k <= nStarts
    /\ \A l \in LoopIds : loop[l].at # "unborn" <=> l <= nLoops
    /\ \A l \in LoopIds : l <= nLoops => loop[l].ch \in 1..nChans

\* A gear started once: the phase tells whether the Start has happened, nothing
\* else has while Start is under way, and every channel but the gear's is closed.
StartedOnce ==
    /\ nStarts <= 1
    /\ phase = "new" => nStarts = 0
    /\ rt # "idle" => nLoops = 0 /\ ~running /\ \A k \in StartIds : ctl[k].pc = "unborn"
    /\ rt # "idle" => stopCh \notin closed /\ phase = "started"
    /\ 1..nChans \subseteq closed \union {stopCh}

\* How a gear started once hands the emitting from one loop to the next. A handler
\* between its critical section and its spawn has an open channel, and while it
\* waits nothing runs; a loop that nobody gave up on is the last one spawned, and
\* if nothing runs on an open channel it is the one being waited for.
Handoff ==
    phase = "started" =>
        /\ stopCh \in closed => ~running
        /\ \A l \in LoopIds : Live(l) => l \in abandoned \/ l = genDone
        /\ \A k \in StartIds :
             /\ ctl[k].pc \in {"snapshot", "wait", "spawn"} => stopCh \notin closed
             /\ ctl[k].pc \in {"snapshot", "wait"} => ~running
             /\ ctl[k].pc = "wait" => ctl[k].done = genDone
        /\ \A l \in LoopIds :
             Live(l) /\ l \notin abandoned /\ ~running /\ stopCh \notin closed =>
                \E k \in StartIds : ctl[k].pc \in {"snapshot", "wait"}
        /\ running => /\ genDone # 0
                      /\ loop[genDone].ch = stopCh
                      /\ \/ stopCh \in closed
                         \/ Unended(genDone)
                         \/ loop[genDone].ctx \in ctxDone
=============================================================================
