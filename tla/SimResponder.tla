---------------------------- MODULE SimResponder ----------------------------
(***************************************************************************)
(* One sim_responder gear (pkg/gears/sim_responder/gear.go and             *)
(* responder.go): requests are answered by rules, on one goroutine per     *)
(* wire into the gear, while control loops pause, resume and reset it.     *)
(*                                                                         *)
(* Two mutexes guard it. The gear's (g.mu) is held for one step, except by *)
(* sim.reset, which takes the responder's (r.mu) inside it. The            *)
(* responder's is held for one macro at a time.                            *)
(*                                                                         *)
(* Left out: g.running, which nothing reads; the port, which is always     *)
(* "in"; and the metadata of a response, copied from its request.          *)
(*                                                                         *)
(* The stop channel and the control channel a Start makes have its number; *)
(* 0 is nil. The seeded generator is the number of draws made from it. An  *)
(* instant is in the zone of the gear, and what is printed of it is the    *)
(* instant itself ($NOW) or its day ($RRN); the machine's clock may show   *)
(* any instant at any time. The configuration is one that Init accepts; a  *)
(* map of response fields is a set of entries, each a key and the template *)
(* its value says: a macro with its arguments, or "" and a literal. A      *)
(* field that $ENUM fills has values to choose from.                       *)
(***************************************************************************)
EXTENDS GearConfig, SeedClock, SequencesExt

CONSTANTS
    Wires,          \* the goroutines that call ProcessPort
    StartableIn,    \* the phases in which the runtime may call Start
    Configs,        \* g.cfg: [trigger, default, rules, delay, seed, deterministicClock]
    Requests,       \* decoded requests: [mti, fields, aliases]
    Catalog,        \* r.spec.Messages.Catalog: [flow, pairsWith]
    EchoedIn,       \* r.spec.Fields: the responses that echo each field
    Holds,          \* sdl.ParseWhen and Eval: the requests each text holds of
    KeyOrder,       \* the place of each key for sort.Strings
    Modulus,        \* what the six digits of $RRN and $STAN wrap at
    WallClock,      \* time.Now(): the instants the machine's clock may show
    DayLength,      \* a day, in the unit of instants
    UUIDs,          \* what uuid.NewV7 may give
    MaxStarts,      \* bound: calls of Start
    MaxRequests,    \* bound: requests taken
    MaxCommands,    \* bound: control commands taken
    MaxCalls        \* bound: all of these, a sim.start to wait for left out

Phases   == {"new", "started", "stopped"}
StartIds == 1..MaxStarts
Commands == {"start", "stop", "rate", "reset"}
STANField == 11

ASSUME StartableInAssumption == StartableIn \subseteq Phases
ASSUME WrapAssumption == {Modulus, WordSize, ClockRange} \subseteq Nat \ {0}
ASSUME ClockAssumption == WallClock \subseteq Int /\ DayLength \in Nat \ {0}
ASSUME BoundsAssumption == {MaxStarts, MaxRequests, MaxCommands, MaxCalls} \subseteq Nat

VARIABLES
    cfg,        \* g.cfg, and r.cfg
    paused,     \* g.paused
    emit,       \* g.emit is not nil
    stopCh,     \* g.stopCh
    ctrlCh,     \* g.ctrlCh
    closed,     \* the stop channels that are closed
    gearMu,     \* who holds g.mu between steps: a control loop, or 0
    ctl,        \* the control loops
    ctxDone,    \* the Starts whose context is done
    counters,   \* r.seqCounters, 0 where the map has no key
    drawn,      \* r.rand: draws made since it was seeded
    respMu,     \* who holds r.mu between steps: a set of at most one wire
    wire,       \* the goroutines inside ProcessPort
    nStarts, rt, phase,     \* the runtime: Starts, where it is in one, what it asked last
    nRequests, nCommands,   \* requests and commands taken so far
    issued,     \* history: the numbers printed under each name since the last reset
    taken,      \* history: the requests that drew since the last reset, in order
    serial,     \* history: each of them was done before the next, or a reset, came
    answered,   \* history: a response was emitted
    lastCommand,\* history: the last sim.start or sim.stop taken off the channel
    resumed,    \* history: a sim.start was handled
    beside      \* history: two control loops have lived at once

gear    == <<cfg, paused, emit, stopCh, ctrlCh, closed>>
control == <<ctl, ctxDone, nCommands, lastCommand, resumed, beside>>
macros  == <<counters, drawn, issued>>
serving == <<respMu, wire, nRequests, taken, serial, answered>>
runtime == <<nStarts, rt, phase>>
vars    == <<gear, gearMu, control, macros, serving, runtime>>

Literal(t) == t.macro = ""

\* The name a macro counts under in r.seqCounters.
CounterOf(t) ==
    CASE t.macro = "RRN"  -> "rrn"
      [] t.macro = "STAN" -> "stan"
      [] OTHER            -> t.name

TemplatesOf(c) ==
    {e.template : e \in c.default \union UNION {c.rules[i].set : i \in DOMAIN c.rules}}
Templates == UNION {TemplatesOf(c) : c \in Configs}

\* sort.Strings: the entries whose keys name a field, in the order of their keys.
Orders(entries) ==
    LET usable == {e \in entries : FieldOf(e.key) > 0}
    IN {s \in [1..Cardinality(usable) -> usable] :
            \A i, j \in DOMAIN s : i < j => KeyOrder[s[i].key] < KeyOrder[s[j].key]}

\* What Init accepts, and keys that have different places.
ASSUME ConfigsAssumption ==
    \A c \in Configs :
        /\ c.trigger \in {"on_load", "on_control"} /\ c.seed \in Int
        /\ c.deterministicClock \in BOOLEAN
        /\ DOMAIN c.rules \subseteq Nat
        /\ \A entries \in {c.default} \union {c.rules[i].set : i \in DOMAIN c.rules} :
              /\ IsFiniteSet(entries) /\ Orders(entries) # {}
              /\ \A e \in entries : KeyOrder[e.key] \in Int
ASSUME TemplatesAssumption ==
    \A t \in Templates : t.macro = "SEQ" => t.start \in 0..(WordSize - 1)

\* The macros that count, and the names they count under.
Counting  == {"RRN", "STAN", "SEQ"}
Counters  == {CounterOf(t) : t \in {t \in Templates : t.macro \in Counting}}

Idle == [at |-> "idle"]

CallsLeft ==
    nStarts + nRequests + nCommands < MaxCalls + (IF cfg.trigger = "on_control" THEN 1 ELSE 0)

\* Variant for a mutant: every gear begins unpaused.
NotPausedAtFirst(c) == FALSE

\* g.paused after Init: a gear that waits for sim.start.
PausedAtFirst(c) == c.trigger = "on_control"

\* The gear before its Start, and its new responder.
Fresh ==
    /\ emit = FALSE
    /\ stopCh = 0 /\ ctrlCh = 0 /\ closed = {}
    /\ gearMu = 0
    /\ ctl = [k \in StartIds |-> [pc |-> "unborn"]]
    /\ ctxDone = {}
    /\ counters = [name \in Counters |-> 0] /\ drawn = 0
    /\ respMu = {}
    /\ wire = [w \in Wires |-> Idle]
    /\ nStarts = 0 /\ rt = "idle" /\ phase = "new"
    /\ nRequests = 0 /\ nCommands = 0
    /\ issued = [name \in Counters |-> <<>>]
    /\ taken = <<>> /\ serial = TRUE /\ answered = FALSE
    /\ lastCommand = "none" /\ resumed = FALSE /\ beside = FALSE

Init ==
    /\ cfg \in Configs
    /\ paused = PausedAtFirst(cfg)
    /\ Fresh

-----------------------------------------------------------------------------
(* The runtime: Start, Drain, Stop *)

\* Start, its critical section.
Start ==
    /\ rt = "idle" /\ gearMu = 0
    /\ phase \in StartableIn
    /\ nStarts < MaxStarts /\ CallsLeft
    /\ nStarts' = nStarts + 1
    /\ emit' = TRUE /\ stopCh' = nStarts + 1
    /\ rt' = "subscribing" /\ phase' = "started"
    /\ UNCHANGED <<cfg, paused, ctrlCh, closed, gearMu, control, macros, serving>>

\* The control plane gave a channel, which is kept without the mutex.
Subscribed ==
    /\ rt = "subscribing"
    /\ rt' = "spawning"
    /\ ctrlCh' = nStarts
    /\ UNCHANGED <<cfg, paused, emit, stopCh, closed, gearMu, control, macros,
                   serving, nStarts, phase>>

\* No control plane; or it refused, which a gear that waits for sim.start reports.
NotSubscribed ==
    /\ rt = "subscribing"
    /\ rt' \in {"spawning"} \union (IF cfg.trigger = "on_control" THEN {"idle"} ELSE {})
    /\ UNCHANGED <<gear, gearMu, control, macros, serving, nStarts, phase>>

\* The control loops that have begun and not ended.
Alive == {k \in StartIds : ctl[k].pc \notin {"unborn", "ended"}}

\* go g.controlLoop(ctx), which returns at once without a channel.
SpawnControlLoop ==
    /\ rt = "spawning"
    /\ rt' = "idle"
    /\ ctl' = [ctl EXCEPT ![nStarts] = [pc |-> IF ctrlCh = 0 THEN "ended" ELSE "turn"]]
    /\ beside' = (beside \/ (ctrlCh # 0 /\ Alive # {}))
    /\ UNCHANGED <<gear, gearMu, ctxDone, nCommands, lastCommand, resumed, macros, serving,
                   nStarts, phase>>

\* Variant for a mutant: closing without the nil check.
CloseStopUnchecked == closed' = closed \union {stopCh}

\* closeStopLocked
CloseStopLocked == closed' = closed \union ({stopCh} \ {0})

\* The body of Drain and of Stop; ctrlCancel is nil, nothing ever sets it.
ShutDown ==
    /\ rt = "idle" /\ gearMu = 0
    /\ CloseStopLocked
    /\ phase' = "stopped"
    /\ UNCHANGED <<cfg, paused, emit, stopCh, ctrlCh, gearMu, control, macros, serving,
                   nStarts, rt>>

Drain == ShutDown
Stop  == ShutDown

\* The runtime cancels the context it gave to Start s.
CancelContext(s) ==
    /\ s \in (1..nStarts) \ ctxDone
    /\ ctxDone' = ctxDone \union {s}
    /\ UNCHANGED <<gear, gearMu, ctl, nCommands, lastCommand, resumed, beside, macros,
                   serving, runtime>>

-----------------------------------------------------------------------------
(* Control loop k: controlLoop and handleControlCommand *)

\* Each turn of the loop reads g.stopCh and g.ctrlCh anew, without the mutex, so
\* a turn that follows a Start listens on that Start's channels.
Turn(k) ==
    /\ ctl[k].pc = "turn"
    /\ ctl' = [ctl EXCEPT ![k] = [pc |-> "select", stop |-> stopCh]]
    /\ UNCHANGED <<gear, gearMu, ctxDone, nCommands, lastCommand, resumed, beside, macros,
                   serving, runtime>>

\* The select takes a command, whatever else is ready.
Receive(k) ==
    /\ ctl[k].pc = "select"
    /\ nCommands < MaxCommands /\ CallsLeft
    /\ nCommands' = nCommands + 1
    /\ \E cmd \in Commands :
         /\ ctl' = [ctl EXCEPT ![k] = [pc |-> "handle", cmd |-> cmd]]
         /\ lastCommand' = IF cmd \in {"start", "stop"} THEN cmd ELSE lastCommand
    /\ UNCHANGED <<gear, gearMu, ctxDone, resumed, beside, macros, serving, runtime>>

ControlLoopEnds(k) ==
    /\ ctl[k].pc = "select"
    /\ ctl[k].stop \in closed \/ k \in ctxDone
    /\ ctl' = [ctl EXCEPT ![k] = [pc |-> "ended"]]
    /\ UNCHANGED <<gear, gearMu, ctxDone, nCommands, lastCommand, resumed, beside, macros,
                   serving, runtime>>

\* sim.start, sim.stop and sim.rate, under g.mu.
HandleSwitch(k) ==
    /\ ctl[k].pc = "handle" /\ ctl[k].cmd # "reset"
    /\ gearMu = 0
    /\ IF ctl[k].cmd = "rate" THEN UNCHANGED paused
       ELSE paused' = (ctl[k].cmd = "stop")
    /\ resumed' = (resumed \/ ctl[k].cmd = "start")
    /\ ctl' = [ctl EXCEPT ![k] = [pc |-> "turn"]]
    /\ UNCHANGED <<cfg, emit, stopCh, ctrlCh, closed, gearMu, ctxDone, nCommands, lastCommand,
                   beside, macros, serving, runtime>>

\* sim.reset: the gear's mutex first ...
HandleReset(k) ==
    /\ ctl[k].pc = "handle" /\ ctl[k].cmd = "reset"
    /\ gearMu = 0
    /\ gearMu' = k
    /\ ctl' = [ctl EXCEPT ![k] = [pc |-> "resetting"]]
    /\ UNCHANGED <<gear, ctxDone, nCommands, lastCommand, resumed, beside, macros, serving,
                   runtime>>

\* A request that has macros left to expand.
Drawing(w) == wire[w].at # "idle" /\ wire[w].todo # <<>>

\* The counters go back to their beginning, with a seed the generator too.
StartOver ==
    /\ counters' = [name \in Counters |-> 0]
    /\ drawn' = IF cfg.seed # 0 THEN 0 ELSE drawn
    /\ issued' = [name \in Counters |-> <<>>]
    /\ taken' = <<>> /\ serial' = (\A w \in Wires : ~Drawing(w))

\* Variant for a mutant: the generator goes on.
ResetCountersOnly(k) ==
    /\ ctl[k].pc = "resetting" /\ respMu = {}
    /\ counters' = [name \in Counters |-> 0] /\ drawn' = drawn
    /\ issued' = [name \in Counters |-> <<>>]
    /\ taken' = <<>> /\ serial' = (\A w \in Wires : ~Drawing(w))
    /\ gearMu' = 0
    /\ ctl' = [ctl EXCEPT ![k] = [pc |-> "turn"]]
    /\ UNCHANGED <<gear, ctxDone, nCommands, lastCommand, resumed, beside, respMu, wire,
                   nRequests, answered, runtime>>

\* Variant for a mutant: a reset also puts the pause back to what Init set.
ResetCountersAndPause(k) ==
    /\ ctl[k].pc = "resetting" /\ respMu = {}
    /\ StartOver
    /\ paused' = PausedAtFirst(cfg)
    /\ gearMu' = 0
    /\ ctl' = [ctl EXCEPT ![k] = [pc |-> "turn"]]
    /\ UNCHANGED <<cfg, emit, stopCh, ctrlCh, closed, ctxDone, nCommands, lastCommand,
                   resumed, beside, respMu, wire, nRequests, answered, runtime>>

\* ... then ResetCounters under the responder's.
ResetCounters(k) ==
    /\ ctl[k].pc = "resetting" /\ respMu = {}
    /\ StartOver
    /\ gearMu' = 0
    /\ ctl' = [ctl EXCEPT ![k] = [pc |-> "turn"]]
    /\ UNCHANGED <<gear, ctxDone, nCommands, lastCommand, resumed, beside, respMu, wire,
                   nRequests, answered, runtime>>

-----------------------------------------------------------------------------
(* Wire w: ProcessPort, and ProcessRequest inside it *)

\* The response a request is paired with, and the checks that there is one.
Answerable(req) ==
    /\ req.mti \in DOMAIN Catalog
    /\ Catalog[req.mti].pairsWith \in DOMAIN Catalog

ResponseTo(req) == Catalog[req.mti].pairsWith

\* echoValidFields, from a request to a response only.
Echo(req) ==
    LET echoed == IF Catalog[req.mti].flow = "request" /\ Catalog[ResponseTo(req)].flow = "response"
                  THEN {f \in DOMAIN EchoedIn : ResponseTo(req) \in EchoedIn[f]} ELSE {}
    IN [f \in echoed \intersect DOMAIN req.fields |-> <<"echo", req.fields[f]>>]

InOrder(entries) == CHOOSE s \in Orders(entries) : TRUE

\* evalWhen: a text that does not parse holds of nothing.
EvalWhen(when, req) == when \in DOMAIN Holds /\ req \in Holds[when]

\* The rules that hold of the request.
Matching(req) == {i \in DOMAIN cfg.rules : EvalWhen(cfg.rules[i].when, req)}

\* Variant for a mutant: the loop over the rules goes on after a match.
EveryMatching(req) == Matching(req)

\* The first of them, alone, if there is one.
First(req) == {i \in Matching(req) : \A j \in Matching(req) : i <= j}

\* What to expand: the defaults, then the set of the first rule that matches.
Todo(req) == InOrder(cfg.default) \o InOrder(UNION {cfg.rules[i].set : i \in First(req)})

\* ParseDelay
ParseDelay(text) == IF text = "" THEN 0 ELSE Durations[text]

\* The delay of the first rule that matches, if it has one, replaces the base delay.
Delayed(req) ==
    LET own == {cfg.rules[i].delay : i \in First(req)} \ {""}
    IN \E delay \in IF own = {} THEN {cfg.delay} ELSE own : ParseDelay(delay) > 0

\* What is paused and where to emit are read under g.mu at once, and not again. A
\* request that is paused, or that the catalog cannot answer, ends here.
ProcessPort(w) ==
    /\ wire[w].at = "idle" /\ gearMu = 0
    /\ nRequests < MaxRequests /\ CallsLeft
    /\ nRequests' = nRequests + 1
    /\ \E req \in Requests :
         IF paused \/ ~Answerable(req) THEN UNCHANGED <<wire, taken, serial>>
         ELSE /\ wire' = [wire EXCEPT ![w] = [at |-> "expand", req |-> req, emit |-> emit,
                                              todo |-> Todo(req), fields |-> Echo(req)]]
              /\ taken' = Append(taken, [wire |-> w, req |-> req])
              /\ serial' = (serial /\ \A v \in Wires : ~Drawing(v))
    /\ UNCHANGED <<gear, gearMu, control, macros, respMu, answered, runtime>>

\* The next entry: a template, under the key of a field.
Now(w) == Head(wire[w].todo)

\* respFields[f] = value
SetField(fields, f, value) ==
    [x \in DOMAIN fields \union {f} |-> IF x = f THEN value ELSE fields[x]]

Put(w, value) ==
    wire' = [wire EXCEPT ![w] = [at |-> "expand", req |-> @.req, emit |-> @.emit,
                                 todo |-> Tail(@.todo),
                                 fields |-> SetField(@.fields, FieldOf(Now(w).key), value)]]

\* A template that is no macro is its own value, and takes no mutex.
PutLiteral(w) ==
    /\ wire[w].at = "expand" /\ wire[w].todo # <<>>
    /\ Literal(Now(w).template)
    /\ Put(w, <<"", Now(w).template.value>>)
    /\ UNCHANGED <<gear, gearMu, control, macros, respMu, nRequests, taken, serial, answered,
                   runtime>>

\* Variant for a mutant: expandMacro without the mutex.
EnterMacroUnlocked(w) ==
    /\ wire[w].at = "expand" /\ wire[w].todo # <<>>
    /\ ~Literal(Now(w).template)
    /\ respMu' = respMu \union {w}
    /\ wire' = [wire EXCEPT ![w] = [at |-> "locked", req |-> @.req, emit |-> @.emit,
                                    todo |-> @.todo, fields |-> @.fields, seen |-> counters]]
    /\ UNCHANGED <<gear, gearMu, control, macros, nRequests, taken, serial, answered, runtime>>

\* expandMacro: the mutex, and what the macro reads first ...
EnterMacro(w) ==
    /\ wire[w].at = "expand" /\ wire[w].todo # <<>>
    /\ ~Literal(Now(w).template)
    /\ respMu = {}
    /\ respMu' = {w}
    /\ wire' = [wire EXCEPT ![w] = [at |-> "locked", req |-> @.req, emit |-> @.emit,
                                    todo |-> @.todo, fields |-> @.fields, seen |-> counters]]
    /\ UNCHANGED <<gear, gearMu, control, macros, nRequests, taken, serial, answered, runtime>>

\* Variant for a mutant: a counter of no width.
CounterAfterUnwrapped(t, n) == IF t.macro = "SEQ" THEN n + 1 ELSE n

\* $SEQ prints the counter and moves it after, and begins where it says while the
\* counter is zero; $RRN and $STAN move it first. Counters wrap.
NumberOf(t, count) ==
    IF t.macro # "SEQ" THEN (count + 1) % WordSize ELSE IF count = 0 THEN t.start ELSE count
CounterAfter(t, n) == IF t.macro = "SEQ" THEN (n + 1) % WordSize ELSE n
Digits(t, n)       == IF t.macro = "SEQ" THEN n ELSE n % Modulus

\* Responder.now
SeedInstant == SeedOffset(cfg.seed)
Instants    == IF cfg.deterministicClock THEN {SeedInstant} ELSE WallClock

\* $RRN is the day and the digits.
Printed(t, n, instant) ==
    IF t.macro = "RRN" THEN <<instant \div DayLength, Digits(t, n)>> ELSE Digits(t, n)

\* The STAN a request carries, in its field or under the alias.
STANsOf(req) ==
    IF STANField \in DOMAIN req.fields THEN {req.fields[STANField]}
    ELSE IF "stan" \in DOMAIN req.aliases THEN {req.aliases["stan"]} ELSE {}

\* What each macro draws: the six characters of $AUTH, a number, a value of an enum.
DrawsOf(t) ==
    CASE t.macro = "AUTH" -> 6
      [] t.macro \in {"RAND", "ENUM"} -> 1
      [] OTHER -> 0

\* What a macro that does not count may print. $UUID does not come from the seed.
Rendered(t) ==
    CASE t.macro = "NOW"  -> Instants
      [] t.macro = "UUID" -> UUIDs
      [] OTHER -> {drawn}

\* What a macro does to a request: nothing counts or is drawn where the request has a
\* STAN; $NOW and $UUID do neither.
Kept(t, req)   == t.macro = "STAN" /\ STANsOf(req) # {}
Counts(t, req) == t.macro \in Counting /\ ~Kept(t, req)

\* ... then what it prints and writes, and the mutex is free.
ExpandMacro(w) ==
    /\ wire[w].at = "locked"
    /\ respMu' = respMu \ {w}
    /\ LET t   == Now(w).template
           req == wire[w].req
           n   == NumberOf(t, wire[w].seen[CounterOf(t)])
       IN \/ /\ Kept(t, req)
             /\ \E stan \in STANsOf(req) : Put(w, <<"STAN", stan>>)
             /\ UNCHANGED macros
          \/ /\ Counts(t, req)
             /\ counters' = [counters EXCEPT ![CounterOf(t)] = CounterAfter(t, n)]
             /\ issued' = [issued EXCEPT ![CounterOf(t)] = Append(@, Digits(t, n))]
             /\ \E instant \in Instants : Put(w, <<t.macro, Printed(t, n, instant)>>)
             /\ UNCHANGED drawn
          \/ /\ ~Kept(t, req) /\ ~Counts(t, req)
             /\ drawn' = drawn + DrawsOf(t)
             /\ \E value \in Rendered(t) : Put(w, <<t.macro, value>>)
             /\ UNCHANGED <<counters, issued>>
    /\ UNCHANGED <<gear, gearMu, control, nRequests, taken, serial, answered, runtime>>

\* The response leaves, if the gear was started when the request came in.
Respond(w) ==
    /\ wire[w].at = "expand" /\ wire[w].todo = <<>>
    /\ answered' = (answered \/ wire[w].emit)
    /\ wire' = [wire EXCEPT ![w] = Idle]
    /\ UNCHANGED <<gear, gearMu, control, macros, respMu, nRequests, taken, serial, runtime>>

\* Its context is done during the delay: the request has drawn and is not answered.
GiveUp(w) ==
    /\ wire[w].at = "expand" /\ wire[w].todo = <<>>
    /\ Delayed(wire[w].req)
    /\ wire' = [wire EXCEPT ![w] = Idle]
    /\ UNCHANGED <<gear, gearMu, control, macros, respMu, nRequests, taken, serial, answered,
                   runtime>>

-----------------------------------------------------------------------------
RuntimeStep ==
    \/ Start \/ Subscribed \/ NotSubscribed \/ SpawnControlLoop
    \/ Drain \/ Stop
    \/ \E s \in StartIds : CancelContext(s)

ControlStep(k) ==
    \/ Turn(k) \/ Receive(k) \/ ControlLoopEnds(k)
    \/ HandleSwitch(k) \/ HandleReset(k) \/ ResetCounters(k)

WireStep(w) ==
    \/ ProcessPort(w)
    \/ PutLiteral(w) \/ EnterMacro(w) \/ ExpandMacro(w)
    \/ Respond(w) \/ GiveUp(w)

Next ==
    \/ RuntimeStep
    \/ \E k \in StartIds : ControlStep(k)
    \/ \E w \in Wires : WireStep(w)

Spec == Init /\ [][Next]_vars

-----------------------------------------------------------------------------
(* Properties *)

TypeOK ==
    /\ cfg.trigger \in {"on_load", "on_control"} /\ cfg.seed \in Int
    /\ paused \in BOOLEAN /\ emit \in BOOLEAN
    /\ nStarts \in 0..MaxStarts
    /\ stopCh = nStarts /\ ctrlCh \in 0..nStarts /\ closed \subseteq 1..nStarts
    /\ gearMu \in 0..MaxStarts
    /\ ctl \in [StartIds -> [pc : {"unborn", "turn", "resetting", "ended"}]
                              \union [pc : {"select"}, stop : 0..MaxStarts]
                              \union [pc : {"handle"}, cmd : Commands]]
    /\ ctxDone \subseteq 1..nStarts
    /\ counters \in [Counters -> 0..(WordSize - 1)] /\ drawn \in Nat
    /\ respMu \subseteq Wires /\ Cardinality(respMu) <= 1
    /\ \A w \in Wires : wire[w].at \in {"idle", "expand", "locked"}
    /\ rt \in {"idle", "subscribing", "spawning"} /\ phase \in Phases
    /\ nRequests \in 0..MaxRequests /\ nCommands \in 0..MaxCommands
    /\ serial \in BOOLEAN /\ answered \in BOOLEAN /\ resumed \in BOOLEAN /\ beside \in BOOLEAN
    /\ lastCommand \in {"none", "start", "stop"}

\* A gear that waits for sim.start answers nothing before it, and moves no counter:
\* neither for a request that came before Start nor for one during it.
SilentUntilStarted ==
    cfg.trigger = "on_control" /\ ~resumed =>
        ~answered /\ drawn = 0 /\ \A name \in Counters : counters[name] = 0

\* No other template counts under the name of t.
Alone(t) ==
    \A u \in TemplatesOf(cfg) :
        {t.macro, u.macro} \subseteq Counting /\ CounterOf(u) = CounterOf(t) => u = t

\* The i-th number of a sequence: $SEQ begins at its start again after the last of its
\* word, and the others at zero.
Numbered(t, i) ==
    IF t.macro = "SEQ" THEN t.start + ((i - 1) % (WordSize - t.start)) ELSE i % WordSize

\* Each sequence runs on from its first number by one to the end of its word, and
\* round, without a gap or a repeat, from every reset to the next, whichever wires draw
\* from it and however the reset falls among them. A sequence two templates share is
\* left out.
SequencesRunOn ==
    \A t \in TemplatesOf(cfg) :
        t.macro \in Counting /\ Alone(t) =>
            \A i \in DOMAIN issued[CounterOf(t)] :
                issued[CounterOf(t)][i] = Digits(t, Numbered(t, i))

\* The gear is paused if sim.stop is the last command it took of the two, or none came
\* and it waits for one, through resets and through Stop and another Start: no command
\* overtakes another. Where a control loop that was in a handler during Stop and Start
\* goes on beside the new one, two commands may be handled at once.
LastCommandWins ==
    ~beside /\ (\A k \in StartIds : ctl[k].pc # "handle") =>
        (paused <=> IF lastCommand = "none" THEN cfg.trigger = "on_control"
                    ELSE lastCommand = "stop")

Done(w) == wire[w].at = "expand" /\ wire[w].todo = <<>>

\* The templates that a request expands, and those that requests expand one after another.
ExpandedBy(req) ==
    LET todo == Todo(req)
    IN [j \in DOMAIN todo |-> [template |-> todo[j].template, req |-> req]]

Expansions(requests) == FlattenSeq([i \in DOMAIN requests |-> ExpandedBy(requests[i].req)])

\* The moves of a counter, and the draws, that the first k of them make.
Moves(all, k, name) ==
    {i \in 1..k : Counts(all[i].template, all[i].req) /\ CounterOf(all[i].template) = name}
Draws(all, k) == UNION {{i} \X (1..DrawsOf(all[i].template)) : i \in 1..k}

\* What the k-th of them gives, by what came before it: as many numbers on as its
\* counter was moved, as many draws on as were made, at the one instant of the seed.
Expected(all, k) ==
    LET t     == all[k].template
        moved == Cardinality(Moves(all, k - 1, CounterOf(t)))
        drew  == Cardinality(Draws(all, k - 1))
    IN IF Literal(t) THEN <<"", t.value>>
       ELSE IF Kept(t, all[k].req) THEN <<"STAN", CHOOSE stan \in STANsOf(all[k].req) : TRUE>>
       ELSE IF Counts(t, all[k].req)
       THEN <<t.macro, Printed(t, Numbered(t, moved + 1), SeedInstant)>>
       ELSE <<t.macro, IF t.macro = "NOW" THEN SeedInstant ELSE drew>>

\* What the seed decides: no UUID, and without a deterministic clock no instant.
Replays(t) == t.macro # "UUID" /\ (t.macro \in {"NOW", "RRN"} => cfg.deterministicClock)

\* A seeded gear replays its replies: after a reset, as from the beginning, what a reply
\* has is a function of the requests that came since, so the same requests get the
\* same replies. With a deterministic clock this is all but a $UUID, without one $RRN
\* and $NOW are excepted too. It is said of requests that come one after another,
\* whatever the wire, with none of them half expanded at the reset; paused ones do not
\* count, those that give up in their delay do. A sequence two templates share is left out.
SameRequestsSameReplies ==
    cfg.seed # 0 /\ serial /\ taken # <<>> =>
        LET w    == Last(taken).wire
            all  == Expansions(taken)
            last == Len(all) - Len(Todo(Last(taken).req))
            todo == Todo(Last(taken).req)
        IN Done(w) => \A i \in DOMAIN todo :
               /\ Alone(todo[i].template) /\ Replays(todo[i].template)
               /\ \A j \in (i + 1)..Len(todo) : FieldOf(todo[j].key) # FieldOf(todo[i].key)
               =>
                   wire[w].fields[FieldOf(todo[i].key)] = Expected(all, last + i)
=============================================================================
