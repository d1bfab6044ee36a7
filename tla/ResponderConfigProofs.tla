------------------------ MODULE ResponderConfigProofs -----------------------
(***************************************************************************)
(* Proofs about sim_responder with the configuration it is given, for any  *)
(* catalog, rules and requests, and any number of wires, of Starts and of  *)
(* calls.                                                                  *)
(***************************************************************************)
EXTENDS ResponderConfig, TLAPS, FiniteSetTheorems, SequenceTheorems

-----------------------------------------------------------------------------
(* The invariant *)

EntriesOf(c) == c.default \union UNION {c.rules[i].set : i \in DOMAIN c.rules}

\* What a request that is served still has to expand comes from the configuration.
WiresServe ==
    /\ wire = [w \in Wires |-> wire[w]]
    /\ \A w \in Wires :
         \/ wire[w] = Idle
         \/ wire[w].at \in {"expand", "locked"} /\ wire[w].todo \in Seq(EntriesOf(cfg))

\* One wire is inside a macro at a time, and the counters it read are the counters.
OneInMacro ==
    /\ respMu \subseteq Wires /\ \A v, w \in respMu : v = w
    /\ \A w \in Wires : wire[w].at = "locked" =>
         /\ w \in respMu
         /\ wire[w].todo # <<>> /\ ~Literal(Now(w).template)
         /\ wire[w].seen = counters

\* Nothing has happened to a gear that waits for its first sim.start.
StillSilent ==
    cfg.trigger = "on_control" /\ ~resumed =>
        /\ paused /\ \A w \in Wires : wire[w] = Idle
        /\ ~answered /\ drawn = 0 /\ \A name \in Counters : counters[name] = 0

\* A Start spawns its control loop once.
NotSpawned ==
    \A k \in StartIds : k > nStarts \/ (k = nStarts /\ rt # "idle") => ctl[k].pc = "unborn"

Switching(k) == ctl[k].pc = "handle" /\ ctl[k].cmd \in {"start", "stop"}

PauseFollows ==
    paused <=> IF lastCommand = "none" THEN cfg.trigger = "on_control" ELSE lastCommand = "stop"

\* The one control loop has the last command in its hands, or has carried it out.
CommandInHand ==
    ~beside =>
        /\ \A j, k \in Alive : j = k
        /\ \A k \in StartIds : Switching(k) => ctl[k].cmd = lastCommand
        /\ (\A k \in StartIds : ~Switching(k)) => PauseFollows

\* The counter when k numbers have been printed.
CountAfter(t, k) == IF k = 0 THEN 0 ELSE CounterAfter(t, Numbered(t, k))

\* A sequence that has not begun counts zero, one that has counts what it printed.
CounterFollows(t) ==
    LET numbers == issued[CounterOf(t)]
    IN /\ counters[CounterOf(t)] = CountAfter(t, Len(numbers))
       /\ \A i \in 1..Len(numbers) : numbers[i] = Digits(t, Numbered(t, i))

CountersFollow ==
    /\ issued \in [Counters -> Seq(Int)]
    /\ \A t \in TemplatesOf(cfg) : t.macro \in Counting /\ Alone(t) => CounterFollows(t)

Inv ==
    /\ cfg \in Configs
    /\ TypeOK /\ WiresServe /\ OneInMacro
    /\ StillSilent /\ NotSpawned /\ CommandInHand /\ CountersFollow

-----------------------------------------------------------------------------
(* The configuration *)

\* The templates of a configuration are templates, with the counters they name.
LEMMA TemplateFacts ==
    ASSUME cfg \in Configs, NEW t \in TemplatesOf(cfg)
    PROVE  /\ t \in Templates
           /\ t.macro \in Counting => CounterOf(t) \in Counters
           /\ t.macro = "SEQ" => t.start \in 0..(WordSize - 1)
  BY TemplatesAssumption DEF Templates, Counters

LEMMA EntryTemplate ==
    ASSUME NEW e \in EntriesOf(cfg)
    PROVE  e.template \in TemplatesOf(cfg)
  BY DEF EntriesOf, TemplatesOf

LEMMA FunctionIsSeq ==
    ASSUME NEW n \in Nat, NEW S, NEW s \in [1..n -> S]
    PROVE  s \in Seq(S)
  OBVIOUS

\* Entries that can be put in the order of their keys are.
LEMMA InOrderIsSeq ==
    ASSUME NEW entries, IsFiniteSet(entries), Orders(entries) # {}
    PROVE  InOrder(entries) \in Seq(entries)
  <1> DEFINE usable == {e \in entries : FieldOf(e.key) > 0}
  <1>1. InOrder(entries) \in Orders(entries)
    BY DEF InOrder
  <1>2. InOrder(entries) \in [1..Cardinality(usable) -> usable]
    BY <1>1 DEF Orders
  <1>3. Cardinality(usable) \in Nat
    BY FS_Subset, FS_CardinalityType
  <1>4. InOrder(entries) \in Seq(usable)
    BY <1>2, <1>3, FunctionIsSeq
  <1> QED
    BY <1>4, SeqMonotonic

LEMMA NothingInOrder == InOrder({}) = <<>>
  <1>1. {e \in {} : FieldOf(e.key) > 0} = {}
    OBVIOUS
  <1>2. Orders({}) \subseteq [1..0 -> {}]
    BY <1>1, FS_EmptySet DEF Orders
  <1>3. <<>> \in Orders({})
    BY <1>1, FS_EmptySet DEF Orders
  <1>4. InOrder({}) \in [1..0 -> {}]
    BY <1>2, <1>3 DEF InOrder
  <1> QED
    BY <1>4

\* At most one rule is the first that holds of a request.
LEMMA OneFirst ==
    ASSUME cfg \in Configs, NEW req
    PROVE  \/ First(req) = {}
           \/ \E i \in DOMAIN cfg.rules : First(req) = {i}
  <1>1. \A i, j \in First(req) : i \in DOMAIN cfg.rules /\ i \in Nat /\ j \in Nat /\ i <= j
    BY ConfigsAssumption DEF First, Matching
  <1>2. \A i, j \in First(req) : i = j
    BY <1>1
  <1> QED
    BY <1>1, <1>2

\* A request expands entries of the configuration.
LEMMA TodoIsSeq ==
    ASSUME cfg \in Configs, NEW req
    PROVE  Todo(req) \in Seq(EntriesOf(cfg))
  <1> DEFINE set == UNION {cfg.rules[i].set : i \in First(req)}
  <1>1. InOrder(cfg.default) \in Seq(EntriesOf(cfg))
    <2>1. InOrder(cfg.default) \in Seq(cfg.default)
      BY ConfigsAssumption, InOrderIsSeq
    <2> QED
      BY <2>1, SeqMonotonic DEF EntriesOf
  <1>2. InOrder(set) \in Seq(EntriesOf(cfg))
    <2>1. CASE First(req) = {}
      <3>1. set = {}
        BY <2>1
      <3> QED
        BY <3>1, NothingInOrder, EmptySeq
    <2>2. ASSUME NEW i \in DOMAIN cfg.rules, First(req) = {i}
          PROVE  InOrder(set) \in Seq(EntriesOf(cfg))
      <3>1. set = cfg.rules[i].set
        BY <2>2
      <3>2. InOrder(cfg.rules[i].set) \in Seq(cfg.rules[i].set)
        BY ConfigsAssumption, InOrderIsSeq
      <3>3. cfg.rules[i].set \subseteq EntriesOf(cfg)
        BY DEF EntriesOf
      <3> QED
        BY <3>1, <3>2, <3>3, SeqMonotonic
    <2> QED
      BY <2>1, <2>2, OneFirst
  <1> QED
    BY <1>1, <1>2, ConcatProperties DEF Todo

-----------------------------------------------------------------------------
(* Type correctness *)

LEMMA RuntimeTypes == TypeOK /\ RuntimeStep => TypeOK'
  <1> SUFFICES ASSUME TypeOK, RuntimeStep PROVE TypeOK'
    OBVIOUS
  <1> USE BoundsAssumption DEF TypeOK, gear, control, macros, serving, runtime
  <1>1. CASE Start
    BY <1>1 DEF Start, Phases
  <1>2. CASE Subscribed
    BY <1>2 DEF Subscribed
  <1>3. CASE NotSubscribed
    BY <1>3 DEF NotSubscribed
  <1>4. CASE SpawnControlLoop
    <2>1. [pc |-> IF ctrlCh = 0 THEN "ended" ELSE "turn"]
            \in [pc : {"unborn", "turn", "resetting", "ended"}]
      OBVIOUS
    <2> QED
      BY <1>4, <2>1 DEF SpawnControlLoop
  <1>5. CASE ShutDown
    BY <1>5 DEF ShutDown, CloseStopLocked, Phases
  <1>6. CASE \E s \in StartIds : CancelContext(s)
    BY <1>6 DEF CancelContext
  <1> QED
    BY <1>1, <1>2, <1>3, <1>4, <1>5, <1>6 DEF RuntimeStep, Drain, Stop

LEMMA ControlTypes ==
    ASSUME TypeOK, NEW k \in StartIds, ControlStep(k)
    PROVE  TypeOK'
  <1> USE BoundsAssumption DEF TypeOK, gear, control, macros, serving, runtime
  <1>1. CASE Turn(k)
    <2>1. [pc |-> "select", stop |-> stopCh] \in [pc : {"select"}, stop : 0..MaxStarts]
      OBVIOUS
    <2> QED
      BY <1>1, <2>1 DEF Turn
  <1>2. CASE Receive(k)
    BY <1>2 DEF Receive
  <1>3. CASE ControlLoopEnds(k)
    BY <1>3 DEF ControlLoopEnds
  <1>4. CASE HandleSwitch(k)
    BY <1>4, ZenonT(30) DEF HandleSwitch
  <1>5. CASE HandleReset(k)
    BY <1>5 DEF HandleReset, StartIds
  <1>6. CASE ResetCounters(k)
    BY <1>6, WrapAssumption DEF ResetCounters, StartOver
  <1> QED
    BY <1>1, <1>2, <1>3, <1>4, <1>5, <1>6 DEF ControlStep

\* A mutex has one holder or none.
LEMMA MutexTypes ==
    /\ \A w : Cardinality({w}) = 1
    /\ Cardinality({}) = 0
  BY FS_Singleton, FS_EmptySet

\* The macro a wire is about to expand, and what it reads.
LEMMA MacroFacts ==
    ASSUME cfg \in Configs, TypeOK, WiresServe, OneInMacro,
           NEW w \in Wires, wire[w].at # "idle", wire[w].todo # <<>>
    PROVE  /\ Now(w).template \in TemplatesOf(cfg)
           /\ Tail(wire[w].todo) \in Seq(EntriesOf(cfg))
  <1>1. wire[w].todo \in Seq(EntriesOf(cfg))
    BY DEF WiresServe, Idle
  <1>2. Head(wire[w].todo) \in EntriesOf(cfg) /\ Tail(wire[w].todo) \in Seq(EntriesOf(cfg))
    BY <1>1, HeadTailProperties
  <1> QED
    BY <1>2, EntryTemplate DEF Now

\* What it counts is a number, and so is what it prints.
LEMMA NumberFacts ==
    ASSUME cfg \in Configs, TypeOK, NEW t \in TemplatesOf(cfg), t.macro \in Counting
    PROVE  /\ CounterOf(t) \in Counters /\ counters[CounterOf(t)] \in 0..(WordSize - 1)
           /\ NumberOf(t, counters[CounterOf(t)]) \in 0..(WordSize - 1)
           /\ Digits(t, NumberOf(t, counters[CounterOf(t)])) \in Int
           /\ CounterAfter(t, NumberOf(t, counters[CounterOf(t)])) \in 0..(WordSize - 1)
  <1>1. CounterOf(t) \in Counters /\ counters[CounterOf(t)] \in 0..(WordSize - 1)
    BY TemplateFacts DEF TypeOK
  <1>2. NumberOf(t, counters[CounterOf(t)]) \in 0..(WordSize - 1)
    <2>1. \A n \in 0..(WordSize - 1) : (n + 1) % WordSize \in 0..(WordSize - 1)
      BY WrapAssumption
    <2> QED
      BY <1>1, <2>1, TemplateFacts DEF NumberOf
  <1> HIDE DEF CounterOf, NumberOf
  <1> QED
    BY <1>1, <1>2, WrapAssumption DEF Digits, CounterAfter

\* The macros keep their types when one of them is expanded.
LEMMA MacroTypes ==
    ASSUME cfg \in Configs, TypeOK, WiresServe, OneInMacro, NEW w \in Wires, ExpandMacro(w)
    PROVE  counters' \in [Counters -> 0..(WordSize - 1)] /\ drawn' \in Nat
  <1> DEFINE t == Now(w).template
             c == CounterOf(t)
             n == NumberOf(t, counters[c])
  <1>1. t \in TemplatesOf(cfg) /\ wire[w].seen = counters
    BY MacroFacts DEF ExpandMacro, OneInMacro
  <1>2. CASE Kept(t, wire[w].req) \/ ~Counts(t, wire[w].req)
    <2>1. DrawsOf(t) \in Nat
      BY DEF DrawsOf
    <2> HIDE DEF t
    <2> QED
      BY <1>2, <2>1 DEF ExpandMacro, macros, TypeOK, Kept, Counts, t
  <1>3. CASE Counts(t, wire[w].req)
    <2>1. CounterAfter(t, n) \in 0..(WordSize - 1)
      BY <1>1, <1>3, NumberFacts DEF Counts
    <2>2. ~Kept(t, wire[w].req)
      BY <1>3 DEF Counts
    <2>3. /\ counters' = [counters EXCEPT ![c] = CounterAfter(t, n)]
          /\ drawn' = drawn
      BY <1>1, <1>3, <2>2 DEF ExpandMacro
    <2>4. counters \in [Counters -> 0..(WordSize - 1)] /\ drawn \in Nat
      BY DEF TypeOK
    <2> DEFINE next == CounterAfter(t, n)
    <2>5. next \in 0..(WordSize - 1) /\ counters' = [counters EXCEPT ![c] = next]
      BY <2>1, <2>3
    <2> HIDE DEF next, c
    <2> QED
      BY <2>3, <2>4, <2>5
  <1> QED
    BY <1>2, <1>3

\* A step of a wire leaves the others as they are.
LEMMA WireUpdate ==
    ASSUME WiresServe, NEW w \in Wires, NEW x, wire' = [wire EXCEPT ![w] = x]
    PROVE  /\ wire' = [v \in Wires |-> wire'[v]]
           /\ wire'[w] = x /\ \A v \in Wires \ {w} : wire'[v] = wire[v]
  <1> DEFINE f == [v \in Wires |-> wire[v]]
  <1>1. wire' = [f EXCEPT ![w] = x]
    BY DEF WiresServe
  <1> QED
    BY <1>1

\* The next of the others' steps, and what is left to expand of its own.
LEMMA WireStepUpdates ==
    ASSUME cfg \in Configs, TypeOK, WiresServe, OneInMacro, NEW w \in Wires, WireStep(w)
    PROVE  /\ wire' = [v \in Wires |-> wire'[v]]
           /\ \A v \in Wires \ {w} : wire'[v] = wire[v]
           /\ \/ wire'[w] = Idle
              \/ /\ wire'[w].at \in {"expand", "locked"}
                 /\ wire'[w].todo \in Seq(EntriesOf(cfg))
  <1>1. CASE ProcessPort(w)
    <2>1. CASE UNCHANGED wire
      BY <2>1 DEF WiresServe
    <2>2. CASE ~UNCHANGED wire
      <3>1. PICK req \in Requests :
              wire' = [wire EXCEPT ![w] = [at |-> "expand", req |-> req, emit |-> emit,
                                           todo |-> Todo(req), fields |-> Echo(req)]]
        BY <1>1, <2>2 DEF ProcessPort
      <3> QED
        BY <3>1, WireUpdate, TodoIsSeq
    <2> QED
      BY <2>1, <2>2
  <1>2. CASE PutLiteral(w) \/ ExpandMacro(w)
    <2>1. wire[w].at # "idle" /\ wire[w].todo # <<>>
      BY <1>2 DEF PutLiteral, ExpandMacro, OneInMacro
    <2>2. PICK value : Put(w, value)
      BY <1>2 DEF PutLiteral, ExpandMacro
    <2>3. Tail(wire[w].todo) \in Seq(EntriesOf(cfg))
      BY <2>1, MacroFacts
    <2> QED
      BY <2>2, <2>3, WireUpdate DEF Put
  <1>3. CASE EnterMacro(w)
    <2>1. wire[w].todo \in Seq(EntriesOf(cfg))
      BY <1>3 DEF EnterMacro, WiresServe, Idle
    <2> QED
      BY <1>3, <2>1, WireUpdate DEF EnterMacro
  <1>4. CASE Respond(w) \/ GiveUp(w)
    BY <1>4, WireUpdate DEF Respond, GiveUp
  <1> QED
    BY <1>1, <1>2, <1>3, <1>4 DEF WireStep

LEMMA WireTypes ==
    ASSUME cfg \in Configs, TypeOK, WiresServe, OneInMacro, NEW w \in Wires, WireStep(w)
    PROVE  TypeOK'
  <1> USE DEF gear, control, macros, serving, runtime
  <1> DEFINE Places == \A v \in Wires : wire[v].at \in {"idle", "expand", "locked"}
  <1>1. Places'
    BY WireStepUpdates DEF TypeOK, Idle
  <1> HIDE DEF Places
  <1>2. CASE ProcessPort(w)
    <2>1. serial' \in BOOLEAN /\ nRequests' \in 0..MaxRequests
      BY <1>2, BoundsAssumption DEF ProcessPort, TypeOK
    <2> QED
      BY <1>1, <1>2, <2>1 DEF ProcessPort, TypeOK, Places
  <1>3. CASE PutLiteral(w)
    BY <1>1, <1>3, ZenonT(30) DEF PutLiteral, TypeOK, Places
  <1>4. CASE EnterMacro(w)
    <2>1. respMu' \subseteq Wires /\ Cardinality(respMu') = 1
      BY <1>4, MutexTypes DEF EnterMacro
    <2> QED
      BY <1>1, <1>4, <2>1 DEF EnterMacro, TypeOK, Places
  <1>5. CASE ExpandMacro(w)
    <2>1. counters' \in [Counters -> 0..(WordSize - 1)] /\ drawn' \in Nat
      BY <1>5, MacroTypes
    <2>2. respMu' \subseteq Wires /\ Cardinality(respMu') = 0
      <3>1. respMu' = {}
        BY <1>5 DEF ExpandMacro, OneInMacro
      <3> QED
        BY <3>1, MutexTypes
    <2>3. UNCHANGED <<gear, gearMu, control, nRequests, serial, answered, runtime>>
      BY <1>5 DEF ExpandMacro
    <2> QED
      BY <1>1, <2>1, <2>2, <2>3 DEF TypeOK, Places
  <1>6. CASE Respond(w)
    <2>1. answered' \in BOOLEAN
      BY <1>6 DEF Respond
    <2> QED
      BY <1>1, <1>6, <2>1 DEF Respond, TypeOK, Places
  <1>7. CASE GiveUp(w)
    BY <1>1, <1>7 DEF GiveUp, TypeOK, Places
  <1> QED
    BY <1>2, <1>3, <1>4, <1>5, <1>6, <1>7 DEF WireStep

-----------------------------------------------------------------------------
(* What each part leaves alone *)

LEMMA RuntimeFrame ==
    RuntimeStep => UNCHANGED <<cfg, paused, macros, serving, lastCommand, resumed>>
  <1> USE DEF gear, control
  <1>1. Start \/ Subscribed \/ NotSubscribed
            => UNCHANGED <<cfg, paused, macros, serving, lastCommand, resumed>>
    BY DEF Start, Subscribed, NotSubscribed
  <1>2. SpawnControlLoop \/ ShutDown
            => UNCHANGED <<cfg, paused, macros, serving, lastCommand, resumed>>
    BY DEF SpawnControlLoop, ShutDown
  <1>3. (\E s \in StartIds : CancelContext(s))
            => UNCHANGED <<cfg, paused, macros, serving, lastCommand, resumed>>
    BY DEF CancelContext
  <1> QED
    BY <1>1, <1>2, <1>3 DEF RuntimeStep, Drain, Stop

LEMMA ControlFrame ==
    ASSUME NEW k \in StartIds, ControlStep(k)
    PROVE  UNCHANGED <<cfg, respMu, wire, answered>>
  <1> USE DEF gear, serving
  <1>1. Turn(k) \/ Receive(k) \/ ControlLoopEnds(k) => UNCHANGED <<cfg, respMu, wire, answered>>
    BY DEF Turn, Receive, ControlLoopEnds
  <1>2. HandleSwitch(k) \/ HandleReset(k) \/ ResetCounters(k)
            => UNCHANGED <<cfg, respMu, wire, answered>>
    BY DEF HandleSwitch, HandleReset, ResetCounters
  <1> QED
    BY <1>1, <1>2 DEF ControlStep

LEMMA WireFrame ==
    ASSUME NEW w \in Wires, WireStep(w)
    PROVE  UNCHANGED <<gear, control>>
  <1>1. ProcessPort(w) \/ PutLiteral(w) \/ EnterMacro(w) => UNCHANGED <<gear, control>>
    BY DEF ProcessPort, PutLiteral, EnterMacro
  <1>2. ExpandMacro(w) \/ Respond(w) \/ GiveUp(w) => UNCHANGED <<gear, control>>
    BY DEF ExpandMacro, Respond, GiveUp
  <1> QED
    BY <1>1, <1>2 DEF WireStep

LEMMA ConfigKept == Next => UNCHANGED cfg
  BY RuntimeFrame, ControlFrame, WireFrame DEF Next, gear

LEMMA ControlUpdate ==
    ASSUME TypeOK, NEW k \in StartIds, ControlStep(k)
    PROVE  \A j \in StartIds \ {k} : ctl'[j] = ctl[j]
  <1>1. \E x : ctl' = [ctl EXCEPT ![k] = x]
    <2>1. CASE Receive(k)
      BY <2>1 DEF Receive
    <2>2. CASE ~Receive(k)
      BY <2>2 DEF ControlStep, Turn, ControlLoopEnds, HandleSwitch, HandleReset, ResetCounters
    <2> QED
      BY <2>1, <2>2
  <1> QED
    BY <1>1 DEF TypeOK

\* Only a macro and a reset move the counters.
LEMMA ControlCounters ==
    ASSUME NEW k \in StartIds, ControlStep(k)
    PROVE  UNCHANGED macros \/ ResetCounters(k)
  BY DEF ControlStep, Turn, Receive, ControlLoopEnds, HandleSwitch, HandleReset

-----------------------------------------------------------------------------
(* The wires *)

LEMMA WiresServeKept ==
    ASSUME cfg \in Configs, TypeOK, WiresServe, OneInMacro, Next
    PROVE  WiresServe'
  <1>1. CASE RuntimeStep \/ \E k \in StartIds : ControlStep(k)
    BY <1>1, ConfigKept, RuntimeFrame, ControlFrame DEF WiresServe, serving
  <1>2. ASSUME NEW w \in Wires, WireStep(w) PROVE WiresServe'
    BY <1>2, ConfigKept, WireStepUpdates DEF WiresServe
  <1> QED
    BY <1>1, <1>2 DEF Next

\* The counters change under the mutex only.
LEMMA OneInMacroKept ==
    ASSUME cfg \in Configs, TypeOK, WiresServe, OneInMacro, Next
    PROVE  OneInMacro'
  <1>1. CASE RuntimeStep \/ \E k \in StartIds : ControlStep(k)
    <2>1. UNCHANGED <<wire, respMu>>
      BY <1>1, RuntimeFrame, ControlFrame DEF serving
    <2>2. UNCHANGED counters \/ respMu = {}
      BY <1>1, RuntimeFrame, ControlCounters DEF ResetCounters, macros
    <2> QED
      BY <2>1, <2>2 DEF OneInMacro, Now
  <1>2. ASSUME NEW w \in Wires, WireStep(w) PROVE OneInMacro'
    <2>1. \A v \in Wires \ {w} : wire'[v] = wire[v]
      BY <1>2, WireStepUpdates
    <2>2. CASE ProcessPort(w) \/ PutLiteral(w) \/ Respond(w) \/ GiveUp(w)
      <3>1. wire'[w] = wire[w] \/ wire'[w].at \in {"expand", "idle"}
        <4>1. CASE ProcessPort(w)
          <5>1. CASE ~UNCHANGED wire
            <6>1. PICK req \in Requests :
                    wire' = [wire EXCEPT ![w] = [at |-> "expand", req |-> req, emit |-> emit,
                                                 todo |-> Todo(req), fields |-> Echo(req)]]
              BY <4>1, <5>1 DEF ProcessPort
            <6> QED
              BY <6>1, WireUpdate
          <5> QED
            BY <5>1
        <4>2. CASE PutLiteral(w)
          <5>1. PICK value : Put(w, value)
            BY <4>2 DEF PutLiteral
          <5> QED
            BY <5>1, WireUpdate DEF Put
        <4>3. CASE Respond(w) \/ GiveUp(w)
          BY <4>3, WireUpdate DEF Respond, GiveUp, Idle
        <4> QED
          BY <2>2, <4>1, <4>2, <4>3
      <3>2. UNCHANGED <<respMu, counters>>
        BY <2>2 DEF ProcessPort, PutLiteral, Respond, GiveUp, macros
      <3> QED
        BY <2>1, <3>1, <3>2 DEF OneInMacro, Now
    <2>3. CASE EnterMacro(w)
      <3>1. /\ wire'[w].at = "locked" /\ wire'[w].todo = wire[w].todo
            /\ wire'[w].seen = counters
        BY <2>3, WireUpdate DEF EnterMacro
      <3>2. respMu = {} /\ respMu' = {w} /\ UNCHANGED counters
        BY <2>3 DEF EnterMacro, macros
      <3>3. wire[w].todo # <<>> /\ ~Literal(Now(w).template)
        BY <2>3 DEF EnterMacro
      <3> QED
        BY <2>1, <3>1, <3>2, <3>3 DEF OneInMacro, Now
    <2>4. CASE ExpandMacro(w)
      <3>1. wire'[w].at = "expand"
        <4>1. PICK value : Put(w, value)
          BY <2>4 DEF ExpandMacro
        <4> QED
          BY <4>1, WireUpdate DEF Put
      <3>2. respMu = {w} /\ respMu' = {}
        BY <2>4 DEF ExpandMacro, OneInMacro
      <3> QED
        BY <2>1, <3>1, <3>2 DEF OneInMacro, Now
    <2> QED
      BY <1>2, <2>2, <2>3, <2>4 DEF WireStep
  <1> QED
    BY <1>1, <1>2 DEF Next

-----------------------------------------------------------------------------
(* Silence until sim.start *)

LEMMA StillSilentKept ==
    ASSUME TypeOK, WiresServe, StillSilent, Next
    PROVE  StillSilent'
  <1> SUFFICES ASSUME cfg'.trigger = "on_control", ~resumed'
               PROVE  /\ paused' /\ \A w \in Wires : wire'[w] = Idle
                      /\ ~answered' /\ drawn' = 0
                      /\ \A name \in Counters : counters'[name] = 0
    BY DEF StillSilent
  <1> USE DEF gear, control, macros, serving
  <1>1. cfg' = cfg /\ ~resumed
    <2>1. ASSUME NEW k \in StartIds, ControlStep(k) PROVE resumed => resumed'
      BY <2>1 DEF ControlStep, Turn, Receive, ControlLoopEnds, HandleSwitch, HandleReset,
                  ResetCounters
    <2> QED
      BY <2>1, ConfigKept, RuntimeFrame, WireFrame DEF Next
  <1>2. /\ paused /\ \A w \in Wires : wire[w] = Idle
        /\ ~answered /\ drawn = 0 /\ \A name \in Counters : counters[name] = 0
    BY <1>1 DEF StillSilent
  <1>3. CASE RuntimeStep
    BY <1>2, <1>3, RuntimeFrame
  <1>4. ASSUME NEW k \in StartIds, Turn(k) \/ Receive(k) \/ ControlLoopEnds(k) \/ HandleReset(k)
        PROVE  UNCHANGED <<paused, wire, answered, drawn, counters>>
    BY <1>4 DEF Turn, Receive, ControlLoopEnds, HandleReset
  <1>5. ASSUME NEW k \in StartIds, HandleSwitch(k)
        PROVE  paused' /\ UNCHANGED <<wire, answered, drawn, counters>>
    <2>1. ctl[k].cmd \in {"stop", "rate"}
      BY <1>5 DEF HandleSwitch, TypeOK, Commands
    <2> QED
      BY <1>2, <1>5, <2>1 DEF HandleSwitch
  <1>6. ASSUME NEW k \in StartIds, ResetCounters(k)
        PROVE  /\ UNCHANGED <<paused, wire, answered>> /\ drawn' = 0
               /\ \A name \in Counters : counters'[name] = 0
    BY <1>2, <1>6 DEF ResetCounters, StartOver
  <1>7. ASSUME NEW w \in Wires, WireStep(w)
        PROVE  UNCHANGED <<paused, wire, answered, drawn, counters>>
    <2>1. wire[w].at = "idle"
      BY <1>2 DEF Idle
    <2>2. ProcessPort(w)
      BY <1>7, <2>1 DEF WireStep, PutLiteral, EnterMacro, ExpandMacro, Respond, GiveUp
    <2> QED
      BY <1>2, <2>2 DEF ProcessPort
  <1> QED
    BY <1>2, <1>3, <1>4, <1>5, <1>6, <1>7 DEF Next, ControlStep

-----------------------------------------------------------------------------
(* The command in hand *)

LEMMA NotSpawnedKept ==
    ASSUME TypeOK, NotSpawned, Next
    PROVE  NotSpawned'
  <1> USE DEF control, runtime
  <1>1. CASE RuntimeStep
    <2>1. CASE Start
      BY <2>1 DEF Start, NotSpawned, TypeOK, StartIds
    <2>2. CASE Subscribed \/ NotSubscribed
      BY <2>2 DEF Subscribed, NotSubscribed, NotSpawned, TypeOK
    <2>3. CASE SpawnControlLoop
      BY <2>3 DEF SpawnControlLoop, NotSpawned, TypeOK, StartIds
    <2>4. CASE ShutDown \/ \E s \in StartIds : CancelContext(s)
      BY <2>4 DEF ShutDown, CancelContext, NotSpawned
    <2> QED
      BY <1>1, <2>1, <2>2, <2>3, <2>4 DEF RuntimeStep, Drain, Stop
  <1>2. ASSUME NEW k \in StartIds, ControlStep(k) PROVE NotSpawned'
    <2>1. ctl[k].pc # "unborn" /\ UNCHANGED runtime
      BY <1>2 DEF ControlStep, Turn, Receive, ControlLoopEnds, HandleSwitch, HandleReset,
                  ResetCounters
    <2>2. \A j \in StartIds \ {k} : ctl'[j] = ctl[j]
      BY <1>2, ControlUpdate
    <2> QED
      BY <2>1, <2>2 DEF NotSpawned
  <1>3. ASSUME NEW w \in Wires, WireStep(w) PROVE NotSpawned'
    <2>1. UNCHANGED runtime
      BY <1>3 DEF WireStep, ProcessPort, PutLiteral, EnterMacro, ExpandMacro, Respond, GiveUp
    <2> QED
      BY <1>3, <2>1, WireFrame DEF NotSpawned
  <1> QED
    BY <1>1, <1>2, <1>3 DEF Next

\* No control loop begins beside another unless the history says so.
LEMMA SpawnCommand ==
    ASSUME TypeOK, NotSpawned, CommandInHand, SpawnControlLoop
    PROVE  CommandInHand'
  <1>1. /\ UNCHANGED <<cfg, paused, lastCommand>>
        /\ ctl' = [ctl EXCEPT ![nStarts] = [pc |-> IF ctrlCh = 0 THEN "ended" ELSE "turn"]]
        /\ beside' = (beside \/ (ctrlCh # 0 /\ Alive # {}))
    BY DEF SpawnControlLoop, gear
  <1> SUFFICES ASSUME ~beside'
               PROVE  /\ \A j, k \in Alive' : j = k
                      /\ \A k \in StartIds : Switching(k)' => ctl'[k].cmd = lastCommand'
                      /\ (\A k \in StartIds : ~Switching(k)') => PauseFollows'
    BY DEF CommandInHand
  <1>2. ~beside /\ (ctrlCh = 0 \/ Alive = {})
    BY <1>1
  <1>3. \A k \in StartIds : k # nStarts => ctl'[k] = ctl[k]
    BY <1>1 DEF TypeOK
  <1>4. \A k \in StartIds : k = nStarts =>
            ctl'[k].pc = IF ctrlCh = 0 THEN "ended" ELSE "turn"
    BY <1>1 DEF TypeOK
  <1>5. \A j, k \in Alive' : j = k
    BY <1>2, <1>3, <1>4 DEF Alive, CommandInHand
  <1>6. \A k \in StartIds : Switching(k)' => k # nStarts /\ Switching(k)
    BY <1>3, <1>4 DEF Switching
  <1>7. \A k \in StartIds : Switching(k) => Switching(k)'
    BY <1>3 DEF Switching, NotSpawned, SpawnControlLoop
  <1> QED
    BY <1>1, <1>2, <1>3, <1>5, <1>6, <1>7 DEF CommandInHand, PauseFollows

\* The loop that takes a command is alone, so it had none in hand.
LEMMA ControlCommand ==
    ASSUME TypeOK, CommandInHand, NEW k \in StartIds, ControlStep(k)
    PROVE  CommandInHand'
  <1>1. beside' = beside /\ cfg' = cfg
    BY DEF ControlStep, Turn, Receive, ControlLoopEnds, HandleSwitch, HandleReset,
           ResetCounters, control, gear
  <1> SUFFICES ASSUME ~beside
               PROVE  /\ \A i, j \in Alive' : i = j
                      /\ \A j \in StartIds : Switching(j)' => ctl'[j].cmd = lastCommand'
                      /\ (\A j \in StartIds : ~Switching(j)') => PauseFollows'
    BY <1>1 DEF CommandInHand
  <1>2. k \in Alive
    BY DEF ControlStep, Turn, Receive, ControlLoopEnds, HandleSwitch, HandleReset,
           ResetCounters, Alive
  <1>3. \A j \in StartIds \ {k} : ctl'[j] = ctl[j] /\ j \notin Alive
    BY <1>2, ControlUpdate DEF CommandInHand, Alive
  <1>4. \A i, j \in Alive' : i = j
    BY <1>3 DEF Alive
  <1>5. \A j \in StartIds \ {k} : ~Switching(j) /\ ~Switching(j)'
    BY <1>3 DEF Switching, Alive
  <1>6. CASE Turn(k) \/ ControlLoopEnds(k)
    <2>1. ~Switching(k) /\ ~Switching(k)' /\ UNCHANGED <<paused, lastCommand>>
      BY <1>6 DEF Turn, ControlLoopEnds, Switching, TypeOK, gear
    <2> QED
      BY <1>1, <1>4, <1>5, <2>1 DEF CommandInHand, PauseFollows
  <1>7. CASE Receive(k)
    <2>1. PICK cmd \in Commands :
            /\ ctl' = [ctl EXCEPT ![k] = [pc |-> "handle", cmd |-> cmd]]
            /\ lastCommand' = IF cmd \in {"start", "stop"} THEN cmd ELSE lastCommand
      BY <1>7 DEF Receive
    <2>2. ctl'[k].pc = "handle" /\ ctl'[k].cmd = cmd
      BY <2>1 DEF TypeOK
    <2>3. ~Switching(k) /\ UNCHANGED paused
      BY <1>7 DEF Receive, Switching, gear
    <2> QED
      BY <1>1, <1>4, <1>5, <2>1, <2>2, <2>3 DEF CommandInHand, PauseFollows, Switching
  <1>8. CASE HandleSwitch(k)
    <2>1. ~Switching(k)' /\ lastCommand' = lastCommand
      BY <1>8 DEF HandleSwitch, Switching, TypeOK
    <2>2. CASE ctl[k].cmd = "rate"
      <3>1. ~Switching(k) /\ UNCHANGED paused
        BY <1>8, <2>2 DEF HandleSwitch, Switching
      <3> QED
        BY <1>1, <1>4, <1>5, <2>1, <3>1 DEF CommandInHand, PauseFollows
    <2>3. CASE ctl[k].cmd # "rate"
      <3>1. ctl[k].cmd \in {"start", "stop"}
        BY <1>8, <2>3 DEF HandleSwitch, TypeOK, Commands
      <3>2. ctl[k].cmd = lastCommand
        BY <1>8, <3>1 DEF HandleSwitch, Switching, CommandInHand
      <3>3. paused' = (lastCommand = "stop")
        BY <1>8, <2>3, <3>2 DEF HandleSwitch
      <3> QED
        BY <1>4, <1>5, <2>1, <3>1, <3>2, <3>3 DEF PauseFollows
    <2> QED
      BY <2>2, <2>3
  <1>9. CASE HandleReset(k) \/ ResetCounters(k)
    <2>1. ~Switching(k) /\ ~Switching(k)' /\ UNCHANGED <<paused, lastCommand>>
      BY <1>9 DEF HandleReset, ResetCounters, Switching, TypeOK, gear
    <2> QED
      BY <1>1, <1>4, <1>5, <2>1 DEF CommandInHand, PauseFollows
  <1> QED
    BY <1>6, <1>7, <1>8, <1>9 DEF ControlStep

LEMMA CommandInHandKept ==
    ASSUME TypeOK, NotSpawned, CommandInHand, Next
    PROVE  CommandInHand'
  <1>1. CASE RuntimeStep
    <2>1. CASE SpawnControlLoop
      BY <2>1, SpawnCommand
    <2>2. CASE ~SpawnControlLoop
      <3>1. UNCHANGED <<ctl, beside>>
        BY <1>1, <2>2 DEF RuntimeStep, Start, Subscribed, NotSubscribed, Drain, Stop,
                          ShutDown, CancelContext, control
      <3> QED
        BY <1>1, <3>1, RuntimeFrame DEF CommandInHand, Alive, Switching, PauseFollows
    <2> QED
      BY <2>1, <2>2
  <1>2. ASSUME NEW w \in Wires, WireStep(w) PROVE CommandInHand'
    BY <1>2, WireFrame DEF CommandInHand, Alive, Switching, PauseFollows, gear, control
  <1> QED
    BY <1>1, <1>2, ControlCommand DEF Next

-----------------------------------------------------------------------------
(* The counters *)

\* The configuration says which sequences stand alone.
LEMMA AloneKept ==
    ASSUME cfg' = cfg
    PROVE  /\ TemplatesOf(cfg') = TemplatesOf(cfg)
           /\ \A t : Alone(t)' <=> Alone(t)
  BY DEF Alone

\* A counter and the numbers it printed that stay as they are.
LEMMA CounterStays ==
    ASSUME NEW t, CounterFollows(t),
           counters'[CounterOf(t)] = counters[CounterOf(t)],
           issued'[CounterOf(t)] = issued[CounterOf(t)]
    PROVE  CounterFollows(t)'
  BY DEF CounterFollows

\* What divides a number decides its rest.
LEMMA ModUnique ==
    ASSUME NEW L \in Nat \ {0}, NEW q \in Nat, NEW r \in 0..(L - 1), NEW b \in Nat,
           b = L * q + r
    PROVE  b % L = r
  OBVIOUS

\* Numbers that wrap: the one after the last is the first.
LEMMA ModNext ==
    ASSUME NEW a \in Nat, NEW L \in Nat \ {0}
    PROVE  (a + 1) % L = IF a % L = L - 1 THEN 0 ELSE (a % L) + 1
  <1> DEFINE q == a \div L
             r == a % L
  <1>1. q \in Nat /\ r \in 0..(L - 1) /\ a = L * q + r
    OBVIOUS
  <1> HIDE DEF q, r
  <1>2. CASE r = L - 1
    <2>1. a + 1 = L * (q + 1) + 0
      BY <1>1, <1>2
    <2>2. q + 1 \in Nat /\ 0 \in 0..(L - 1)
      BY <1>1
    <2>3. (a + 1) % L = 0
      BY <1>1, <2>1, <2>2, ModUnique
    <2> QED
      BY <1>2, <2>3 DEF r
  <1>3. CASE r # L - 1
    <2>1. a + 1 = L * q + (r + 1) /\ r + 1 \in 0..(L - 1)
      BY <1>1, <1>3
    <2>2. (a + 1) % L = r + 1
      BY <1>1, <2>1, ModUnique
    <2> QED
      BY <1>3, <2>2 DEF r
  <1> QED
    BY <1>2, <1>3

LEMMA ModWord ==
    ASSUME NEW L \in Nat \ {0}
    PROVE  L % L = 0 /\ \A r \in 0..(L - 1) : r % L = r
  OBVIOUS

\* The number a macro takes from its counter is the next of its sequence.
LEMMA NextNumber ==
    ASSUME cfg \in Configs, NEW t \in TemplatesOf(cfg), NEW k \in Nat
    PROVE  NumberOf(t, CountAfter(t, k)) = Numbered(t, k + 1)
  <1>1. WordSize \in Nat \ {0}
    BY WrapAssumption
  <1>2. CASE t.macro = "SEQ"
    <2> DEFINE L == WordSize - t.start
    <2>1. t.start \in 0..(WordSize - 1) /\ L \in Nat \ {0}
      BY <1>1, <1>2, TemplateFacts
    <2>2. Numbered(t, k + 1) = t.start + (k % L)
      BY <1>2 DEF Numbered
    <2>3. CASE k = 0
      <3>1. k % L = 0
        BY <2>1, <2>3, ModWord
      <3> QED
        BY <1>2, <2>1, <2>2, <2>3, <3>1 DEF NumberOf, CountAfter
    <2>4. CASE k # 0
      <3> DEFINE m == (k - 1) % L
      <3>1. m \in 0..(L - 1)
        BY <2>1, <2>4
      <3>2. k % L = IF m = L - 1 THEN 0 ELSE m + 1
        <4>1. k - 1 \in Nat /\ (k - 1) + 1 = k
          BY <2>4
        <4> HIDE DEF L
        <4> QED
          BY <2>1, <4>1, ModNext
      <3>3. CountAfter(t, k) = (t.start + m + 1) % WordSize
        BY <1>2, <2>4 DEF CountAfter, CounterAfter, Numbered
      <3> HIDE DEF m
      <3>4. CASE m = L - 1
        <4>1. t.start + m + 1 = WordSize
          BY <1>1, <2>1, <3>4
        <4>2. CountAfter(t, k) = 0
          BY <1>1, <3>3, <4>1, ModWord
        <4> QED
          BY <1>2, <2>1, <2>2, <3>2, <3>4, <4>2 DEF NumberOf
      <3>5. CASE m # L - 1
        <4>1. t.start + m + 1 \in 1..(WordSize - 1)
          BY <1>1, <2>1, <3>1, <3>5
        <4>2. CountAfter(t, k) = t.start + m + 1
          BY <1>1, <3>3, <4>1, ModWord
        <4> QED
          BY <1>2, <2>1, <2>2, <3>1, <3>2, <3>5, <4>1, <4>2 DEF NumberOf
      <3> QED
        BY <3>4, <3>5
    <2> QED
      BY <2>3, <2>4
  <1>3. CASE t.macro # "SEQ"
    <2>1. Numbered(t, k + 1) = (k + 1) % WordSize
      BY <1>3 DEF Numbered
    <2>2. CASE k = 0
      BY <1>3, <2>1, <2>2 DEF NumberOf, CountAfter
    <2>3. CASE k # 0
      <3>1. NumberOf(t, CountAfter(t, k)) = ((k % WordSize) + 1) % WordSize
        BY <1>3, <2>3 DEF NumberOf, CountAfter, CounterAfter, Numbered
      <3>2. k % WordSize \in 0..(WordSize - 1)
        BY <1>1
      <3>3. ((k % WordSize) + 1) % WordSize
               = IF k % WordSize = WordSize - 1 THEN 0 ELSE (k % WordSize) + 1
        <4> DEFINE r == k % WordSize
        <4>1. r \in 0..(WordSize - 1)
          BY <3>2
        <4> HIDE DEF r
        <4>2. (r + 1) % WordSize = IF r = WordSize - 1 THEN 0 ELSE r + 1
          BY <1>1, <4>1, ModWord
        <4> QED
          BY <4>2 DEF r
      <3>4. (k + 1) % WordSize
               = IF k % WordSize = WordSize - 1 THEN 0 ELSE (k % WordSize) + 1
        BY <1>1, ModNext
      <3> QED
        BY <2>1, <3>1, <3>3, <3>4
    <2> QED
      BY <2>2, <2>3
  <1> QED
    BY <1>2, <1>3

\* A macro moves its counter by one, and prints the number that comes next.
LEMMA CounterMoves ==
    ASSUME Inv, NEW t \in TemplatesOf(cfg), t.macro \in Counting, CounterFollows(t),
           NEW n, n = NumberOf(t, counters[CounterOf(t)]),
           counters'[CounterOf(t)] = CounterAfter(t, n),
           issued'[CounterOf(t)] = Append(issued[CounterOf(t)], Digits(t, n))
    PROVE  CounterFollows(t)'
  <1> DEFINE c == CounterOf(t)
             N == issued[c]
             p == Digits(t, n)
  <1>1. N \in Seq(Int) /\ p \in Int /\ Len(N) \in Nat
    BY NumberFacts DEF Inv, CountersFollow
  <1>2. counters[c] = CountAfter(t, Len(N))
    BY DEF CounterFollows
  <1>3. \A i \in 1..Len(N) : N[i] = Digits(t, Numbered(t, i))
    BY DEF CounterFollows
  <1>4. n = Numbered(t, Len(N) + 1)
    BY <1>1, <1>2, NextNumber DEF Inv
  <1>5. /\ Len(issued'[c]) = Len(N) + 1
        /\ \A i \in 1..Len(N) : issued'[c][i] = N[i]
        /\ issued'[c][Len(N) + 1] = p
    <2> HIDE DEF N, p
    <2>1. issued'[c] = Append(N, p)
      BY DEF N, p
    <2> QED
      BY <1>1, <2>1, AppendProperties
  <1> HIDE DEF N
  <1>6. counters'[c] = CountAfter(t, Len(issued'[c]))
    BY <1>1, <1>4, <1>5 DEF CountAfter
  <1>7. ASSUME NEW i \in 1..Len(issued'[c])
        PROVE  issued'[c][i] = Digits(t, Numbered(t, i))
    <2>1. i \in 1..(Len(N) + 1)
      BY <1>5
    <2>2. CASE i \in 1..Len(N)
      BY <1>3, <1>5, <2>2
    <2>3. CASE i = Len(N) + 1
      BY <1>4, <1>5, <2>3
    <2> QED
      BY <1>1, <2>1, <2>2, <2>3
  <1> QED
    BY <1>6, <1>7 DEF CounterFollows

LEMMA CountersFollowExpand ==
    ASSUME Inv, NEW w \in Wires, ExpandMacro(w)
    PROVE  CountersFollow'
  <1> DEFINE t == Now(w).template
             c == CounterOf(t)
             n == NumberOf(t, counters[c])
             N == issued[c]
  <1>1. t \in TemplatesOf(cfg) /\ wire[w].seen = counters
    BY MacroFacts DEF ExpandMacro, OneInMacro, Inv
  <1>2. cfg' = cfg
    BY DEF ExpandMacro, gear
  <1>3. CASE ~Counts(t, wire[w].req)
    <2>1. UNCHANGED <<counters, issued>>
      BY <1>3 DEF ExpandMacro, macros
    <2> QED
      BY <1>2, <2>1, AloneKept, CounterStays DEF Inv, CountersFollow
  <1>4. CASE Counts(t, wire[w].req)
    <2>1. t.macro \in Counting /\ ~Kept(t, wire[w].req)
      BY <1>4 DEF Counts
    <2>2. /\ counters' = [counters EXCEPT ![c] = CounterAfter(t, n)]
          /\ issued' = [issued EXCEPT ![c] = Append(@, Digits(t, n))]
      BY <1>1, <1>4, <2>1 DEF ExpandMacro
    <2>3. c \in Counters /\ Digits(t, n) \in Int
      BY <1>1, <2>1, NumberFacts DEF Inv
    <2>4. counters \in [Counters -> 0..(WordSize - 1)] /\ issued \in [Counters -> Seq(Int)] /\ N \in Seq(Int)
      BY <2>3 DEF Inv, TypeOK, CountersFollow
    <2>5. /\ issued' \in [Counters -> Seq(Int)] /\ issued'[c] = Append(N, Digits(t, n))
          /\ counters'[c] = CounterAfter(t, n)
      <3> DEFINE p == Digits(t, n)
      <3> HIDE DEF p
      <3>1. Append(N, p) \in Seq(Int)
        BY <2>3, <2>4 DEF p
      <3> HIDE DEF c, n
      <3> QED
        BY <2>2, <2>3, <2>4, <3>1 DEF p
    <2>6. ASSUME NEW u \in TemplatesOf(cfg), u.macro \in Counting, Alone(u)
          PROVE  CounterFollows(u)'
      <3>1. u = t \/ CounterOf(u) # c
        BY <1>1, <2>1, <2>6 DEF Alone
      <3>2. CounterFollows(u)
        BY <2>6 DEF Inv, CountersFollow
      <3>3. CASE u = t
        BY <1>1, <2>1, <2>5, <3>2, <3>3, CounterMoves
      <3>4. CASE CounterOf(u) # c
        <4>1. /\ counters'[CounterOf(u)] = counters[CounterOf(u)]
              /\ issued'[CounterOf(u)] = issued[CounterOf(u)]
          <5>1. CounterOf(u) \in Counters
            BY <2>6, TemplateFacts DEF Inv
          <5> HIDE DEF n, c
          <5> QED
            BY <2>2, <2>4, <3>4, <5>1
        <4> QED
          BY <3>2, <4>1, CounterStays
      <3> QED
        BY <3>1, <3>3, <3>4
    <2> QED
      BY <1>2, <2>5, <2>6, AloneKept DEF CountersFollow
  <1> QED
    BY <1>3, <1>4

LEMMA CountersFollowKept ==
    ASSUME Inv, Next
    PROVE  CountersFollow'
  <1>1. cfg' = cfg
    BY ConfigKept
  <1>2. CASE UNCHANGED <<counters, issued>>
    BY <1>1, <1>2, AloneKept, CounterStays DEF Inv, CountersFollow
  <1>3. ASSUME NEW k \in StartIds, ResetCounters(k) PROVE CountersFollow'
    <2>1. /\ counters' = [name \in Counters |-> 0]
          /\ issued' = [name \in Counters |-> <<>>]
      BY <1>3 DEF ResetCounters, StartOver
    <2>2. ASSUME NEW t \in TemplatesOf(cfg), t.macro \in Counting PROVE CounterFollows(t)'
      <3>1. CounterOf(t) \in Counters
        BY <2>2, TemplateFacts DEF Inv
      <3>2. counters'[CounterOf(t)] = 0 /\ issued'[CounterOf(t)] = <<>>
        BY <2>1, <3>1
      <3> QED
        BY <3>2, EmptySeq DEF CounterFollows, CountAfter
    <2> QED
      BY <1>1, <2>1, <2>2, AloneKept, EmptySeq DEF CountersFollow
  <1>4. ASSUME NEW w \in Wires, WireStep(w), ~ExpandMacro(w) PROVE UNCHANGED <<counters, issued>>
    BY <1>4 DEF WireStep, ProcessPort, PutLiteral, EnterMacro, Respond, GiveUp, macros
  <1> QED
    BY <1>2, <1>3, <1>4, RuntimeFrame, ControlCounters, CountersFollowExpand DEF Next, macros

-----------------------------------------------------------------------------
(* The invariant of the gear, and what it gives *)

LEMMA InvKept == Inv /\ Next => Inv'
  <1> SUFFICES ASSUME Inv, Next PROVE Inv'
    OBVIOUS
  <1>1. TypeOK'
    BY RuntimeTypes, ControlTypes, WireTypes DEF Inv, Next
  <1>2. cfg' \in Configs
    BY ConfigKept DEF Inv
  <1>3. WiresServe' /\ OneInMacro'
    BY WiresServeKept, OneInMacroKept DEF Inv
  <1>4. StillSilent'
    BY StillSilentKept DEF Inv
  <1>5. NotSpawned' /\ CommandInHand'
    BY NotSpawnedKept, CommandInHandKept DEF Inv
  <1>6. CountersFollow'
    BY CountersFollowKept
  <1> QED
    BY <1>1, <1>2, <1>3, <1>4, <1>5, <1>6 DEF Inv

LEMMA InvStutters == Inv /\ UNCHANGED vars => Inv'
  <1> SUFFICES ASSUME Inv, UNCHANGED vars PROVE Inv'
    OBVIOUS
  <1> USE DEF vars, gear, control, macros, serving, runtime, Inv
  <1>1. TypeOK'
    BY DEF TypeOK
  <1>2. cfg' \in Configs /\ WiresServe' /\ OneInMacro'
    BY DEF WiresServe, OneInMacro, Now
  <1>3. StillSilent' /\ NotSpawned'
    BY DEF StillSilent, NotSpawned
  <1>4. CommandInHand'
    BY DEF CommandInHand, Alive, Switching, PauseFollows
  <1>5. CountersFollow'
    BY AloneKept, CounterStays DEF CountersFollow
  <1> QED
    BY <1>1, <1>2, <1>3, <1>4, <1>5

\* A new gear, with a configuration that Init accepts.
LEMMA FreshInv == Fresh /\ cfg \in Configs /\ paused = PausedAtFirst(cfg) => Inv
  <1> SUFFICES ASSUME Fresh, cfg \in Configs, paused = PausedAtFirst(cfg) PROVE Inv
    OBVIOUS
  <1> USE BoundsAssumption
  <1>1. TypeOK
    <2>1. [pc |-> "unborn"] \in [pc : {"unborn", "turn", "resetting", "ended"}]
      OBVIOUS
    <2>2. \A w \in Wires : wire[w].at = "idle"
      BY DEF Fresh, Idle
    <2>3. Cardinality(respMu) = 0
      BY MutexTypes DEF Fresh
    <2>4. ctl \in [StartIds -> [pc : {"unborn", "turn", "resetting", "ended"}]
                               \union [pc : {"select"}, stop : 0..MaxStarts]
                               \union [pc : {"handle"}, cmd : Commands]]
      BY <2>1 DEF Fresh
    <2>5. counters \in [Counters -> 0..(WordSize - 1)] /\ drawn \in Nat
      BY WrapAssumption DEF Fresh
    <2>6. paused \in BOOLEAN /\ cfg.trigger \in {"on_load", "on_control"} /\ cfg.seed \in Int
      BY ConfigsAssumption DEF PausedAtFirst
    <2>7. /\ 0 \in 0..MaxStarts /\ 0 \in 0..MaxRequests /\ 0 \in 0..MaxCommands
          /\ "new" \in Phases
      BY DEF Phases
    <2>8. respMu \subseteq Wires /\ closed \subseteq 1..nStarts /\ ctxDone \subseteq 1..nStarts
      BY DEF Fresh
    <2> QED
      <3>1. /\ nStarts \in 0..MaxStarts /\ stopCh = nStarts /\ ctrlCh \in 0..nStarts
            /\ gearMu \in 0..MaxStarts
            /\ nRequests \in 0..MaxRequests /\ nCommands \in 0..MaxCommands
        BY <2>7 DEF Fresh
      <3>2. /\ emit \in BOOLEAN /\ rt \in {"idle", "subscribing", "spawning"} /\ phase \in Phases
            /\ serial \in BOOLEAN /\ answered \in BOOLEAN /\ resumed \in BOOLEAN
            /\ beside \in BOOLEAN /\ lastCommand \in {"none", "start", "stop"}
        BY <2>7 DEF Fresh
      <3> QED
        BY <2>2, <2>3, <2>4, <2>5, <2>6, <2>8, <3>1, <3>2 DEF TypeOK
  <1>2. WiresServe /\ OneInMacro
    BY DEF Fresh, WiresServe, OneInMacro, Idle
  <1>3. StillSilent /\ NotSpawned
    BY DEF Fresh, StillSilent, NotSpawned, PausedAtFirst
  <1>4. CommandInHand
    BY DEF Fresh, CommandInHand, Alive, Switching, PauseFollows, PausedAtFirst
  <1>5. CountersFollow
    <2>1. issued \in [Counters -> Seq(Int)]
      BY EmptySeq DEF Fresh
    <2>2. ASSUME NEW t \in TemplatesOf(cfg), t.macro \in Counting PROVE CounterFollows(t)
      <3>1. counters[CounterOf(t)] = 0 /\ issued[CounterOf(t)] = <<>>
        BY <2>2, TemplateFacts DEF Fresh
      <3> QED
        BY <3>1, EmptySeq DEF CounterFollows, CountAfter
    <2> QED
      BY <2>1, <2>2 DEF CountersFollow
  <1> QED
    BY <1>1, <1>2, <1>3, <1>4, <1>5 DEF Inv

LEMMA FreshInvNext == (Fresh /\ cfg \in Configs /\ paused = PausedAtFirst(cfg) => Inv)'
  BY FreshInv, PTL

\* Before Init and after it refused, the gear has done nothing.
ConfigInv ==
    /\ stage \in {"made", "ready", "refused"}
    /\ written \in DOMAIN Written
    /\ stage = "ready" => Inv /\ Accepted(Config) /\ cfg = Parsed(Config)
    /\ stage # "ready" => Fresh /\ cfg = DefaultConfig /\ paused = FALSE

LEMMA ConfigInvInit == ConfigInit => ConfigInv
  BY DEF ConfigInit, ConfigInv

LEMMA ConfigInvKept == ConfigInv /\ [ConfigNext]_configVars => ConfigInv'
  <1> SUFFICES ASSUME ConfigInv, [ConfigNext]_configVars PROVE ConfigInv'
    OBVIOUS
  <1>1. CASE InitGear
    <2>1. Fresh' /\ written' = written /\ stage' \in {"ready", "refused"}
      BY <1>1 DEF InitGear, ConfigInv, Fresh, control, macros, serving, runtime
    <2>2. CASE Accepted(Config)
      <3>1. cfg' = Parsed(Config) /\ paused' = PausedAtFirst(cfg')
        BY <1>1, <2>2 DEF InitGear, PausedAtFirst
      <3>2. cfg' \in Configs
        BY <2>2, <3>1, WrittenAssumption DEF Config, ConfigInv
      <3>3. Inv'
        BY <2>1, <3>1, <3>2, FreshInvNext
      <3> QED
        BY <1>1, <2>1, <2>2, <3>1, <3>3 DEF InitGear, ConfigInv, Config
    <2>3. CASE ~Accepted(Config)
      BY <1>1, <2>1, <2>3 DEF InitGear, ConfigInv
    <2> QED
      BY <2>2, <2>3
  <1>2. CASE Serving
    BY <1>2, InvKept, ConfigKept DEF Serving, ConfigInv, Config
  <1>3. CASE UNCHANGED configVars
    <2>1. Fresh => Fresh'
      BY <1>3 DEF configVars, vars, gear, control, macros, serving, runtime, Fresh
    <2>2. UNCHANGED <<cfg, paused>>
      BY <1>3 DEF configVars, vars, gear
    <2> QED
      BY <1>3, <2>1, <2>2, InvStutters DEF configVars, ConfigInv, Config
  <1> QED
    BY <1>1, <1>2, <1>3 DEF ConfigNext

LEMMA ConfigInvHolds == ConfigSpec => []ConfigInv
  BY ConfigInvInit, ConfigInvKept, PTL DEF ConfigSpec

-----------------------------------------------------------------------------
(* Theorems *)

\* The gear that runs on an accepted configuration keeps its types, whatever is asked
\* of it: r.mu has one holder, a channel is closed once and is never nil.
THEOREM TypeCorrect == ConfigSpec => []ConfigTypeOK
  <1>1. ConfigInv => ConfigTypeOK
    BY DEF ConfigInv, Inv, ConfigTypeOK
  <1> QED
    BY <1>1, ConfigInvHolds, PTL

\* A gear that waits for sim.start answers nothing and moves no counter before one is
\* handled, whatever requests come, before its Start, between two and after.
THEOREM SilentUntilStartedHolds == ConfigSpec => []SilentUntilStarted
  <1>1. ConfigInv => SilentUntilStarted
    <2>1. Fresh /\ cfg = DefaultConfig => SilentUntilStarted
      BY DEF Fresh, SilentUntilStarted, DefaultConfig
    <2>2. Inv => SilentUntilStarted
      BY DEF Inv, StillSilent, SilentUntilStarted
    <2> QED
      BY <2>1, <2>2 DEF ConfigInv
  <1> QED
    BY <1>1, ConfigInvHolds, PTL

\* Every sequence runs on from its first number by one from each reset to the next, for
\* any number of wires that draw from it.
THEOREM SequencesRunOnHolds == ConfigSpec => []SequencesRunOn
  <1>1. Inv => SequencesRunOn
    <2> SUFFICES ASSUME Inv, NEW t \in TemplatesOf(cfg), t.macro \in Counting, Alone(t),
                        NEW i \in DOMAIN issued[CounterOf(t)]
                 PROVE  issued[CounterOf(t)][i] = Digits(t, Numbered(t, i))
      BY DEF SequencesRunOn
    <2>1. CounterFollows(t)
      BY DEF Inv, CountersFollow
    <2>2. issued[CounterOf(t)] \in Seq(Int)
      BY TemplateFacts DEF Inv, CountersFollow
    <2>3. DOMAIN issued[CounterOf(t)] = 1..Len(issued[CounterOf(t)])
      BY <2>2, LenProperties
    <2> HIDE DEF Digits, Numbered, CounterOf
    <2> QED
      BY <2>1, <2>3 DEF CounterFollows
  <1>2. cfg = DefaultConfig => SequencesRunOn
    <2>1. DefaultConfig.default = {[key |-> "39", template |-> Approved]}
          /\ DefaultConfig.rules = <<>>
      BY DEF DefaultConfig
    <2>2. DOMAIN DefaultConfig.rules = {}
      BY <2>1
    <2>3. \A t \in TemplatesOf(DefaultConfig) : t = Approved
      BY <2>1, <2>2 DEF TemplatesOf
    <2>4. Approved.macro \notin Counting
      BY DEF Approved, Counting
    <2> QED
      BY <2>3, <2>4 DEF SequencesRunOn
  <1>3. ConfigInv => SequencesRunOn
    BY <1>1, <1>2 DEF ConfigInv
  <1> QED
    BY <1>3, ConfigInvHolds, PTL

\* With one control loop at a time, the gear is paused as its last command says once that
\* is handled, through resets and through any number of Stops and Starts.
THEOREM LastCommandWinsHolds == ConfigSpec => []LastCommandWins
  <1>1. Inv => LastCommandWins
    BY DEF Inv, CommandInHand, Switching, PauseFollows, LastCommandWins
  <1>2. Fresh /\ cfg = DefaultConfig /\ paused = FALSE => LastCommandWins
    <2>1. DefaultConfig.trigger = "on_load"
      BY DEF DefaultConfig
    <2> QED
      BY <2>1 DEF Fresh, LastCommandWins
  <1>3. ConfigInv => LastCommandWins
    BY <1>1, <1>2 DEF ConfigInv
  <1> QED
    BY <1>3, ConfigInvHolds, PTL

\* What is written and has to be there is what is read.
LEMMA RuleAsWritten ==
    ASSUME NEW m, ValidateRule(Rule(m))
    PROVE  m.when.text = Rule(m).when
  <1>1. Rule(m).when # ""
    BY DEF ValidateRule
  <1>2. Rule(m).when = Read(m, "when", "text", "")
    BY DEF Rule
  <1> QED
    BY <1>1, <1>2 DEF Read, Given

LEMMA DelayAccepted ==
    ASSUME NEW text, ValidateDelay(text)
    PROVE  ParseDelay(text) >= 0
  <1>1. CASE text = ""
    <2>1. ParseDelay(text) = 0
      BY <1>1 DEF ParseDelay
    <2> QED
      BY <2>1
  <1>2. CASE text # ""
    <2>1. text \in DOMAIN Durations /\ Durations[text] \in Int /\ Durations[text] >= 0
      BY <1>2, DurationsAssumption DEF ValidateDelay
    <2> QED
      BY <1>2, <2>1 DEF ParseDelay
  <1> QED
    BY <1>1, <1>2

\* What validateSet accepts names a field or the message type, with a macro it knows.
LEMMA EntryAccepted ==
    ASSUME NEW entries, ValidateSet(entries), NEW e \in entries
    PROVE  /\ FieldOf(e.key) > 0 \/ (e.key \in DOMAIN Alias /\ Alias[e.key] = 0)
           /\ e.template.macro \in KnownMacros \union {""}
  <1>1. CASE e.key \in DOMAIN Numeral
    <2>1. Numeral[e.key] > 0 /\ FieldOf(e.key) = Numeral[e.key]
      BY <1>1 DEF ValidateSet, FieldOf
    <2>2. e.template.macro \in KnownMacros \union {""}
      BY DEF ValidateSet, Literal
    <2> QED
      BY <2>1, <2>2
  <1>2. CASE e.key \notin DOMAIN Numeral
    <2>1. e.key \in DOMAIN Alias /\ FieldOf(e.key) = Alias[e.key]
      BY <1>2 DEF ValidateSet, FieldOf
    <2>2. Alias[e.key] > 0 \/ Alias[e.key] = 0
      BY <2>1, AliasAssumption
    <2> QED
      <3>1. e.template.macro \in KnownMacros \union {""}
        BY DEF ValidateSet, Literal
      <3> QED
        BY <2>1, <2>2, <3>1
  <1> QED
    BY <1>1, <1>2

\* Every rule of an accepted configuration is used, in its place, and can be: whatever is
\* written, nothing that Init does not refuse is dropped later.
THEOREM AcceptedRulesAreKeptHolds == ConfigSpec => []AcceptedRulesAreKept
  <1>1. ConfigInv => AcceptedRulesAreKept
    <2> SUFFICES ASSUME Accepted(Config), cfg = Parsed(Config)
                 PROVE  AcceptedRulesAreKept
      BY DEF ConfigInv, AcceptedRulesAreKept
    <2> DEFINE list == Read(Config, "rules", "list", <<>>)
    <2>1. cfg.rules = [i \in DOMAIN list |-> Rule(list[i].map)]
      BY DEF Parsed, RulesOf
    <2>2. ValidateSet(cfg.default) /\ \A i \in DOMAIN cfg.rules : ValidateRule(cfg.rules[i])
      BY DEF Accepted, Validate
    <2>3. ASSUME NEW i \in DOMAIN list
          PROVE  /\ list[i].map.when.text = cfg.rules[i].when
                 /\ cfg.rules[i].when \in DOMAIN Holds /\ cfg.rules[i].set # {}
                 /\ ParseDelay(cfg.rules[i].delay) >= 0
      <3>1. cfg.rules[i] = Rule(list[i].map) /\ ValidateRule(cfg.rules[i])
        BY <2>1, <2>2
      <3>2. ParseDelay(cfg.rules[i].delay) >= 0
        BY <3>1, DelayAccepted DEF ValidateRule
      <3> QED
        BY <3>1, <3>2, RuleAsWritten DEF ValidateRule
    <2>4. \A e \in cfg.default \union UNION {cfg.rules[i].set : i \in DOMAIN cfg.rules} :
            /\ FieldOf(e.key) > 0 \/ (e.key \in DOMAIN Alias /\ Alias[e.key] = 0)
            /\ e.template.macro \in KnownMacros \union {""}
      BY <2>2, EntryAccepted, ZenonT(30) DEF ValidateRule
    <2> QED
      BY <2>1, <2>3, <2>4 DEF AcceptedRulesAreKept
  <1> QED
    BY <1>1, ConfigInvHolds, PTL
=============================================================================
