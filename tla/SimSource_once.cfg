SPECIFICATION Spec

CONSTANTS
    Triggers = {"on_load", "on_control"}
    StartableIn = {"new"}
    Commands = {"start", "reseed", "stop", "rate", "reset"}
    MaxStarts = 1
    MaxCommands = 3
    MaxLoops = 3

INVARIANTS
    TypeOK
    OneEmitter
    RunHoldsTicker
    RunningMeansGenerating

PROPERTIES
    ImplementsGeneration
