SPECIFICATION Spec

CONSTANTS
    Triggers = {"on_control"}
    StartableIn = {"new", "started"}
    Commands = {"start", "stop"}
    MaxStarts = 2
    MaxCommands = 2
    MaxLoops = 2

INVARIANTS
    StopReachesEveryLoop
