SPECIFICATION Spec

CONSTANTS
    Triggers = {"on_control"}
    StartableIn = {"new", "stopped"}
    Commands = {"start", "reseed", "stop", "rate", "reset"}
    MaxStarts = 2
    MaxCommands = 3
    MaxLoops = 5

INVARIANTS
    RunningMeansGenerating
