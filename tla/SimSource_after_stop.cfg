SPECIFICATION Spec

CONSTANTS
    Triggers = {"on_control"}
    StartableIn = {"new"}
    Commands = {"start", "reseed", "stop", "rate", "reset"}
    MaxStarts = 1
    MaxCommands = 2
    MaxLoops = 3

INVARIANTS
    StoppedGearIsSilent
