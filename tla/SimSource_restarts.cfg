SPECIFICATION FairSpec

CONSTANTS
    Triggers = {"on_load", "on_control"}
    StartableIn = {"new", "stopped"}
    Commands = {"reseed", "stop", "reset"}
    MaxStarts = 2
    MaxCommands = 2
    MaxLoops = 2

INVARIANTS
    OneRunPerChannel
    OneControlLoop

PROPERTIES
    SignalledLoopsEnd
    CommandsComplete
