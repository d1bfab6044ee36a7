SPECIFICATION ConfigSpec

CONSTANTS
    Wires = {w1, w2}
    StartableIn = {"new", "stopped"}
    Configs <- MCConfigs
    Requests <- MCRequests
    Catalog <- MCCatalog
    EchoedIn <- MCEchoedIn
    Holds <- MCHolds
    KeyOrder <- MCKeyOrder
    Numeral <- MCNumeral
    Alias <- MCAlias
    SubAlias <- MCSubAlias
    Decimal <- MCDecimal
    Store = {"iso"}
    Zones = {""}
    Durations <- MCDurations
    Modulus = 2
    WordSize = 3
    ClockRange = 3
    WallClock = {0, 2}
    DayLength = 2
    UUIDs = {1, 2}
    MaxStarts = 2
    MaxRequests = 3
    MaxCommands = 3
    MaxCalls = 4
    Written <- MCWritten

SYMMETRY Symmetry

CHECK_DEADLOCK FALSE

INVARIANTS
    ConfigTypeOK
    AcceptedRulesAreKept
    WrittenRulesDecide
    SilentUntilStarted
    SequencesRunOn
    LastCommandWins
    SameRequestsSameReplies
