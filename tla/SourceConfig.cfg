SPECIFICATION ConfigSpec

CONSTANTS
    Seeds <- MCSeeds
    Stream <- MCStream
    Numeral <- MCNumeral
    Alias <- MCAlias
    SubAlias <- MCSubAlias
    Catalog <- MCCatalog
    Fields <- MCFields
    Enums <- MCEnums
    SimDefaults <- MCSimDefaults
    SimTemplates <- MCSimTemplates
    Modulus = 3
    WordSize = 1000
    ClockRange = 60
    MaxMessages = 4
    MaxResets = 2
    MaxClock = 1
    SimMix <- MCSimMix
    Decimal <- MCDecimal
    Store = {"iso"}
    Zones <- MCZones
    Durations <- MCDurations
    MaxTPS = 100
    Configs <- MCAccepted
    Written <- MCWritten

CHECK_DEADLOCK FALSE

INVARIANTS
    ConfigTypeOK
    AcceptedOverridesResolve
    SetIsInEveryMessage
    WrittenMixIsFollowed
    SameSeedSameMessages
    STANsRunOn
    PANsAreValid
    ExpiryInWindow
