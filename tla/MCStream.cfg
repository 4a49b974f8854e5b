SPECIFICATION FairSpec
CONSTANTS
    Magic <- MCMagic
    Types <- MCTypes
    RunScript <- MCRunScript
    Chars <- MCChars
    MaxText = 2
    Limit = 1
    MaxPackets = 3
INVARIANTS
    TypeOK
    ReceivedIsPrefix
    DamagedMeansTooLong
    NothingMadeUp
PROPERTIES
    ChannelSpec
    EachIsReceived
CHECK_DEADLOCK FALSE
