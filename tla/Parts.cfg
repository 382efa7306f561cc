SPECIFICATION PartsSpec
CONSTANTS
    Ticks = 3
    Timeout = 2
    Change = 8
    Shifts <- MCShifts
    Epoch2000 = 5
    MaxWall = 42
    Thread = {main, paho}
    Minute = 2
    Hour = 4
    MaxSecond = 6
    Mac = {m1}
    Half = 4
    Wide = 32
    MaxId = 13
    Client = {c1, c2}
    NoClient = NoClient
    Setting = {v}
    Unset = Unset
    Settable <- MCSettable
    NoThread = NoThread
    MaxCalls = 3
    Path <- MCPath
    Names <- MCNames
    Texts <- MCTexts
SYMMETRY Symmetry
INVARIANTS TypeOK StampsExactOutsideFold NoneTimedOutEarly SilentFound
INVARIANTS FoundWhileIdsFit EarlierIdsNotFound OneInstance SameLogger ServerReadsParams
PROPERTIES MixBounded
PROPERTIES StrangersCoexist WillOnlyWhenLost
