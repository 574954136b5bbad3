CONSTANTS
    nbits = 81
    ntail = 31
    delta = 60
    maxcycles = 400
    SentMessages <- MCSent
    Fadings <- MCFadings
    NHash <- MCNHash
    Airs <- MCAirs
    Freqs = {0, 3, 4}
    Hashes <- MCHashes
    Options <- MCOptions
    MaxCandidates = 2
    MaxDecodes = 3
    MaxSpots = 2
    BlockLines = 1
    MaxRuns = 2
    c1 = c1
    c2 = c2
    c3 = c3
    Calls = {c1, c2, c3}
    NoCall = NoCall
    NoMessage = NoMessage
    Messages <- MCTexts
    Frequencies = {1000, 1010, 1011}
    Tolerance = 10
    Capacity = 3
    MaxAdditional = 2
    Hash <- MCHash
    Divisor12 = 2
    Divisor10 = 4
    TableSize = 3
    MaxAge = 0
    Reportable = {c1, c2}
    Payloads <- MCPayloads
    Passes = 2
    Jt9Lists <- MCJt9Lists
INIT DecodingInit
NEXT DecodingNext
INVARIANTS
    ResultsFaithful
    HeardResolvable
    OneResultEach
    NothingMissed
    MessagesRoundTrip
    CandidatesStrongest
    HopScheduleSound
    SubtractsDecoded
    FadedDecodes
    CoreSpotsHonest
CHECK_DEADLOCK FALSE
