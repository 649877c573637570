SPECIFICATION MCSpec
CONSTANTS
    Elements <- MCElements
    Part = 2
    MaxCells = 6
    MaxEvents = 4
    Calls <- MCCalls
    Answers <- MCAnswers
    Arrivals <- MCArrivals
    SignatureAnswers <- MCSignatureAnswers
    OhttpRequests <- MCRequests
    Limit = 3
    MaxInformational = 1
    ChunkSize = 2
    MaxLength = 9
    MaxNames = 2
    FieldsLimit = 4
    Informational = {2}
    Final = {1, 3}
    Bodiless = {3}
    ContentCells = {1}
    MaxAnswer = 13
    FieldNames <- MCNames
    FieldValues <- MCValues
\* A call ends: the program may stop.
CHECK_DEADLOCK FALSE
INVARIANTS
    VerifiedIsDelivered
    SealsAreBound
    HeadersAreTheClients
    CleanEndIsWhole
    HonestIsAccepted
PROPERTIES
    SplitWhole
    OneReceiptId
    CompleteMessage
    NothingInClear
