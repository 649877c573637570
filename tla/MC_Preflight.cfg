SPECIFICATION MCSpec
CONSTANTS
    Cases <- MCCases
    Deployments <- MCDeployments
    Files <- MCFiles
    FileAnswers <- MCFileAnswers
    Pages <- MCPages
    Payloads <- MCPayloads
    NrasAnswers <- MCNrasAnswers
    JwksAnswers <- MCJwksAnswers
    Hub <- MCHub
    CursorSize <- MCCursorSize
    Repositories = {"org/app", "org/manager", "org/fork"}
    Digests = {"d1", "d2", "d3", "d4"}
    ImageDigests = {"d1", "d2", "d3", "d4"}
    Refs = {"refs/main", "refs/old"}
    Commits = {"c1", "c2"}
    ClientNonce = "n"
    MaxLink = 3
    MaxCursor = 1
    MaxPages = 2
    MaxEntries = 2
    MaxPage = 2
    MaxTotal = 3
    MaxFile = 1
    MaxTime = 3
    MaxFaults = 3
INVARIANTS
    NeverStranded
    ApprovedIsBuilt
    FetchIsConfined
    GpuVerdictIsFresh
PROPERTY ImplementsPreflight
