SPECIFICATION PartsSpec
CONSTANTS
    Workers = {w1, w2}
    Nobody = Nobody
    Identities = {i, j}
    Kinds = {"login", "reauth", "revokeSession", "revokeAccount", "revokeOthers"}
    Limit = 2
    MaxInFlight = 3
    MaxTracked = 1
    MaxRequests = 3
    MaxMishaps = 1
    AccountKinds = {"create", "issue", "delete", "revoke"}
    Tunnels = {1}
    MaxAccountRequests = 3
    MaxAccountMishaps = 2
    MaxCerts = 2
    MaxProfileMishaps = 2
    TunnelKinds = {"password", "suspend", "restore", "terminate"}
    Rows = {1, 2}
    MaxTunnels = 2
    MaxTunnelRequests = 3
    MaxTunnelMishaps = 1
    BulkKinds = {"suspend", "revoke", "template"}
    Accounts = {1, 2}
    Templates = {"none", "t"}
    Devices = {1, 2}
    MaxBulkRequests = 2
    MaxBulkMishaps = 1
    Shares = {1, 2}
    MaxDownloads = 2
    MaxFailures = 2
    MaxTakes = 6
    MigrationKinds = {"replace", "imported", "tested", "preview", "retire"}
    Replacements = {1, 2}
    MaxMigrationRequests = 5
    MaxMigrationMishaps = 1
    MaxTransports = 3
    Logins = {"s"}
    MaxConnections = 1
    MaxPerSession = 1
    LockRequests = {"a", "b", "c"}
    Processes = {"p", "q"}
    ProcessOf <- Process
    LockKeys = {1, 2, 3}
    Slots = {0, 1}
    SlotOf <- SlotOfKey
    Images = {"a", "b"}
    NoImage = "none"
    First = "a"
    Samples = 2
    RetryLimit = 2
    MaxManual = 1
    MaxReleaseMishaps = 1
    MaxReleases = 1
    MaxPromotions = 2
    Responses = {1, 2}
    Budget = 3
    MaxBody = 3
    Bodies <- PollBodies
    MaxClients = 1
    MaxSubs = 1
    MaxSids = 2
    MaxFrames = 2
    MaxBridgeMishaps = 1
    Calls = {"execute", "listen"}
    Values = {1, 128, 129, 130}
    Cuts = {9, 300}
    MaxWord = 129
    MaxField = 128
    MaxSentence = 136
    MaxWords = 3
    MaxResponse = 145
    MaxReplies = 3
    MaxResponseWords = 7
    MaxApiRequests = 2
    MaxRecords = 3
    MaxStrays = 1
    Window = 5
SYMMETRY WorkerSymmetry
CHECK_DEADLOCK FALSE
INVARIANTS CredentialsAreGuarded TunnelsEnd MigrationKeepsAccess TransportsAreCounted LocksLeadOut PromotionIsSafe AnswersAreRead
PROPERTIES RevokesWithStanding AccountsFollowRouter ProvisioningIsClean BulkIsReported SharesAreLimited
