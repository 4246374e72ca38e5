SPECIFICATION Spec
CONSTANTS
    MaxHistory = 2
    MaxSources = 2
    Skew = 1
    MaxRows = 4
    MaxWindow = 2
    MaxCost = 5
    MaxRollupScopes = 2
    MaxRollupFacts = 4
    MaxVersions = 4
    MaxChanges = 3
    MaxContent = 3
    MaxTotalContent = 4
    MaxClock = 4
    MaxValidity = 3
    MinEvidence = 2
    MaxEvidence = 4
    MaxRecords = 3
    MaxBoot = 2
    Workspace <- MCWorkspace
    Responses <- MCResponses
    Records <- MCRecords
    CostInputs <- MCCostInputs
    ExpectedScopes <- MCExpectedScopes
    Factories <- MCFactories
    Requests <- MCRequests
    Offers <- MCOffers
    BundleInputs <- MCBundleInputs
    SnapshotInputs <- MCSnapshotInputs
    Handlers <- MCHandlers
INVARIANT ProjectionsAccepted
INVARIANT OmissionsDisclosed
INVARIANT OrderFree
INVARIANT FleetVerdictHonest
PROPERTY ReadyIsCurrent
CHECK_DEADLOCK FALSE
