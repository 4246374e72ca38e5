SPECIFICATION Spec
CONSTANTS
    Attempts = 2
    Window = 2
    MaxAddresses = 2
    KeyLife = 2
    MaxOverlap = 1
    GuardCapacity = 1
    TransactionTTL = 1
    MaxTransactions = 1
    SessionLife = 1
    Leeway = 0
    Providers <- MCProviders
    STS <- MCSTS
    Slots = {1, 2, 3, 4}
    Workloads <- MCWorkloads
    Rows0 <- MCRows0
INVARIANTS RevocationHolds OneSuccessor AttemptsBounded TrustedKeyFresh SpentOnce
CHECK_DEADLOCK FALSE
