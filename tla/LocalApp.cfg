SPECIFICATION Spec
CONSTANTS
    Apps <- MCApps
    Scopes <- MCScopes
    Requests <- MCRequests
    MaxRV = 3
    Workloads <- MCWorkloads
    MaxForwards = 1
    PreviewLifetime = 1
CHECK_DEADLOCK FALSE
INVARIANTS
    GateSound
    ReviewedIsWritten
    SlotsExact
    LeaseHonoured
PROPERTY
    RetiredIsTornDown
