CONSTANTS
    Providers = {1}
    Requests = {"r1"}
    MaxGeneration = 2
    MaxTime = 1
    MaxRestarts = 0
    Retentions = {1}
    StaleFor = 1
SPECIFICATION Spec
INVARIANT RefreshUsesInstalledSet
