CONSTANTS
    Providers = {1}
    Requests = {"r1"}
    MaxGeneration = 2
    MaxTime = 3
    MaxRestarts = 1
    Retentions = {1, 2}
    StaleFor = 1
SPECIFICATION Spec
PROPERTY NewSetAsked
INVARIANTS
    TypeOK
    CurrentIsStored
