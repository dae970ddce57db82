SPECIFICATION MCSpec
CONSTANTS
    MaxPromises = 4
    MaxSettles = 2
    Values = {1}
INVARIANTS
    OutcomesRight
PROPERTIES
    SettledForGood
    WaitersAreTold
CHECK_DEADLOCK FALSE
