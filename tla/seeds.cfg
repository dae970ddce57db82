\* Two instances that seed the catalog or the users, three that seed Ordering,
\* every deployment, with the retry policy of Identity and without.
SPECIFICATION MCSpec
CONSTANTS
    Instances = {i1, i2, i3}
    Deployments <- AllDeployments
    MaxFaults = 3
    Size = 2
    Block = 3
    Items <- Goods
    Policies = {TRUE, FALSE}
    None = None
INVARIANTS
    CatalogExplained
    CompleteSeed
    RacesAloneSeed
    ServesBoth
PROPERTIES
    StaysBroken
    StartsEnd
    StuckStaysStuck
    RestartsRecover
CHECK_DEADLOCK FALSE
