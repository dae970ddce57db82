\* One pod with the preconfigured items, one failure.
SPECIFICATION FairSpec
CONSTANTS
    Instances = {i1}
    Deployments <- Preconfigured
    MaxFaults = 1
    Size = 2
    Block = 3
    Items <- Goods
PROPERTIES
    PodsRecover
CHECK_DEADLOCK FALSE
