SPECIFICATION MCSpec
CONSTANTS
    Nodes = {n1, n2, n3, n4, n5}
    Small = {n1, n2, n3}
    Hidden = {n4}
    Unsupported = {n5}
    MaxLength = 3
    Inputs <- SmallGraphs
    PathLists <- TwoPaths
CHECK_DEADLOCK FALSE
INVARIANTS DfsTypeOK ResultDescends ResultReachesTheSame OnlyCyclesRemoved EveryPathIsFollowed
PROPERTY Returns
