SPECIFICATION FairSpec
CONSTANTS
    new1 = new1
    new2 = new2
    old = old
    closed = closed
    Instances <- MCInstances
    FeaturesIn <- MCFeaturesIn
    DeploymentsOut <- MCDeploymentsOut
    PeersOf <- MCPeersOf
    Identity <- MCIdentity
    MaxAttempts = 2
    TunnelsOf <- MCTunnelsOf
    Warmup = 2
INVARIANTS
    
    NothingLeaks
    ReturnsGradually
PROPERTIES
    ServesOrEnds
