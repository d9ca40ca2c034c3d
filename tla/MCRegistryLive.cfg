SPECIFICATION FairSpec
CONSTANTS
    t1 = t1
    t2 = t2
    t3 = t3
    c1 = c1
    c2 = c2
    i1 = i1
    i2 = i2
    r1 = r1
    Tunnels = {t1, t3}
    Calls = {c1, c2}
    Instances = {i1, i2}
    Routes = {r1}
    InstanceOf <- TwoInstances
    RoutesOf <- AllRoutes
    RouteOf <- SameRoute
    RouteMaxInFlight <- OneEach
    MaxTunnels = 1
    MaxTunnelsPerInstance = 1
    MaxInFlightPerInstance = 2
    MaxInFlightRequests = 2
CHECK_DEADLOCK FALSE
PROPERTIES
    CallsReturn
    DrainingTunnelsLeave
