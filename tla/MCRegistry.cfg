SPECIFICATION Spec
CONSTANTS
    t1 = t1
    t2 = t2
    t3 = t3
    c1 = c1
    c2 = c2
    i1 = i1
    i2 = i2
    r1 = r1
    Tunnels = {t1, t2, t3}
    Calls = {c1, c2}
    Instances = {i1, i2}
    Routes = {r1}
    InstanceOf <- TwoInstances
    RoutesOf <- AllRoutes
    RouteOf <- SameRoute
    RouteMaxInFlight <- OneEach
    MaxTunnels = 2
    MaxTunnelsPerInstance = 1
    MaxInFlightPerInstance = 1
    MaxInFlightRequests = 2
CHECK_DEADLOCK FALSE
SYMMETRY Symmetry
INVARIANTS
    TypeOK
    AdmissionBounded
    SlotsConserved
    RequestsBounded
    NoReplay
    DrainedIsIdle
