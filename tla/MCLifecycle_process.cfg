SPECIFICATION LifecycleSpec
CONSTANTS
    h1 = h1
    h2 = h2
    w1 = w1
    Handlers = {h1, h2}
    Watches = {w1}
    MaxEvents = 2
INVARIANTS
    LifecycleTypeOK
    ServingNeedsProbe
    SafeTeardown
    CrashNeedsOverlap
PROPERTIES
    HealthTracksPg
    DrainsAndExits
CHECK_DEADLOCK FALSE
