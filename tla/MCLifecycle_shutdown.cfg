SPECIFICATION LifecycleSpec
CONSTANTS
    h1 = h1
    h2 = h2
    w1 = w1
    Handlers = {h1}
    Watches = {}
    MaxEvents = 1
PROPERTIES
    ExitsAfterSignal
CHECK_DEADLOCK FALSE
