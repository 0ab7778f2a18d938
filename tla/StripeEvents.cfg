\* Two threads, so that two deliveries of one event overlap.
CONSTANTS
    e1 = e1
    e2 = e2
    h1 = h1
    h2 = h2
    NoEvent = NoEvent
    Events = {e1, e2}
    Kind <- MCKind
    Threads = {h1, h2}
    MaxFaults = 2
    MaxExpiries = 1
SPECIFICATION Spec
INVARIANT HandledOncePerKey
INVARIANT OnlyFaultsLoseEvents
PROPERTY ByHandStands
SYMMETRY Sym
