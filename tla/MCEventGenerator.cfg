CONSTANTS
    c1 = c1
    c2 = c2
    c3 = c3
    g1 = g1
    level = level
    edge = edge
    Callers <- ThreeCallers
    Generators <- OneGenerator
    WaitSets <- BothKinds
    EdgeTriggered <- EdgeOnly
    PipeCapacity = 3
    MaxEvents = 1
SPECIFICATION Spec
INVARIANTS
    NotifyNeverBlocks
    EventNotLost
PROPERTIES
    LevelWaitEnds
