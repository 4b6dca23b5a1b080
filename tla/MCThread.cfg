CONSTANTS
    p1 = p1
    p2 = p2
    p3 = p3
    t1 = t1
    Nobody = Nobody
    Callers <- ThreeCallers
    Generators <- OneThread
    WaitSets <- NoWaitSet
    EdgeTriggered <- NoWaitSet
    PipeCapacity = 1
    MaxEvents = 1
    MaxCalls = 2
SPECIFICATION Spec
\* Every thread may have been created and destroyed.
CHECK_DEADLOCK FALSE
INVARIANTS
    NoUseAfterFree
    JoinedOnce
    EventMeansDone
    MutexesFreeWhenDestroyed
PROPERTIES
    JoinMeansExited
    CallsReturn
