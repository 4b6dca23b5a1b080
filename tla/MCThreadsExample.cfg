CONSTANTS
    Main = Main
    Nobody = Nobody
    Callers <- MainOnly
    Generators <- ThreeThreads
    WaitSets <- MainOnly
    EdgeTriggered <- MainOnly
    PipeCapacity = 1
    MaxEvents = 1
    MaxCalls = 3
SPECIFICATION ExampleSpec
\* The example ends.
CHECK_DEADLOCK FALSE
INVARIANTS
    TerminationNotMissed
    NothingLeftBehind
PROPERTIES
    ExampleEnds
