CONSTANTS
    w1 = w1
    w2 = w2
    Reader = Reader
    Queue = Queue
    Nobody = Nobody
    Writers <- TwoWriters
    Generators <- OneQueue
    WaitSets <- OneWaitSet
    EdgeTriggered <- ReaderWaits
    PipeCapacity = 1
    MaxEvents = 1
    MaxSends = 2
    NotifyMayFail = FALSE
SPECIFICATION Spec
\* The writers may stop sending while the reader waits.
CHECK_DEADLOCK FALSE
INVARIANTS
    AssertionsHold
    EventMatchesContents
    NoLostWakeup
PROPERTIES
    WakeMeansMessage
    DeliversEverything
