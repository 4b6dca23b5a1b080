CONSTANTS
    c1 = c1
    Server = Server
    Clients <- OneClient
    Sizes <- OneOrTwo
    MaxHandles = 3
    Capacity = 1
    Backlog = 2
    MaxBytes = 2
SPECIFICATION Spec
INVARIANTS
    HandlesOwnedOnce
    BytesInOrder
PROPERTIES
    SyncCallsEnd
