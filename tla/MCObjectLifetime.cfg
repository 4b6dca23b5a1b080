CONSTANTS
    A = A
    B = B
    Modules = {A, B}
    Here = A
    Tables <- PassingTables
    Garbage = {1}
    MemorySize = 80
    MaxVariables = 2
    MaxObjects = 3
SPECIFICATION Spec
\* The function ends.
CHECK_DEADLOCK FALSE
INVARIANTS
    DestructorFindsObject
    ObjectsInOnePlace
