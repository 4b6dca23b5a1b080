CONSTANTS
    Vars <- VarsMC
    Primitives <- PrimitivesMC
    Bodies <- BodiesMC
    Roots <- RootsMC
    Methods <- MethodsMC
    Hash <- HashMC
    VTABLE_SIZE = 2
    WordBits = 8
    MaxCalls = 4
SPECIFICATION Spec
INVARIANTS
    ArgumentsAgree
    CallsArrive
CHECK_DEADLOCK FALSE
