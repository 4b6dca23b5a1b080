CONSTANTS
    Assignments <- TwoAssignments
    Predicates <- CallPredicates
    MaxStatements = 4
    MaxParts = 2
    MaxBuilt = 5
    C = C
    D = D
    I = I
    J = J
    m = m
    n = n
    Classes = {C, D}
    Interfaces = {I, J}
    Methods = {m, n}
    Programs <- MCPrograms
    MaxDepth = 20
    MaxRefs = 2
    A = A
    B = B
    Modules = {A, B}
    Tables <- MCTables
SPECIFICATION StaticSpec
\* No more is built, and there are no more references.
CHECK_DEADLOCK FALSE
INVARIANTS
    ExitsCoverOutcomes
    ReportsTrue
    ScopeIsExact
    CastsAreSound
    SatisfiesIsLargest
    LivenessBytesFree
    ModulesAgreeOnTypes
