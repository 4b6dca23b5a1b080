CONSTANTS
    Types <- ExceptionNames
    Parent <- ExceptionParent
    Profiles <- PassingProfiles
SPECIFICATION Spec
INVARIANTS
    ActionsInTurn
    ArrivesAtGoal
    RunsInNormalState
    PadsWellFormed
