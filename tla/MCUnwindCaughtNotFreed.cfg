CONSTANTS
    Types <- ExceptionNames
    Parent <- ExceptionParent
    Profiles <- CatchProfile
SPECIFICATION Spec
INVARIANT ExceptionsFreed
