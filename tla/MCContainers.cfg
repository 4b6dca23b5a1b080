CONSTANTS
    Value = {v1, v2}
    Raw = Raw
    Sizes <- OneToFour
    Node = {n1, n2, n3, n4}
    Null = Null
    MaxSize = 3
    Key <- OneToThree
SPECIFICATION ContainersSpec
INVARIANTS
    HoldTheirValues
    ViewsAgree
PROPERTIES
    ImplementTheirTypes
    ClearEnds
