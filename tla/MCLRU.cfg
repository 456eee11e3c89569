SPECIFICATION Spec
CONSTANTS
    k1 = k1
    k2 = k2
    k3 = k3
    w1 = w1
    Key <- ThreeKeys
    Count = 2
    Walker <- OneWalker
    MaxNodes = 5
    NoKey = NoKey
INVARIANTS ListOK WithinCount Forward WalkComplete
PROPERTY Refines
