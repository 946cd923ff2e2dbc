SPECIFICATION Spec
CONSTANTS
    top = top
    sub = sub
    amd = amd
    arm = arm
    vm = vm
    sbom = sbom
    Nodes <- ImageNodes
    Root = top
    Kind <- ImageKind
    Parent <- ImageParent
    Limit = 2
INVARIANTS TypeOK BuildsBounded SuccessIsWhole
PROPERTY BuildReturns
CHECK_DEADLOCK FALSE
