SPECIFICATION Spec
CONSTANTS
    m = m
    a = a
    b = b
    None = None
    Main = m
    Coexprs <- ThreeCoexprs
    Activators <- MainOnly
    MaxActs = 3
SYMMETRY CoexprSymmetry
INVARIANTS ReclaimInv ActivatorReady NoDangling ThreadsKept
