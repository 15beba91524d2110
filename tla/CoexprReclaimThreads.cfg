SPECIFICATION Spec
CONSTANTS
    m = m
    a = a
    b = b
    None = None
    Main = m
    Coexprs <- ThreeCoexprs
    Activators <- ThreeCoexprs
    MaxActs = 2
SYMMETRY CoexprSymmetry
INVARIANTS ThreadsKept
