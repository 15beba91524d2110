SPECIFICATION Spec
CONSTANTS
    r1 = r1
    r2 = r2
    node = node
    leaf = leaf
    first = first
    second = second
    x = x
    y = y
    z = z
    Roots = {r1, r2}
    Types = {node, leaf}
    Ptrs <- MCPtrs
    Descs <- MCDescs
    Size <- MCSize
    Chars = {x, y, z}
    Regions = {first, second}
    RegionBase <- MCBase
    RegionEnd <- MCEnd
    StrEnd = 3
    QualSize = 2
    IntMax = 3
SYMMETRY Symmetry
INVARIANTS HeapSound GarbageFreed
PROPERTY Unnoticed
