CONSTANTS
    key_a = key_a
    key_b = key_b
    key_c = key_c
    key_d = key_d
    key_e = key_e
    Keys <- FiveKeys
    HashFns <- Hashes
    HSlots = 2
    HSegs = 3
    MaxHLoad = 1
    MinHLoad = 1
    Copies = 2
    MaxUnion = 2
    Null = Null
SYMMETRY EqualHash
SPECIFICATION Spec
INVARIANT ChainsSound
PROPERTY ImplementsIteration
