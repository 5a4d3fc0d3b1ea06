SPECIFICATION Spec
CONSTANTS
    Threads = {t1, t2}
    Sandboxes = {a, b}
    Keys = {k1, k2, k3}
    Internals = {f}
    Indices = {i1, i2, i3}
    MaxCallbacks = 2
    Sizes = {1}
    None = None
    t1 = t1
    t2 = t2
    MaxDepth <- Depths
    MaxCreations = 2
    MaxChanges = 3
SYMMETRY Symmetry
INVARIANTS
    TablesExact
    AbortsOnlyWhenFull
PROPERTIES
    ImplementsCallbackTable
CHECK_DEADLOCK FALSE
