\* Eight bytes and sizes 0 to 3: room for three holes at once, exact and partial
\* fits, merges on the left, on the right and on both sides.
SPECIFICATION Spec
CONSTANTS
    Cap = 8
    Sizes = {0, 1, 2, 3}
INVARIANTS
    FreeListCanonical
    UsedExact
PROPERTY
    ImplementsArena
