CONSTANTS
    None = None
    Names <- CollidingNames
    Kinds <- MCKinds
    Variants <- MCVariants
    MaxParams = 2
    MaxCounters = 3
SPECIFICATION Spec
INVARIANTS
    DeclaredNamesDistinct
