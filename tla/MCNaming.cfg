CONSTANTS
    None = None
    Names <- PlainNames
    Kinds <- MCKinds
    Variants <- MCVariants
    MaxParams = 2
    MaxCounters = 3
SPECIFICATION Spec
INVARIANTS
    DeclaredNamesDistinct
