CONSTANTS
    None = None
SPECIFICATION Spec
INVARIANTS
    TypeOK
    ImportedDictionary
