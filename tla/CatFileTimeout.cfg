SPECIFICATION Spec
CONSTANTS
    r1 = r1
    r2 = r2
    None = None
    Readers <- TwoReaders
    Specs <- MCSpecs
    Repository <- MCRepository
INVARIANT
    KilledIsReclaimed
