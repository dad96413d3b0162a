SPECIFICATION Spec
CONSTANTS
    i1 = i1
    i2 = i2
    q = q
    r1 = r1
    op = op
    b1 = b1
    b2 = b2
    Importers = {i1, i2}
    Requesters = {}
    Runs = {r1}
    Operators = {op}
    BrandOf <- MCBrandOf
    Missing = Missing
    Nobody = Nobody
    MaxRounds = 2
    LeaseTime = 2
    MaxTime = 3
INVARIANTS
    TypeOK
    ContentionIsReal
PROPERTIES ImplementsDocument
CHECK_DEADLOCK FALSE
