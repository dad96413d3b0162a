SPECIFICATION FairSpec
CONSTANTS
    Saves = {a, b}
    Kinds = {sy}
    Importers = {i1, i2}
INVARIANTS
    TypeOK
    SavesAreCarried
    ImportsOnlySettledSaves
    AcknowledgedIsImported
    OneRequestPerGeneration
PROPERTIES
    ImportsNeverRegress
    SavesAreEventuallyRequested
CHECK_DEADLOCK FALSE
