\* One transfer with the real field limit: nothing here outgrows the field.
CONSTANTS
    Ids = {t1}
    MaxBlocks = 2
    MaxSource = 1
    FieldLimit = 255
SPECIFICATION Spec
INVARIANTS
    CompleteMeansAllSent
