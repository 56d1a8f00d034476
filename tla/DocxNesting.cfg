SPECIFICATION Spec
CONSTANTS
    NoTier = NoTier
    MaxLength = 5
    Families <- NestingDocuments
INVARIANT NestingIsIdempotent
CHECK_DEADLOCK FALSE
