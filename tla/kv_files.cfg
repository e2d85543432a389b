CONSTANTS
    Escape <- Escapes
    Rank <- Ranks
    Dotted <- DotLetters
    None = None
    Error = Error
    Keys <- AllKeys
    Bindings <- Bound
    Sizes = {1}
    StreamBindings <- Piped
    StreamSizes = {2}
    SizeLimit = 2
    Keeps <- KeepSome
    Adoption <- SweepAndKey
    Outside <- OutsideNames
    Foreign <- ForeignKeys
    Unparsable <- SpoiledKeys
    MaxValues = 3
SPECIFICATION Spec
INVARIANTS
    TypeOK
    WholeValues
    SizesAgree
    ResolutionAgrees
    PagesComplete
    PatternsAgree
PROPERTIES
    AdoptionSound
    ImplementsKeyValueMap
