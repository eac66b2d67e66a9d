SPECIFICATION PathSpec
CONSTANTS
    MaxImageDim = 8000
    Dims <- Boundaries
    Vocabularies <- BothVocabularies
    MaxSymbols = 6
    MaxPieces = 4
    MaxNamePieces = 2
    MaxSent = 3
    MaxSlot = 3
    MaxCategories = 2
    UsualRequests <- BoxAndPoint
    UsualSize <- Vga
    UsualAnswer <- OneAnswerEach
INVARIANTS
    NothingVanishes
    LabelsComeFromTheirRun
    GeometryInImage
    ProbeSeesEveryBlock
    OnlyGoodFramesAreAnswered
    EdgeDecides
    NeverDownscaled
    TokensWithinAdvertised
    RequestRecoverable
    BuildersAgree
    ClassifiedAsSent
PROPERTIES
    FrontendVouches
CHECK_DEADLOCK FALSE
