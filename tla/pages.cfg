SPECIFICATION FairSpec
CONSTANTS
    Row <- Ids
    Limits <- Sizes
    FirstPages <- Beginnings
    DefaultLimit = 3
    NotANumber = NotANumber
INVARIANTS TypeOK WholeListSeen PagesAddUp
PROPERTIES NextPageIsTold WalkEnds
