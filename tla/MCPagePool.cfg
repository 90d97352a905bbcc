CONSTANTS
    cachePage = cachePage
    ioPage = ioPage
    Purposes = {cachePage, ioPage}
    Limit <- MCLimit
    SizeWidth = 3
    NoPurpose = NoPurpose
    Users = {u1, u2, u3}
    Capacity = 2
SPECIFICATION FairPoolSpec
INVARIANTS
    PagesUnique
    SizeIsLowerBound
    LevelsExact
PROPERTIES
    ImplementsAllocator
    SearchesEnd
