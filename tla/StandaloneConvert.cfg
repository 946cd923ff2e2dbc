SPECIFICATION Spec
CONSTANTS
    base = base
    app = app
    c1 = c1
    c2 = c2
    c3 = c3
    h1 = h1
    h2 = h2
    r1 = r1
    r2 = r2
    Layer = {base, app}
    Convertor = {c1, c2, c3}
    Image <- MCImage
    Host <- MCHost
    Repo <- MCRepo
    Modes <- MCModes
    None = None
    MaxRuns = 1
    MaxFaults = 1
    MaxLost = 1
    MaxCollect = 1
INVARIANTS
    TypeOK
    ImageIntact
    RowsNameTheirChain
    NamedBlobsWerePushed
    StackedOnParent
CHECK_DEADLOCK FALSE
