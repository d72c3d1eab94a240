\* Two or three threads meet; two batches, up to three requests, a stock in
\* halves of a piece; catalogues of two to four rows, of which a page has two
\* and the limit is four.
CONSTANTS
    i1 = i1
    i2 = i2
    h1 = h1
    h2 = h2
    s1 = s1
    s2 = s2
    Importers = {i1, i2}
    HttpPullers = {h1, h2}
    SsePullers = {s1, s2}
    PoolSize = 2
    Unit = 2
    Batches = {"b1", "b2"}
    Warehouses = {"w1"}
    PageSize = 2
    MaxRows = 4
    MaxEdits = 1
    MaxChanges = 1
    MaxCrashes = 1
    Pulls <- MCPulls
    Catalogues <- MCCatalogues
    FirstCatalogue <- TwoGoods
    FirstKeys <- MCFirstKeys
    Crews <- MCCrews
SPECIFICATION Spec
INVARIANTS
    TypeOK
    StocksAreRecorded
    AnswersTrue
    CostsOfTheLatest
    CatalogueIsOneReading
    NothingIsLeaked
PROPERTY
    LedgerIsKept
CHECK_DEADLOCK FALSE
