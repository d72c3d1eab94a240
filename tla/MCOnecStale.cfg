\* One importer, two requests, and goods that move between them from one
\* warehouse to another.  The property is not expected to hold.
CONSTANTS
    i1 = i1
    i2 = i2
    h1 = h1
    h2 = h2
    s1 = s1
    s2 = s2
    Importers = {i1, i2}
    HttpPullers = {h1, h2}
    SsePullers = {s1, s2}
    PoolSize = 2
    Unit = 2
    Batches = {"b1", "b2"}
    Warehouses = {"w1"}
    PageSize = 2
    MaxRows = 4
    MaxEdits = 0
    MaxChanges = 0
    MaxCrashes = 0
    Pulls <- MCMoves
    Catalogues <- MCCatalogues
    FirstCatalogue <- TwoGoods
    FirstKeys <- MCFirstKeys
    Crews <- MCAlone
SPECIFICATION Spec
INVARIANT StocksAreTheLatest
CHECK_DEADLOCK FALSE
