\* The same instance: b3, which serves m2 as b2 does, has a high score all the time.
SPECIFICATION HotSwapSpec
CONSTANTS
    b1 = b1
    b2 = b2
    b3 = b3
    m1 = m1
    m2 = m2
    Lookups = {k1}
    Reloads = {l1}
    ServerNames <- NamesAsked
    Domains <- DomainNames
    FromFiles <- KeptInFiles
    Lower <- LowerCase
    Generations = {1, 2}
    Empty = Empty
    Unreadable = Unreadable
    Issued <- IssuedBundles
    NoBundle = NoBundle
    Backends = {b1, b2, b3}
    Tables <- TableSet
    Models = {m1, m2}
    ai_models <- ModelsOf
    Fallbacks <- FallbackLists
    Scores <- ScoreRanges
    AnyModel = AnyModel
    NoBackend = NoBackend
    Workers = {w1, w2}
    Binaries <- PluginBinaries
    total_core_instances = 1
INVARIANT LoadFallsBack
CHECK_DEADLOCK TRUE
