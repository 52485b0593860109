SPECIFICATION Spec
CONSTANTS
    m1 = m1
    m2 = m2
    h1 = h1
    h2 = h2
    Macros = {m1, m2}
    Headers = {h1, h2}
    Main = Main
    None = None
    Lines <- Repertoire
    Contents <- MCContents
    MainLines <- MCMainLines
    MaxDefines = 1
    MaxNested = 1
    IncludeStackSize = 1
    IfdefStackSize = 2
    MaxStale = 1
    MaxLines = 4
INVARIANTS GroupsSelected DefinesExact CacheExact
PROPERTIES BorrowedIsRefused StaleUntouched ImplementsCondInclusion
