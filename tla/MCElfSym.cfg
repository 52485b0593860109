SPECIFICATION Spec
CONSTANTS
    foo = foo
    bar = bar
    baz = baz
    Names = {foo, bar, baz}
    Hash <- MCHash
    Loadable <- MCLoadable
    UnitNames = {foo}
    Overlap = FALSE
    MaxSyms = 4
    MaxDefs = 2
INVARIANTS HashExact RelocsExact LocalsFirst
PROPERTIES VisibilityNarrows ImplementsResolution
