\* Two handlers overlap, and any statement of either may fail.
CONSTANTS
    s1 = s1
    s2 = s2
    i1 = i1
    i2 = i2
    i3 = i3
    NoSub = NoSub
    Handlers = {h1, h2}
    Subs = {s1}
    Items = {i1, i2}
    SubOf <- BothOfOne
    HasDueAt = FALSE
    EventBound = 0
    MayFail = TRUE
SPECIFICATION Spec
SYMMETRY HandlerSymmetry
INVARIANTS
    CompletedSubmissionsAreAnswered
