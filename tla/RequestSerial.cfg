\* One handler: calls do not overlap and no statement fails.
CONSTANTS
    s1 = s1
    s2 = s2
    i1 = i1
    i2 = i2
    i3 = i3
    NoSub = NoSub
    Handlers = {h1}
    Subs = {s1, s2}
    Items = {i1, i2, i3}
    SubOf <- TwoAndOne
    HasDueAt = TRUE
    EventBound = 2
    MayFail = FALSE
SPECIFICATION FairSpec
INVARIANTS
    RequestMatchesSubmissions
    SubmissionMatchesItems
    SignalsMatchRequest
PROPERTIES
    LifecycleImplemented
