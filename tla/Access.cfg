\* One session with a rotation, two edits; two visitors of a link of two uses.
CONSTANTS
    v1 = v1
    v2 = v2
    t0 = t0
    t1 = t1
    k2 = k2
    m1 = m1
    q1 = q1
    q2 = q2
    s1 = s1
    s2 = s2
    s3 = s3
    i1 = i1
    i2 = i2
    r1 = r1
    r2 = r2
    None = None
    Tokens = {t0, t1}
    FirstToken = t0
    Workspace = {1, 2}
    Client = {k2}
    Template = {m1}
    Request = {q1, q2}
    Submission = {s1, s2, s3}
    Item = {i1, i2}
    Recipient = {r1, r2}
    workspaceOf <- Tree
    requestOf <- Requests
    recipientOf <- Recipients
    submissionOf <- Submissions
    FileRow <- Files
    ExportRow <- Exports
    Assignable = {"organization_owner", "auditor_readonly"}
    EditBound = 2
    Visitors = {v1, v2}
    MaxUses = 2
    GrantBound = 3
SPECIFICATION AccessSpec
SYMMETRY VisitorSymmetry
\* A closed link, a revoked session and no more edits: nobody may enter.
CHECK_DEADLOCK FALSE
INVARIANTS
    CountWithinMaxUses
    GrantsAreCounted
    HandlersRunForTheEntitled
PROPERTIES
    ClosedIsFinal
