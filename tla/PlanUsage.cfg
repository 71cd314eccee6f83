CONSTANTS
    c1 = c1
    c2 = c2
    r1 = r1
    r2 = r2
    None = None
    Call = {c1, c2}
    File <- Files
    Request = {r1, r2}
    Limit <- Plan
    LastMonth = 1
    MaxUploadBytes = 2
    AllowedMimeTypes = {"pdf", "docx"}
    EnvironmentHasKeys = {"email"}
    Production = FALSE
SPECIFICATION PlanSpec
SYMMETRY UsageSymmetry
\* Every call may have been made.
CHECK_DEADLOCK FALSE
INVARIANTS
    LimitsHold
    FilesAndObjectsAgree
    MailIsCounted
