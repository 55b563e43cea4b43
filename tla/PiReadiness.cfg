SPECIFICATION PiSpec
CONSTANTS
    Requirements = {r1}
    Contents = {blank, full}
    WithCriteria = {full}
    NewContent = blank
    Clients = {c1}
    Events = {e1}
    MaxStateVersion = 4
    None = None
INVARIANT CleanAnswerIsNotBlocked
