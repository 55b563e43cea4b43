SPECIFICATION Spec
CONSTANTS
    Requirements = {r1}
    Contents = {blank, full}
    WithCriteria = {full}
    NewContent = blank
    Clients = {c1}
    Events = {e1, e2}
    MaxStateVersion = 8
    None = None
SYMMETRY Symmetric
INVARIANTS
    TypeOK
    ApprovedContentWasAssessed
    ReadyIsReviewable
    AuditTellsStatus
    PromotesAtMostOnce
PROPERTIES
    DecisionBindsToReviewed
    NoLostUpdate
