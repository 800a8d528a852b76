CONSTANTS
    p1 = p1
    p2 = p2
    Page = {p1, p2}
    File <- MCFile
    Uploads <- MCUploads
    Refused <- MCRefused
    UploadLists <- MCUploadLists
    Message = {"", "text"}
    Budgets <- MCBudgets
SPECIFICATION FairSpec
INVARIANTS
    TypeOK
    Projection
    StatusMirrorsBusy
    MirrorIsCurrent
    SessionIsTheConversation
    ViewerShowsItsFile
CHECK_DEADLOCK FALSE
PROPERTIES
    TurnsEnd
