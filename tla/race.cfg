SPECIFICATION Spec
CONSTANTS
    Targets = {t1, t2}
    Contents = {c1, c2}
    Workers = {w1, w2}
    Gcs <- NoGc
    Stages <- Stages2
    MaxSlot = 0
    MaxClock = 0
    None = None
    MaxLinks = 9
    CountsLinks = TRUE
    NoReplace = TRUE
    QueueCapacity = 0
    Cooldown = 1
    MayFail = FALSE
    Sweeping = FALSE
    UserKinds <- EditsAndDeletes
    Quiet = FALSE
SYMMETRY Symmetry
INVARIANTS OneStoreName
PROPERTIES StaysDeduplicated
CHECK_DEADLOCK FALSE
