SPECIFICATION Spec
CONSTANTS
    Targets = {t1, t2, t3}
    Contents = {c1}
    Workers = {w1}
    Gcs = {g1}
    Stages <- Stages2
    MaxSlot = 0
    MaxClock = 2
    None = None
    MaxLinks = 9
    CountsLinks = TRUE
    NoReplace = TRUE
    QueueCapacity = 0
    Cooldown = 1
    MayFail = FALSE
    Sweeping = FALSE
    UserKinds <- NoUser
    Quiet = TRUE
SYMMETRY Symmetry
PROPERTIES StaysDeduplicated
CHECK_DEADLOCK FALSE
