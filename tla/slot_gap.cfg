SPECIFICATION Spec
CONSTANTS
    Targets = {t1, t2}
    Contents = {c1}
    Workers = {w1}
    Gcs = {g1}
    Stages <- Stages2
    MaxSlot = 1
    MaxClock = 2
    None = None
    MaxLinks = 2
    CountsLinks = TRUE
    NoReplace = TRUE
    QueueCapacity = 0
    Cooldown = 1
    MayFail = FALSE
    Sweeping = FALSE
    UserKinds <- Deletes
    Quiet = TRUE
SYMMETRY Symmetry
INVARIANTS Contiguous
CHECK_DEADLOCK FALSE
