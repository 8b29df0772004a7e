SPECIFICATION FairSpec
CONSTANTS
    Targets = {t1, t2}
    Contents = {c1}
    Workers = {w1, w2}
    Gcs <- NoGc
    Stages <- Stages2
    MaxSlot = 2
    MaxClock = 0
    None = None
    MaxLinks = 3
    CountsLinks = TRUE
    NoReplace = FALSE
    QueueCapacity = 0
    Cooldown = 1
    MayFail = FALSE
    Sweeping = FALSE
    UserKinds <- Deletes
    Quiet = TRUE
INVARIANTS SlotIntegrity CeilingOvershoot Contiguous
PROPERTIES WorkersReturn PartedByReplacementOnly
CHECK_DEADLOCK FALSE
