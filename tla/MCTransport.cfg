SPECIFICATION Spec
CONSTANTS
    Sessions = {s1, s2}
    Sockets = {t1, t2, t3}
    None = None
    Capacity = 3
    ControlCapacity = 8
    MaxVersion = 1
    MaxQueued = 3
    MaxLost = 2
    MaxResumes = 2
SYMMETRY Alike
INVARIANTS
    AttachmentsAgree
    PauseEnds
PROPERTIES
    ProgressNeedsEveryone
    ResumeSupersedes
CHECK_DEADLOCK FALSE
