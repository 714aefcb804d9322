SPECIFICATION Spec
CONSTANTS
    Sessions = {s1, s2}
    Sockets = {t1, t2, t3}
    None = None
    Capacity = 3
    ControlCapacity = 8
    MaxVersion = 1
    MaxQueued = 2
    MaxLost = 2
    MaxResumes = 2
SYMMETRY Alike
INVARIANT
    NewestResumeWins
CHECK_DEADLOCK FALSE
