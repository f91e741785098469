CONSTANTS
    Users = {u1, u2}
    NKeys = 2
    MaxTexts = 1
    Parts = 2
SPECIFICATION Spec
INVARIANT TextUnderMainKey
CHECK_DEADLOCK FALSE
