CONSTANTS
    Obj = {a, b, c}
    MaxId = 3
    MaxLinks = 3
    MaxHeard = 3
SPECIFICATION RSpec
SYMMETRY Symmetry
INVARIANTS RTypeOK NoDangling IdsNameOneObject NeverHearsTooManyEnds
CHECK_DEADLOCK FALSE
