CONSTANTS
    Requests = {r1, r2}
    Ids = {i1, i2}
    Names = {n}
    Files = {f1, f2}
    Fields = {status, metrics}
    Values = {v0, v1}
    Unset = v0
    None = None
    MaxFaults = 1
SYMMETRY Symmetry
SPECIFICATION Spec
INVARIANTS UploadsAccounted DuplicatesRaced ToolCallsAudited
PROPERTY EditsKept
CHECK_DEADLOCK FALSE
