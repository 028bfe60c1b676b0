SPECIFICATION StoreSpecMC
CONSTANTS
    v1 = v1
    v2 = v1
    Vals <- MCVals
    Update <- MCUpdate
    Keys = {k1, k2}
    Callers = {c1, c2}
    Observers = {o1, o2}
    Permanent = {o1}
    None = None
    OneLoop = TRUE
    MaxEvents = 5
CHECK_DEADLOCK FALSE
INVARIANTS
    LogSound
    

    
