CONSTANTS
    Users = {u1}
    Passwords = {w1, w2}
    Tokens = {k1, k2}
    Resets = {x1}
    Requests = {r1, r2}
    None = None
    Limit = 3
    Window = 1
    MaxFailures = 2
    LockFor = 1
    ResetFor = 1
    RefreshFor = 1
    AccessFor = 1
    MaxTime = 4
    m1 = m1
    m2 = m2
    m3 = m3
    Runs = {m1, m2}
    Accuracy <- MCAccuracy
    Trainers = {t1}
    Loaders = {l1, l2}
    Promoters = {p1}
    Nil = Nil
    MaxBreaks = 1
    Retrievers = {a, b}
    d1 = d1
    d2 = d2
    d3 = d3
    Docs = {d1, d2, d3}
    Dim <- MCDim
    Selected = {d1}
    Hybrid = TRUE
    WordLengths = {1, 2, 4, 7}
    DocLengths = {0, 3, 5, 9}
    ChunkSize = 6
    Overlap = 3
    Texts <- MCTexts
    Budget = 8
    Contexts <- MCContexts
SYMMETRY ServiceSymmetry
SPECIFICATION ServiceSpec
INVARIANTS
    LockIsEarned
    
    WindowBound
    RegisteredIsFinished
    
    
    NothingLost
    ChunksSound
    BudgetFilled
PROPERTY LockOutlivesRaces
CHECK_DEADLOCK FALSE
