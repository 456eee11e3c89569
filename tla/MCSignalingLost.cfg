SPECIFICATION Spec
CONSTANTS
    w1 = w1 w2 = w2 rd = rd
    t1 = t1 t2 = t2 t3 = t3
    x = x y = y Def = Def
    Proc <- TwoProcs
    Thread <- TwoThreads
    procOf <- TwoThreadsOfTwo
    Key <- TwoKeys
    MayModify <- EachItsOwn
    Callers <- BothRpc
    Faults = {}
    MaxWrites = 2
INVARIANTS UpToDate
