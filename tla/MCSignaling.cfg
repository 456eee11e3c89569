SPECIFICATION Spec
CONSTANTS
    w1 = w1 w2 = w2 rd = rd
    t1 = t1 t2 = t2 t3 = t3
    x = x y = y Def = Def
    Proc <- ThreeProcs
    Thread <- ThreeThreads
    procOf <- OneThreadEach
    Key <- OneKey
    MayModify <- WritersModify
    Callers <- HttpRpcOrCron
    Faults = {"retry", "commit"}
    MaxWrites = 2
INVARIANTS  NoInvalidationLoop
