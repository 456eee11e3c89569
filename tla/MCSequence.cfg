SPECIFICATION Spec
CONSTANTS
    t1 = t1 t2 = t2 t3 = t3
    Tx <- MCTx
    NoTx = NoTx
    Switches = {"standard", "no_gap"}
    MaxDraws = 4
    MaxEdits = 2
SYMMETRY Symmetry
INVARIANTS UniqueSinceSwitch NoGap
