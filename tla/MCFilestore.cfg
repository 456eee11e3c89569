SPECIFICATION FairSpec
CONSTANTS
    Tx = {t1, t2}
    Attachments = {a1, a2}
    Files = {f1}
    None = None
INVARIANTS  UnlinkedIsMarked
 
