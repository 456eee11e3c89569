SPECIFICATION Spec
CONSTANTS
    c1 = c1 c2 = c2 c3 = c3
    k1 = k1 k2 = k2 k3 = k3
    app = app tmpl = tmpl
    Conn <- MCConn
    Dsn <- MCDsn
    Kept <- MCKept
    Cursor <- MCCursor
    MaxConn = 2
    NoConn = NoConn
SYMMETRY Symmetry
INVARIANTS ExclusiveLending PoolBounded NoIdleTransaction  
PROPERTY OnlyIdleEvicted
