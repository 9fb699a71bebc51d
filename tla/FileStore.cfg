CONSTANTS
    PutCall = {p1, p2}
    DeleteCall = {d1}
    Sweeper = sweeper
    Temp = {t1, t2}
    Key = key
    Body = {whole, other}
    declared = whole
    Partial = partial
    None = None
SPECIFICATION FairSpec
PROPERTIES AtomicSpec PutsKeepTheirTemps LeftoversGo
CHECK_DEADLOCK FALSE
