CONSTANTS
    s1 = s1
    s2 = s2
    r1 = r1
    r2 = r2
    m1 = m1
    m2 = m2
    Msg = {m1, m2}
    Session = {s1, s2}
    Reader = {r1, r2}
    Of <- BothOfS1
    Cap = 1
    TTL = 1
    MaxTime = 1
    NoSession = NoSession
SYMMETRY Symmetry
SPECIFICATION Spec
INVARIANT BacklogBounded
PROPERTY ShedsOldest
PROPERTY DeliversOnce
CHECK_DEADLOCK FALSE
