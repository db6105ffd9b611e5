CONSTANTS
    n1 = n1
    n2 = n2
    c1 = c1
    c2 = c2
    k1 = k1
    k2 = k2
    Node = {n1, n2}
    Conn = {c1, c2}
    Cmd = {k1, k2}
    PaneCmd = {k1, k2}
    QueueCap = 1
    Operated = {}
    NoNode = NoNode
    NoConn = NoConn
SYMMETRY Symmetry
SPECIFICATION Spec
INVARIANT PendingExact
INVARIANT RegistryConsistent
INVARIANT UnlinkedIsClosed
INVARIANT CommandsReachTarget
PROPERTY CallsAreHonest
CHECK_DEADLOCK FALSE
