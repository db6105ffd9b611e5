CONSTANTS
    n1 = n1
    c1 = c1
    c2 = c2
    Node = {n1}
    Conn = {c1, c2}
    Cmd = {}
    PaneCmd = {}
    QueueCap = 1
    Operated = {n1}
    MaxFaults = 3
    NoNode = NoNode
    NoConn = NoConn
SPECIFICATION PlaneSpec
PROPERTY NodeSettles
