CONSTANTS
    d1 = d1
    d2 = d2
    a1 = a1
    a2 = a2
    k1 = k1
    q1 = q1
    q2 = q2
    p1 = p1
    o1 = o1
    Device = {d1, d2}
    Code = {a1, a2}
    Client = {k1}
    Redeemer = {q1, q2}
    Caller = {p1}
    Operator = {o1}
    Limit = 1
    TTL = 1
    MaxTime = 2
    NoGrant = NoGrant
    NoDevice = NoDevice
    NoCode = NoCode
    NoClient = NoClient
SYMMETRY Symmetry
SPECIFICATION Spec
INVARIANT OneDevicePerCode
INVARIANT GuessesBounded
PROPERTY KeepsItsWord
