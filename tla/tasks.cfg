CONSTANTS
    t1 = t1
    t2 = t2
    a = a
    b = b
    s1 = s1
    u1 = u1
    u2 = u2
    Task = {t1, t2}
    Update = {u1, u2}
    Tenant = {a}
    TenantOf <- Together
    Asker <- OneAsker
    Session = {s1}
    Silent = {t2}
    Precise = {s1}
    ListLimit = 2
    MaxFaults = 1
    NoTask = NoTask
SPECIFICATION Spec
INVARIANT EndToldOnce
PROPERTY OneMentionPerSpell
PROPERTY QuietWorkIsRaised
