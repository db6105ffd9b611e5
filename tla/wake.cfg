CONSTANTS
    s1 = s1
    s2 = s2
    t1 = t1
    t2 = t2
    Session = {s1, s2}
    Tenant = {t1}
    TenantOf <- Together
    Exempt = {}
    Limit = 1
    MaxCalls = 1
    MaxFaults = 1
    Recipient = {s1}
    Watching = TRUE
    NoTenant = NoTenant
SPECIFICATION Spec
PROPERTY NoHerd
PROPERTY AlarmIsLastResort
PROPERTY StuckMailIsChased
