SPECIFICATION FairSpec
CONSTANTS
    resp = resp
    req = req
    m1 = m1
    m2 = m2
    m3 = m3
    Nil = Nil
    Channel = {resp, req}
    AsyncChannel = {req}
    GatedChannel = {resp}
    Message = {m1, m2, m3}
    Size <- MCSize
    Delivery <- MCDelivery
    MaxMessages = 2
    MaxBytes = 2
    BudgetMessages = 2
    BudgetBytes = 3
    BatchLimit = 2
INVARIANTS
    TypeOK
    OneDuty
    NoLostWakeup
    MessageAccount
    BudgetAccount
    GateFirst
PROPERTY
    Drained
