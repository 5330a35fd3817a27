SPECIFICATION Spec
CONSTANTS
    w1 = w1  w2 = w2  w3 = w3  l1 = l1  l2 = l2  a1 = a1  k1 = k1  k2 = k2  k3 = k3
    NULL = NULL
    Stores = {w1}
    Lookups = {l1}
    Admins = {a1}
    Keys = {k1}
    KeyOf <- MCKeys
    Similar <- MCIdentity
    MaxIndex = 2
    MaxMishaps = 2
INVARIANT FallbackFinds
\* Every call ends and no new one is made: the model may stop.
CHECK_DEADLOCK FALSE
