CONSTANTS
    a = a
    b = b
    w = w
    m1 = m1
    m2 = m2
    m3 = m3
    NULL = NULL
    Endpoints <- MCEndpoints
    Wakes <- MCWakes
    Fast <- MCFast
    Messages <- MCMessages2
    MaxHeld = 1
SYMMETRY MessageSymmetry2
SPECIFICATION Spec
PROPERTY RequestsLast
