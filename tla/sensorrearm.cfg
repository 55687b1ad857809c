SPECIFICATION SensorsSpec
CONSTANTS
    a1 = a1
    s1 = s1
    c1 = c1
    c2 = c2
    t1 = t1
    t2 = t2
    t3 = t3
    n1 = n1
    Nothing = Nothing
    Acquires = {a1}
    Sensors = {s1}
    Samplers = {c1, c2}
    TimerIds = {t1, t2, t3}
    Alarms = {n1}
    MaxAlarms = 2
    Periods = {2}
    Poll = 1
    MaxLate = 1
INVARIANTS PolledArmed
SYMMETRY Symmetric
