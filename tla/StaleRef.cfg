SPECIFICATION Spec
CONSTANTS
    a = a
    b = b
    o = o
    u = u
    h1 = h1
    h2 = h2
    Migrations = {a, b}
    Former = {o}
    Manual = {u}
    Hosts = {h1, h2}
    Attempts = 5
    Lag = 2
PROPERTIES
    OnlyStaleRemoved
CHECK_DEADLOCK FALSE
