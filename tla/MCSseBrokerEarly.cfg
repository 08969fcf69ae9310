\* A client that leaves before it is registered.
SPECIFICATION Spec
CONSTANTS
    c1 = c1  c2 = c2  p1 = p1  ann = ann
    Clients = {c1, c2}
    User <- TwoOfOne
    Publishers = {p1}
    Server = Server
    MaxEvents = 1
INVARIANTS NeverPanics
CHECK_DEADLOCK FALSE
