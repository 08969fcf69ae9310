\* Two clients of one user that may not read, and a publisher.
SPECIFICATION FairSpec
CONSTANTS
    c1 = c1  c2 = c2  p1 = p1  ann = ann
    Clients = {c1, c2}
    User <- TwoOfOne
    Publishers = {p1}
    Server = Server
    MaxEvents = 3
INVARIANTS TypeOK PanicsOnlyIfEarly StartsThenInOrder
PROPERTIES PublishersProceed LeaversAreForgotten
CHECK_DEADLOCK FALSE
