\* One driver whose phone reconnects before the server has given up the old socket.
SPECIFICATION Spec
CONSTANTS
    Driver = {d1}
    TestDriver = {}
    JobKind = {"ride", "errand"}
    Forgiven = {"errand"}
    Socket = {k1, k2}
    Search = {q1}
    None = None
    MaxChanges = 0
INVARIANT ConnectedIsOnline
CHECK_DEADLOCK FALSE
