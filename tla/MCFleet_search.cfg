\* One driver on two connections and a search, while ops, jobs and debts change the
\* driver's standing twice.  The jobs are errands, whose query may succeed, fail
\* unnoticed, or, as that for a ride, take the search with it.
SPECIFICATION Spec
CONSTANTS
    Driver = {d1}
    TestDriver = {d1}
    JobKind = {"errand"}
    Forgiven = {"errand"}
    Socket = {k1, k2}
    Search = {q1}
    None = None
    MaxChanges = 2
SYMMETRY Symmetry
INVARIANTS TypeOK FoundAreEntitled
PROPERTY EvictionSpares
CHECK_DEADLOCK FALSE
