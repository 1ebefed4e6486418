\* Three requests, two commands beside them, one edit, one accident.
CONSTANTS
    q1 = q1  q2 = q2  q3 = q3  c1 = c1  c2 = c2
    outer = outer  inner = inner  app = app  app2 = app2
    None = None
    Root = {outer, inner}
    Label = {app, app2}
    Hints <- TwoHints
    Above <- Nested
    Request = {q1, q2, q3}
    Calls <- Traffic
    Command = {c1, c2}
    Orders <- TwoOrders
    MaxEdits <- EditOuter
    MaxFaults = 1
CHECK_DEADLOCK FALSE
SPECIFICATION Spec
INVARIANTS
    LabelsAndRootsUnique
    JobIndexesItsRequest
    StatusHasAJob
    AcknowledgedSurvive
    JobsDoubleOnlyIfRaced
