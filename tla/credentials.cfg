SPECIFICATION Spec
CONSTANTS
    d1 = d1  q1 = q1  q2 = q2  n1 = n1  n2 = n2  s1 = s1  s2 = s2
    Deployment = {d1}
    Request = {q1, q2}
    Name = {n1, n2}
    Secret = {s1, s2}
    Provider = {"aws", "other"}
    Inputs <- Selection
    Absent = Absent
    Odd = Odd  None = None  Gone = Gone
SYMMETRY Interchangeable
INVARIANTS TypeOK WholeUnlessRaced ServicesHearWhatWasGiven
PROPERTY OthersAreKept
