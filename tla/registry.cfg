SPECIFICATION Spec
CONSTANTS
    s1 = s1  a1 = a1  a2 = a2  n1 = n1  n2 = n2  q1 = q1  q2 = q2
    Service = {s1}
    Address = {a1, a2}
    Namespace = {n1, n2}
    Answers <- Selection
    Request = {q1, q2}
    NoNamespace = NoNamespace
SYMMETRY Interchangeable
INVARIANTS TypeOK BlockedForCause
PROPERTIES BoardSpec SteadyServiceConnects
