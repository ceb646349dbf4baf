SPECIFICATION Spec
CONSTANTS
    c1 = c1  c2 = c2  q1 = q1  q2 = q2  q3 = q3  q4 = q4
    Code = {c1}
    Request = {q1, q2, q3, q4}
    Asking = {q1}
    Verifying = {q2, q3}
    Sweeping = {q4}
    Retries = 1
    Lifetime = 0
    SweepAge = 2
    MaxTime = 1
CHECK_DEADLOCK FALSE
INVARIANT UsedOnce
