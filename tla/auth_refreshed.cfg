SPECIFICATION Spec
CONSTANTS
    u1 = u1  p1 = p1  p2 = p2  t1 = t1  t2 = t2  t3 = t3
    q1 = q1  q2 = q2  q3 = q3  q4 = q4
    User = {u1}
    Password = {p1, p2}
    Token = {t1, t2, t3}
    UserOf <- OneUser
    NoToken = NoToken
    Request = {q1, q2, q3}
    Wishes <- NoWishes
SYMMETRY Interchangeable
CHECK_DEADLOCK FALSE
INVARIANT HandedTokensListed
