SPECIFICATION Spec
CONSTANTS
    u1 = u1  u2 = u2  u3 = u3  u4 = u4  e1 = e1  e2 = e2  e3 = e3
    o1 = o1  o2 = o2  o3 = o3  o4 = o4  q1 = q1  q2 = q2  q3 = q3
    NoUser = NoUser  NoRow = NoRow  NoOrganisation = NoOrganisation  NoJob = NoJob
    User = {u1, u2, u3}
    Email = {e1, e2, e3}
    Organisation = {o1, o2, o3}
    Request = {q1, q2}
    Seed <- AdminAndStaff
SYMMETRY Interchangeable
CHECK_DEADLOCK FALSE
INVARIANTS TypeOK OneAccountPerEmail
PROPERTIES NoPromotionFromBelow DirectorySpec OrganisationsBornOwned
