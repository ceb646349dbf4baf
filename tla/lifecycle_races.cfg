SPECIFICATION Spec
CONSTANTS
    s1 = s1  d1 = d1  d2 = d2  r1 = r1  r2 = r2   v1 = v1 
    m1 = m1  m2 = m2  x1 = x1  x2 = x2
    System = {s1}
    Deployment = {d1}
    Resource = {r1}
    Service = {v1}
    SystemOf <- FlatSystemOf
    DeploymentOf <- SingleDeploymentOf
    ServiceOf <- SingleServiceOf
    Mutation = {m1, m2}
    Context = {x1, x2}
    ContextOf <- Apart
    Issued = {"create", "update", "delete"}
INVARIANTS TypeOK NoSilentRemoval RowMatchesService CleanedStaysGone OkDeleteIsComplete
PROPERTY CatalogSpec
