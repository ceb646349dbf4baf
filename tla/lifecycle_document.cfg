SPECIFICATION FairSpec
CONSTANTS
    s1 = s1  d1 = d1  d2 = d2  r1 = r1  r2 = r2   v1 = v1 
    m1 = m1  m2 = m2  x1 = x1  x2 = x2
    System = {s1}
    Deployment = {d1, d2}
    Resource = {r1, r2}
    Service = {v1}
    SystemOf <- WideSystemOf
    DeploymentOf <- WideDeploymentOf
    ServiceOf <- WideServiceOf
    Mutation = {m1, m2}
    Context = {x1}
    ContextOf <- Together
    Issued = {"create", "delete"}
PROPERTIES RemovesWhatWasAsked Answered

