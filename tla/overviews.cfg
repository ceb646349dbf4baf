SPECIFICATION FairSpec
CONSTANTS
    d1 = d1  d2 = d2  r1 = r1  r2 = r2  r3 = r3
    Deployment = {d1, d2}
    Resource = {r1, r2, r3}
    Of <- Places
    Silent = {r3}
INVARIANTS TypeOK OverviewIsTrue SteadyAreAsked FailsForCause
PROPERTY HeldBySilenceOnly
