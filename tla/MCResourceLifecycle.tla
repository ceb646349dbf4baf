------------------------ MODULE MCResourceLifecycle ------------------------
(* Small trees of systems, deployments and resources for TLC. *)
EXTENDS ResourceLifecycle, TLC

CONSTANTS s1, d1, d2, r1, r2, v1, m1, m2, x1, x2

\* one system with two deployments and a resource in each
WideSystemOf == d1 :> s1 @@ d2 :> s1
WideDeploymentOf == r1 :> d1 @@ r2 :> d2
WideServiceOf == r1 :> v1 @@ r2 :> v1

\* one deployment with one resource
FlatSystemOf == d1 :> s1
SingleDeploymentOf == r1 :> d1
SingleServiceOf == r1 :> v1

Apart == m1 :> x1 @@ m2 :> x2
Together == m1 :> x1 @@ m2 :> x1
=============================================================================
