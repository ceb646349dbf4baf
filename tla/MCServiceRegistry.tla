-------------------------- MODULE MCServiceRegistry --------------------------
(* Services, addresses and a selection of protocols for TLC. *)
EXTENDS ServiceRegistry, TLC

CONSTANTS s1, a1, a2, n1, n2, q1, q2

Proto(n, main, methods, loads) ==
    [kind |-> "protocol", namespace |-> n, main |-> main, methods |-> methods,
     loads |-> loads]

Sound(n) == Proto(n, "service", Method, TRUE)

Selection == {Failing, Sound(n1), Sound(n2),
              Proto(n1, "absent", {}, TRUE)}

Interchangeable ==
    {f @@ g : f \in Permutations({a1, a2}), g \in Permutations({q1, q2})}
=============================================================================
