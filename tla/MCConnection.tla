---------------------------- MODULE MCConnection ----------------------------
(* Behaviours to check: two packets of flight and one fault, three packets *)
(* (more than the server may send unasked) without a fault, with a client  *)
(* certificate, and a close with one fault.                                *)
EXTENDS Connection

Scenario(policy, flight, auth, nfaults, ncloses) ==
  [policy |-> policy, flight |-> flight, auth |-> auth, faults |-> nfaults, closes |-> ncloses]

MCScenarios ==
  {Scenario(p, 2, FALSE, 1, 0) : p \in {"accept", "retry"}}
  \cup {Scenario("busy", 1, FALSE, 1, 0), Scenario("accept", 3, FALSE, 0, 0),
        Scenario("accept", 1, TRUE, 1, 0)}
  \cup {Scenario("accept", 1, FALSE, 1, 1), Scenario("retry", 1, FALSE, 0, 1),
        Scenario("busy", 1, FALSE, 0, 1)}
=============================================================================
