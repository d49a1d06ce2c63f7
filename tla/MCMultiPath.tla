----------------------------- MODULE MCMultiPath -----------------------------
(* The paths of a connection for TLC: path objects are interchangeable.    *)
EXTENDS MultiPath, TLC

(* Without rare events.                                                    *)
UsualSpec == Init /\ [][Usual]_vars /\ Fairness

Symmetric == Permutations(PathIds)
=============================================================================
