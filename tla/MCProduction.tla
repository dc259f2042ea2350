---------------------------- MODULE MCProduction -----------------------------
(* Instances of Production for TLC: a barracks makes units and upgrades, a *)
(* tower only upgrades.                                                    *)
EXTENDS Production

CONSTANTS barracks, tower, unit, upgrade

OfBarracks == {unit, upgrade}
OfTower == {upgrade}
MakesOf == [e \in Producers |-> IF e = tower THEN OfTower ELSE OfBarracks]
CostOf == [p \in Productions |-> IF p = unit THEN 1 ELSE 2]
DurationOf == [p \in Productions |-> IF p = unit THEN 1 ELSE 3]
=============================================================================
