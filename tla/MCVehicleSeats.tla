--------------------------- MODULE MCVehicleSeats ---------------------------
(* Small instances of VehicleSeats for TLC. *)
EXTENDS VehicleSeats, TLC

CONSTANTS p1, p2, c1, v1, v2

OneVehicle == {v1}
TwoVehicles == {v1, v2}
BothPeds == {p1, p2}
OneCivilian == {p2}
NoCivilian == {}
DoorsOfTwoSeats == {0, 1, 2}
OneClient == {c1}

VehicleSymmetry == Permutations(TwoVehicles)
=============================================================================
