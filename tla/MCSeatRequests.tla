--------------------------- MODULE MCSeatRequests ---------------------------
(* Small instances of SeatRequests for TLC. *)
EXTENDS SeatRequests

CONSTANTS p1, p2, c1, v1

BothPeds == {p1, p2}
OneCivilian == {p2}
OneVehicle == {v1}
OneClient == {c1}
AllDoors == {0, 1}
=============================================================================
