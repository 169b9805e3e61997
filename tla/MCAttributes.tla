---------------------------- MODULE MCAttributes ----------------------------
(* A small instance of Attributes for TLC. *)
EXTENDS Attributes

CONSTANTS c1, c2, x1, x2

TwoClients == {c1, c2}
TwoValues == {x1, x2}
=============================================================================
