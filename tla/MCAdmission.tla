---------------------------- MODULE MCAdmission ----------------------------
(* A small instance of Admission for TLC: two clients behind one address. *)
EXTENDS Admission

CONSTANTS p1, p2, h1, h2, n1

TwoPeers == {p1, p2}
TwoHosts == {h1, h2}
OneHost == [p \in TwoPeers |-> h1]
TwoNames == {n1, ConsoleName}
Oldest == <<1, 0>>
SomeVersions == {<<0, 9, 1, 1>>, <<1, 0, 0, 0>>}
SomeFaults == {"FAILED"}
=============================================================================
