----------------------------- MODULE MCSession -----------------------------
(* Small instances of Session for TLC. *)
EXTENDS Session

CONSTANTS p1, p2, p3, n1, n2

ThreePeers == {p1, p2, p3}
AllNames == {n1, n2, ConsoleName}
=============================================================================
