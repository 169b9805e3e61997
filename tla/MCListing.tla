----------------------------- MODULE MCListing -----------------------------
(* A small instance of ServerQuery, and with it of Listing, for TLC. *)
EXTENDS ServerQuery

CONSTANTS p1, p2, t1, t2

TwoPeers == {p1, p2}
TwoTitles == {t1, t2}
=============================================================================
