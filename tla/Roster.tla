------------------------------- MODULE Roster -------------------------------
(***************************************************************************)
(* What anybody who is told about the machines is promised to see: nothing *)
(* at first, then the table, and from then on one player at a time coming  *)
(* in at an index nobody has or going out.  No player is ever seen twice,  *)
(* no index is taken over from somebody else, the console keeps its own,   *)
(* and who is not told any more forgets.  Session implements this module   *)
(* for every client, Listing for the server listing.                       *)
(***************************************************************************)
EXTENDS Integers

CONSTANTS Peers, MaxMachines, Nobody, Console,
          Nothing     \* seen by who has not been told yet

VARIABLE shown

Slots == 0..(MaxMachines - 1)

(* A table with the console in its place and every player once.            *)
Whole(t) ==
  /\ t \in [Slots -> Peers \cup {Console, Nobody}]
  /\ t[MaxMachines - 1] = Console
  /\ \A i, j \in Slots : t[i] \in Peers /\ t[i] = t[j] => i = j

Begin == shown = Nothing /\ Whole(shown')

Appear(i, p) ==
  /\ shown # Nothing
  /\ shown[i] = Nobody /\ \A j \in Slots : shown[j] # p
  /\ shown' = [shown EXCEPT ![i] = p]

Disappear(i) ==
  /\ shown # Nothing
  /\ shown[i] \in Peers
  /\ shown' = [shown EXCEPT ![i] = Nobody]

Forget == shown' = Nothing

Init == shown = Nothing

Next ==
  \/ Begin \/ Forget
  \/ \E i \in Slots : Disappear(i) \/ \E p \in Peers : Appear(i, p)

Spec == Init /\ [][Next]_shown
=============================================================================
