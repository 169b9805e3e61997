------------------------------ MODULE Seating ------------------------------
(***************************************************************************)
(* What the server promises about seats: every ped sits in at most one     *)
(* place of a vehicle that exists, every place holds at most one ped, and  *)
(* a ped's place changes only because the ped was let in or out, because   *)
(* another one took its seat, or because the ped or the vehicle went away. *)
(* There are no packets, no tables and no clocks here.                     *)
(***************************************************************************)
CONSTANTS Sitters, Cars, Chairs, Nowhere

VARIABLES cars, sits

seatingVars == <<cars, sits>>

Spot == [veh : Cars, seat : Chairs]

Init ==
  /\ cars = {}
  /\ sits = [p \in Sitters |-> Nowhere]

(* p takes a chair; whoever sat in it is out of it. *)
Sit(p, x) ==
  /\ x.veh \in cars
  /\ sits' = [q \in Sitters |-> IF q = p THEN x
                                ELSE IF sits[q] = x THEN Nowhere
                                ELSE sits[q]]
  /\ UNCHANGED cars

Rise(p) ==
  /\ sits' = [sits EXCEPT ![p] = Nowhere]
  /\ UNCHANGED cars

Bring(v) ==
  /\ v \notin cars
  /\ cars' = cars \cup {v}
  /\ UNCHANGED sits

Remove(v) ==
  /\ v \in cars
  /\ cars' = cars \ {v}
  /\ sits' = [p \in Sitters |-> IF sits[p] # Nowhere /\ sits[p].veh = v THEN Nowhere
                                ELSE sits[p]]

Next ==
  \/ \E p \in Sitters : Rise(p) \/ \E x \in Spot : Sit(p, x)
  \/ \E v \in Cars : Bring(v) \/ Remove(v)

Spec == Init /\ [][Next]_seatingVars

(* At most one ped in a place. *)
OneEach ==
  \A p, q \in Sitters : p # q /\ sits[p] # Nowhere => sits[p] # sits[q]
=============================================================================
