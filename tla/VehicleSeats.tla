---------------------------- MODULE VehicleSeats ----------------------------
(***************************************************************************)
(* What the server keeps about who sits where, and every operation that    *)
(* changes it.                                                             *)
(*                                                                         *)
(* The same fact is kept twice: each ped carries a record of its vehicle   *)
(* and seat (CServerHuman::m_nVehicleNetworkIndex, m_nSeat), and each      *)
(* vehicle carries a table of its "probable occupants"                     *)
(* (CServerVehicle::m_pProbableOccupants).  The two are written by two     *)
(* different paths: requests to enter or exit, which the server decides    *)
(* (MAFIAPACKET_HUMAN_USEVEHICLE_REQUEST), and the sync packets of the     *)
(* ped's syncer, which report what its game shows.  For                    *)
(* VEHICLE_STATE_AUTHORITY_MS after a decision the server's word stands.   *)
(*                                                                         *)
(* Positions, health, weapons and animations are left out.  So is          *)
(* CServerVehicle::m_Locked: nothing the server runs sets it, because the  *)
(* script property is commented out (MafiaServerManager.cpp:1427).         *)
(* This module puts no restriction on what sync packets report; the        *)
(* clients that ask first are module SeatRequests.                         *)
(***************************************************************************)
EXTENDS Integers

CONSTANTS Peds,       \* network objects of type ELEMENT_PED
          Civilians,  \* those a client registers itself: no player, no resource
          Vehicles,   \* network ids of vehicles
          Clients,    \* connected machines
          SeatCount,  \* ARRAY_COUNT(CServerVehicle::m_pProbableOccupants)
          Doors,      \* the doors a request may name
          Authority,  \* VEHICLE_STATE_AUTHORITY_MS, in ticks of this model
          TickMod,    \* 2^32, in ticks of this model: where the age of a decision wraps
          INVALID,    \* INVALID_NETWORK_ID
          NoPed, NoClient

ASSUME SeatsAssumption ==
  /\ Civilians \subseteq Peds
  /\ SeatCount \in Nat \ {0}
  /\ Doors \subseteq 0..20
  /\ Authority \in Nat
  /\ TickMod \in Nat
  /\ Authority < TickMod
  /\ INVALID \notin Vehicles
  /\ NoPed \notin Peds
  /\ NoClient \notin Clients

VARIABLES vehicles,  \* ids FromId(_, ELEMENT_VEHICLE) finds
          peds,      \* ids FromId(_, ELEMENT_PED) finds
          rec,       \* rec[p]: m_nVehicleNetworkIndex and m_nSeat of p
          slot,      \* slot[v][s]: m_pProbableOccupants[s] of v
          age,       \* GetTicks() - m_uiVehicleStateSetTicks, or Never
          syncer     \* GetSyncer() of peds and vehicles

seatVars == <<vehicles, peds, rec, slot, age, syncer>>

Seats == 0..(SeatCount - 1)
SeatField == -1..SeatCount           \* as packets carry it: SeatCount stands for all beyond the table
SeatRecord == -1..(SeatCount - 1)    \* as the record keeps it
VehicleField == Vehicles \cup {INVALID}
Place == [veh : VehicleField, seat : SeatRecord]
At(v, s) == [veh |-> v, seat |-> s]
OnFoot == At(INVALID, -1)
Never == TickMod                     \* m_bVehicleStateSet is false

(* The constructor leaves the seat at 0 and the vehicle invalid. *)
NewRecord == At(INVALID, 0)
NoOccupants == [s \in Seats |-> NoPed]

SeatsTypeOK ==
  /\ vehicles \subseteq Vehicles
  /\ peds \subseteq Peds
  /\ rec \in [Peds -> Place]
  /\ slot \in [Vehicles -> [Seats -> Peds \cup {NoPed}]]
  /\ age \in [Peds -> 0..TickMod]
  /\ syncer \in [Peds \cup Vehicles -> Clients \cup {NoClient}]

(* CServerVehicle::GetOccupant: the table's word counts only when the      *)
(* ped's own record agrees.                                                *)
GetOccupant(v, s) ==
  IF slot[v][s] \in Peds /\ rec[slot[v][s]] = At(v, s) THEN slot[v][s] ELSE NoPed

(* Fault: the flag alone is looked at, so the word stands for ever. *)
AuthoritativeForEver(p) == age[p] # Never

(* Fault: reports are believed at once. *)
AuthoritativeNever(p) == age[p] < 0

(* CServerHuman::IsVehicleStateAuthoritative.  The subtraction is unsigned *)
(* and the flag is never reset, so the state becomes authoritative again   *)
(* for a while each time the tick counter has gone round.                  *)
Authoritative(p) == age[p] < Authority

-----------------------------------------------------------------------------
(* The table after p's record goes from old to new on a sync packet: the   *)
(* old seat is emptied whoever is in it, and a change of seat within one   *)
(* vehicle, or a move to a vehicle that is not there, writes nothing.      *)

Empties(old, new, v, s) ==
  /\ old = At(v, s) /\ v \in vehicles
  /\ new.veh = INVALID \/ new.veh \in vehicles \ {v}

Fills(old, new, v, s) == new = At(v, s) /\ v \in vehicles /\ old.veh # v

SlotsAfterSync(p, old, new) ==
  [v \in Vehicles |-> [s \in Seats |->
     IF Empties(old, new, v, s) THEN NoPed
     ELSE IF Fills(old, new, v, s) THEN p
     ELSE slot[v][s]]]

(* Fault: a seat beyond the table is recorded as it comes. *)
ReportedRaw(v, s) == At(v, s)

(* What the sync packet's fields are read as. *)
Reported(v, s) == At(v, IF s \in Seats THEN s ELSE -1)

(* Fault: the syncer is believed while the server's word stands. *)
ReadSyncPacketAlways(p, v, s) ==
  /\ p \in peds
  /\ rec' = [rec EXCEPT ![p] = Reported(v, s)]
  /\ slot' = SlotsAfterSync(p, rec[p], Reported(v, s))
  /\ UNCHANGED <<vehicles, peds, age, syncer>>

(* CServerHuman::ReadSyncPacket, for a ped that PACKET_PLAYERSYNC found.   *)
(* Which client sent it is not looked at.                                  *)
ReadSyncPacket(p, v, s) ==
  LET new == IF Authoritative(p) THEN rec[p] ELSE Reported(v, s)
  IN  /\ p \in peds
      /\ rec' = [rec EXCEPT ![p] = new]
      /\ slot' = SlotsAfterSync(p, rec[p], new)
      /\ UNCHANGED <<vehicles, peds, age, syncer>>

-----------------------------------------------------------------------------
(* CServerHuman::LeaveVehicleSeat and EnterVehicleSeat, as what they make  *)
(* of the table, the records and the ages.                                 *)

SlotsWithout(p) ==
  [v \in Vehicles |-> [s \in Seats |->
     IF v \in vehicles /\ rec[p] = At(v, s) /\ slot[v][s] = p
     THEN NoPed ELSE slot[v][s]]]

(* Fault: whoever the table names is thrown out, wherever it sits by now. *)
DisplacedByTable(p, v, s) == {q \in Peds \ {p} : slot[v][s] = q}

(* The ped the entry of p throws out of seat s: the table names it and its *)
(* record says so too.                                                     *)
Displaced(p, v, s) ==
  {q \in Peds \ {p} : slot[v][s] = q /\ rec[q] = At(v, s)}

(* Fault: the vehicle is reset and the seat is not. *)
LeaveKeepingSeat(p) ==
  /\ slot' = SlotsWithout(p)
  /\ rec' = [rec EXCEPT ![p].veh = INVALID]
  /\ age' = [age EXCEPT ![p] = 0]

LeaveVehicleSeat(p) ==
  /\ slot' = SlotsWithout(p)
  /\ rec' = [rec EXCEPT ![p] = OnFoot]
  /\ age' = [age EXCEPT ![p] = 0]

(* Fault: the ped keeps the slot it had before. *)
EnterKeepingOldSlot(p, v, s) ==
  /\ slot' = [slot EXCEPT ![v][s] = p]
  /\ rec' = [q \in Peds |-> IF q = p THEN At(v, s)
                            ELSE IF q \in Displaced(p, v, s) THEN OnFoot
                            ELSE rec[q]]
  /\ age' = [q \in Peds |-> IF q \in {p} \cup Displaced(p, v, s) THEN 0
                            ELSE age[q]]

(* Fault: the decision is not stamped on the ped that is thrown out. *)
EnterStampingOne(p, v, s) ==
  /\ slot' = [SlotsWithout(p) EXCEPT ![v][s] = p]
  /\ rec' = [q \in Peds |-> IF q = p THEN At(v, s)
                            ELSE IF q \in Displaced(p, v, s) THEN OnFoot
                            ELSE rec[q]]
  /\ age' = [age EXCEPT ![p] = 0]

EnterVehicleSeat(p, v, s) ==
  /\ slot' = [SlotsWithout(p) EXCEPT ![v][s] = p]
  /\ rec' = [q \in Peds |-> IF q = p THEN At(v, s)
                            ELSE IF q \in Displaced(p, v, s) THEN OnFoot
                            ELSE rec[q]]
  /\ age' = [q \in Peds |-> IF q \in {p} \cup Displaced(p, v, s) THEN 0
                            ELSE age[q]]

(* A request is looked at when both objects exist and the ped's syncer     *)
(* asks.  Every other request is dropped without an answer.                *)
ValidRequest(c, p, v) ==
  p \in peds /\ v \in vehicles /\ syncer[p] = c

(* Hop-seats: in by the passenger door, over to the driver's seat. *)
SeatOfDoor(door, hop) == IF hop /\ door = 1 THEN 0 ELSE door

(* CNetObject::CanBeSyncer and SetSyncer belong to the network library:    *)
(* when the new driver's client may take the vehicle over is left open.    *)
DriverMayTakeOver(c, v, s) ==
  \/ s = 0 /\ syncer' = [syncer EXCEPT ![v] = c]
  \/ UNCHANGED syncer

(* An approved request to enter (the script did not veto it). *)
ApproveEnter(c, p, v, door, hop) ==
  LET s == SeatOfDoor(door, hop)
  IN  /\ ValidRequest(c, p, v)
      /\ s \in Seats
      /\ EnterVehicleSeat(p, v, s)
      /\ DriverMayTakeOver(c, v, s)
      /\ UNCHANGED <<vehicles, peds>>

(* An approved request to exit: out of wherever the ped is recorded, which *)
(* need not be the vehicle the request names.                              *)
ApproveExit(c, p, v) ==
  /\ ValidRequest(c, p, v)
  /\ LeaveVehicleSeat(p)
  /\ UNCHANGED <<vehicles, peds, syncer>>

-----------------------------------------------------------------------------
(* Objects come and go. *)

CreateVehicle(v, c) ==
  /\ v \notin vehicles
  /\ vehicles' = vehicles \cup {v}
  /\ syncer' = [syncer EXCEPT ![v] = c]
  /\ UNCHANGED <<peds, rec, slot, age>>

(* A script's ped or a client's player (which it syncs at once) starts out *)
(* of any vehicle.                                                         *)
CreateHuman(p, c) ==
  /\ p \in Peds \ (peds \cup Civilians)
  /\ peds' = peds \cup {p}
  /\ syncer' = [syncer EXCEPT ![p] = c]
  /\ UNCHANGED <<vehicles, rec, slot, age>>

(* MAFIAPACKET_PEER_CREATECIVILIAN: ReadCreatePacket takes the record as   *)
(* it comes and does not touch the table; then ReadSyncPacket runs against *)
(* that record.                                                            *)
CreateCivilian(p, c, created, v, s) ==
  /\ p \in Civilians \ peds
  /\ peds' = peds \cup {p}
  /\ rec' = [rec EXCEPT ![p] = Reported(v, s)]
  /\ slot' = SlotsAfterSync(p, created, Reported(v, s))
  /\ syncer' = [syncer EXCEPT ![p] = c]
  /\ UNCHANGED <<vehicles, age>>

(* Fault: the table holds plain pointers. *)
ForgetNotNulling(gone, table) ==
  /\ peds' = peds \ gone
  /\ rec' = [p \in Peds |-> IF p \in gone THEN NewRecord ELSE rec[p]]
  /\ age' = [p \in Peds |-> IF p \in gone THEN Never ELSE age[p]]
  /\ slot' = table

(* Weak<CServerHuman> goes null with the ped it points to; a ped that is   *)
(* gone is put back to what its constructor would leave.                   *)
Forget(gone, table) ==
  /\ peds' = peds \ gone
  /\ rec' = [p \in Peds |-> IF p \in gone THEN NewRecord ELSE rec[p]]
  /\ age' = [p \in Peds |-> IF p \in gone THEN Never ELSE age[p]]
  /\ slot' = [v \in Vehicles |-> [s \in Seats |->
                IF table[v][s] \in gone THEN NoPed ELSE table[v][s]]]

DestroyPed(p) ==
  /\ p \in peds
  /\ Forget({p}, slot)
  /\ syncer' = [syncer EXCEPT ![p] = NoClient]
  /\ UNCHANGED vehicles

(* CServerVehicle::Remove: civilians recorded in the vehicle go with it;   *)
(* the others are handed to WarpIntoVehicle, which does nothing, so their  *)
(* records go on naming the vehicle.                                       *)
RemovedWith(v) == {p \in peds \cap Civilians : rec[p].veh = v}

RemoveVehicle(v) ==
  /\ v \in vehicles
  /\ vehicles' = vehicles \ {v}
  /\ Forget(RemovedWith(v), [slot EXCEPT ![v] = NoOccupants])
  /\ syncer' = [o \in Peds \cup Vehicles |->
                  IF o \in {v} \cup RemovedWith(v) THEN NoClient ELSE syncer[o]]

(* PACKET_REQUESTSYNCER, the search for a new syncer and a disconnection.  *)
SetSyncer(o, c) ==
  /\ o \in peds \cup vehicles
  /\ syncer' = [syncer EXCEPT ![o] = c]
  /\ UNCHANGED <<vehicles, peds, rec, slot, age>>

(* One tick: every decision grows older, and its age wraps. *)
Older(a) == IF a = Never THEN Never ELSE IF a = TickMod - 1 THEN 0 ELSE a + 1

Tick ==
  /\ age' = [p \in Peds |-> Older(age[p])]
  /\ UNCHANGED <<vehicles, peds, rec, slot, syncer>>

-----------------------------------------------------------------------------
SeatsInit ==
  /\ vehicles = {}
  /\ peds = {}
  /\ rec = [p \in Peds |-> NewRecord]
  /\ slot = [v \in Vehicles |-> NoOccupants]
  /\ age = [p \in Peds |-> Never]
  /\ syncer = [o \in Peds \cup Vehicles |-> NoClient]

SeatsNext ==
  \/ \E p \in Peds, v \in VehicleField, s \in SeatField : ReadSyncPacket(p, v, s)
  \/ \E c \in Clients, p \in Peds, v \in Vehicles :
       \/ \E door \in Doors, hop \in BOOLEAN : ApproveEnter(c, p, v, door, hop)
       \/ ApproveExit(c, p, v)
  \/ \E v \in Vehicles, c \in Clients \cup {NoClient} : CreateVehicle(v, c)
  \/ \E p \in Peds, c \in Clients \cup {NoClient} : CreateHuman(p, c)
  \/ \E p \in Peds, c \in Clients, created \in [veh : VehicleField, seat : SeatField], v \in VehicleField, s \in SeatField :
       CreateCivilian(p, c, created, v, s)
  \/ \E p \in Peds : DestroyPed(p)
  \/ \E v \in Vehicles : RemoveVehicle(v)
  \/ \E o \in Peds \cup Vehicles, c \in Clients \cup {NoClient} : SetSyncer(o, c)
  \/ Tick

SeatsSpec == SeatsInit /\ [][SeatsNext]_seatVars

-----------------------------------------------------------------------------
(* A slot names only a ped that exists: the table holds weak pointers, so  *)
(* neither destroying a ped nor removing its vehicle may leave one behind  *)
(* that EnterVehicleSeat would write through.                              *)
SlotsAlive ==
  \A v \in Vehicles : \A s \in Seats :
    slot[v][s] # NoPed => v \in vehicles /\ slot[v][s] \in peds

(* While the server's word stands, only another decision moves the ped: a  *)
(* step that changes the record of an authoritative ped starts its         *)
(* authority anew (ServerHuman.h:66-68).                                   *)
AuthorityStands ==
  [][\A p \in peds \cap peds' :
       Authoritative(p) /\ rec'[p] # rec[p] => age'[p] = 0]_seatVars

(* An entry throws out the ped that sits in the seat taken and nobody      *)
(* else, in spite of slots that still name a ped which has moved on: when  *)
(* two peds are moved by one step, one has got the place the other lost.   *)
EvictionIsLocal ==
  [][\A p, q \in peds \cap peds' :
       p # q /\ rec'[p] # rec[p] /\ rec'[q] # rec[q]
         => rec'[p] = rec[q] \/ rec'[q] = rec[p]]_seatVars

(* What the comment in CServerHuman::ReadSyncPacket says of a ped outside  *)
(* its authority: "what the syncer reports is what corrects it".  After a  *)
(* report of a seat in an existing vehicle the occupant of that seat is    *)
(* the ped.                                                                *)
SyncCorrects ==
  [][\A p \in peds, v \in vehicles, s \in Seats :
       ReadSyncPacket(p, v, s) /\ ~Authoritative(p)
         => GetOccupant(v, s)' = p]_seatVars

(* What is left of it: a report corrects the table exactly when the ped    *)
(* comes from outside that vehicle or the table has it in that seat        *)
(* already; and whatever is reported, nobody's seat is touched but the one *)
(* the ped was recorded in and the one it is reported in.                  *)
CorrectsAcross ==
  [][\A p \in peds, v \in vehicles, s \in Seats :
       ReadSyncPacket(p, v, s) /\ ~Authoritative(p) =>
         /\ GetOccupant(v, s)' = p <=> rec[p].veh # v \/ slot[v][s] = p
         /\ \A w \in Vehicles, t \in Seats :
              At(w, t) \notin {rec[p], At(v, s)}
                => GetOccupant(w, t)' = GetOccupant(w, t)]_seatVars
=============================================================================
