------------------------- MODULE VehicleSeatsProofs -------------------------
(***************************************************************************)
(* What holds of the records and the tables whatever the sync packets say, *)
(* for any number of peds, vehicles and seats.                             *)
(***************************************************************************)
EXTENDS VehicleSeats, TLAPS

(* A report is stored as a record: any seat beyond the table becomes -1.   *)
LEMMA ReportedType ==
  ASSUME NEW v \in VehicleField, NEW s \in SeatField
  PROVE  Reported(v, s) \in Place
  BY SeatsAssumption DEF Reported, At, Place, SeatRecord, SeatField, Seats

(* A ped's age stays within the counter's range as it wraps.               *)
LEMMA OlderType ==
  ASSUME NEW a \in 0..TickMod
  PROVE  Older(a) \in 0..TickMod
  BY SeatsAssumption DEF Older, Never

(* Making the peds in gone forgotten keeps the types.                      *)
LEMMA ForgetType ==
  ASSUME SeatsTypeOK, NEW gone, NEW table \in [Vehicles -> [Seats -> Peds \cup {NoPed}]],
         Forget(gone, table)
  PROVE  /\ peds' \subseteq Peds
         /\ rec' \in [Peds -> Place]
         /\ slot' \in [Vehicles -> [Seats -> Peds \cup {NoPed}]]
         /\ age' \in [Peds -> 0..TickMod]
  <1>1. NewRecord \in Place
    BY SeatsAssumption DEF NewRecord, At, Place, VehicleField, SeatRecord
  <1>2. Never \in 0..TickMod
    BY SeatsAssumption DEF Never
  <1>3. QED
    BY <1>1, <1>2 DEF Forget, SeatsTypeOK

(* The table after a sync packet is a table.                               *)
LEMMA SlotsAfterSyncType ==
  ASSUME SeatsTypeOK, NEW p \in Peds, NEW old, NEW new
  PROVE  SlotsAfterSync(p, old, new) \in [Vehicles -> [Seats -> Peds \cup {NoPed}]]
  BY DEF SlotsAfterSync, SeatsTypeOK

LEMMA SeatsNextType ==
  ASSUME SeatsTypeOK, [SeatsNext]_seatVars
  PROVE  SeatsTypeOK'
  <1>1. CASE UNCHANGED seatVars
    BY <1>1 DEF seatVars, SeatsTypeOK
  <1>2. ASSUME NEW p \in Peds, NEW v \in VehicleField, NEW s \in SeatField,
               ReadSyncPacket(p, v, s)
        PROVE  SeatsTypeOK'
    <2>1. rec' \in [Peds -> Place]
      BY <1>2, ReportedType DEF ReadSyncPacket, SeatsTypeOK
    <2>2. slot' \in [Vehicles -> [Seats -> Peds \cup {NoPed}]]
      BY <1>2, SlotsAfterSyncType DEF ReadSyncPacket
    <2>3. QED
      BY <1>2, <2>1, <2>2 DEF ReadSyncPacket, SeatsTypeOK
  <1>3. ASSUME NEW c \in Clients, NEW p \in Peds, NEW v \in Vehicles,
               NEW door \in Doors, NEW hop \in BOOLEAN,
               ApproveEnter(c, p, v, door, hop)
        PROVE  SeatsTypeOK'
    <2> DEFINE s == SeatOfDoor(door, hop)
    <2>1. s \in Seats
      BY <1>3 DEF ApproveEnter
    <2> HIDE DEF s
    <2>2. At(v, s) \in Place /\ OnFoot \in Place /\ 0 \in 0..TickMod
      BY <2>1, SeatsAssumption
      DEF At, OnFoot, Place, VehicleField, SeatRecord, Seats
    <2>3. EnterVehicleSeat(p, v, s) /\ DriverMayTakeOver(c, v, s)
          /\ UNCHANGED <<vehicles, peds>>
      BY <1>3 DEF ApproveEnter, s
    <2>4. rec' \in [Peds -> Place] /\ age' \in [Peds -> 0..TickMod]
      BY <2>2, <2>3 DEF EnterVehicleSeat, SeatsTypeOK
    <2>5. slot' \in [Vehicles -> [Seats -> Peds \cup {NoPed}]]
      BY <2>1, <2>3 DEF EnterVehicleSeat, SlotsWithout, SeatsTypeOK
    <2>6. syncer' \in [Peds \cup Vehicles -> Clients \cup {NoClient}]
      BY <2>3 DEF DriverMayTakeOver, SeatsTypeOK
    <2>7. QED
      BY <2>3, <2>4, <2>5, <2>6 DEF SeatsTypeOK
  <1>4. ASSUME NEW c \in Clients, NEW p \in Peds, NEW v \in Vehicles,
               ApproveExit(c, p, v)
        PROVE  SeatsTypeOK'
    <2>1. OnFoot \in Place /\ 0 \in 0..TickMod
      BY SeatsAssumption DEF At, OnFoot, Place, VehicleField, SeatRecord
    <2>2. QED
      BY <1>4, <2>1 DEF ApproveExit, LeaveVehicleSeat, SlotsWithout, SeatsTypeOK
  <1>5. ASSUME NEW v \in Vehicles, NEW c \in Clients \cup {NoClient}, CreateVehicle(v, c)
        PROVE  SeatsTypeOK'
    BY <1>5 DEF CreateVehicle, SeatsTypeOK
  <1>6. ASSUME NEW p \in Peds, NEW c \in Clients \cup {NoClient}, CreateHuman(p, c)
        PROVE  SeatsTypeOK'
    BY <1>6 DEF CreateHuman, SeatsTypeOK
  <1>7. ASSUME NEW p \in Peds, NEW c \in Clients, NEW created,
               NEW v \in VehicleField, NEW s \in SeatField,
               CreateCivilian(p, c, created, v, s)
        PROVE  SeatsTypeOK'
    <2>1. rec' \in [Peds -> Place]
      BY <1>7, ReportedType DEF CreateCivilian, SeatsTypeOK
    <2>2. slot' \in [Vehicles -> [Seats -> Peds \cup {NoPed}]]
      BY <1>7, SlotsAfterSyncType DEF CreateCivilian
    <2>3. QED
      BY <1>7, <2>1, <2>2 DEF CreateCivilian, SeatsTypeOK
  <1>8. ASSUME NEW p \in Peds, DestroyPed(p)
        PROVE  SeatsTypeOK'
    BY <1>8, ForgetType DEF DestroyPed, SeatsTypeOK
  <1>9. ASSUME NEW v \in Vehicles, RemoveVehicle(v)
        PROVE  SeatsTypeOK'
    <2>1. [slot EXCEPT ![v] = NoOccupants] \in [Vehicles -> [Seats -> Peds \cup {NoPed}]]
      BY DEF NoOccupants, SeatsTypeOK
    <2>2. QED
      BY <1>9, <2>1, ForgetType DEF RemoveVehicle, SeatsTypeOK
  <1>10. ASSUME NEW o \in Peds \cup Vehicles, NEW c \in Clients \cup {NoClient}, SetSyncer(o, c)
         PROVE  SeatsTypeOK'
    BY <1>10 DEF SetSyncer, SeatsTypeOK
  <1>11. CASE Tick
    BY <1>11, OlderType DEF Tick, SeatsTypeOK
  <1>12. QED
    BY <1>1, <1>2, <1>3, <1>4, <1>5, <1>6, <1>7, <1>8, <1>9, <1>10, <1>11 DEF SeatsNext

LEMMA SeatsInitType == SeatsInit => SeatsTypeOK
  BY SeatsAssumption
  DEF SeatsInit, SeatsTypeOK, NewRecord, At, Place, VehicleField, SeatRecord,
      NoOccupants, Never

(* Type correctness: records, tables and ages keep their shape.            *)
THEOREM SeatsTypeCorrect == SeatsSpec => []SeatsTypeOK
  BY SeatsInitType, SeatsNextType, PTL DEF SeatsSpec

-----------------------------------------------------------------------------
(* A vehicle's table names only peds that exist, and only while it does.   *)

LEMMA SlotsAliveStep ==
  ASSUME SeatsTypeOK, SlotsAlive, [SeatsNext]_seatVars
  PROVE  SlotsAlive'
  <1> SUFFICES ASSUME NEW w \in Vehicles, NEW t \in Seats, slot'[w][t] # NoPed
               PROVE  w \in vehicles' /\ slot'[w][t] \in peds'
    BY DEF SlotsAlive
  <1> DEFINE Was == slot[w][t] # NoPed => w \in vehicles /\ slot[w][t] \in peds
  <1>0. Was
    BY DEF SlotsAlive
  <1>a. ASSUME slot'[w][t] = slot[w][t], vehicles \subseteq vehicles', peds \subseteq peds'
        PROVE  w \in vehicles' /\ slot'[w][t] \in peds'
    BY <1>0, <1>a
  <1>b. ASSUME NEW p \in peds', NEW old, NEW new,
               slot' = SlotsAfterSync(p, old, new), vehicles' = vehicles, peds \subseteq peds'
        PROVE  w \in vehicles' /\ slot'[w][t] \in peds'
    BY <1>0, <1>b DEF SlotsAfterSync, Empties, Fills
  <1>c. ASSUME NEW gone, NEW table \in [Vehicles -> [Seats -> Peds \cup {NoPed}]],
               Forget(gone, table), table[w][t] = slot[w][t] \/ table[w][t] = NoPed,
               table[w][t] # NoPed => w \in vehicles'
        PROVE  w \in vehicles' /\ slot'[w][t] \in peds'
    <2>1. slot'[w][t] = table[w][t] /\ table[w][t] \notin gone
      BY <1>c DEF Forget
    <2>2. QED
      BY <1>0, <1>c, <2>1 DEF Forget
  <1>1. CASE UNCHANGED seatVars
    BY <1>1, <1>a DEF seatVars
  <1>2. ASSUME NEW p \in Peds, NEW v \in VehicleField, NEW s \in SeatField,
               ReadSyncPacket(p, v, s)
        PROVE  w \in vehicles' /\ slot'[w][t] \in peds'
    BY <1>2, <1>b DEF ReadSyncPacket
  <1>3. ASSUME NEW c \in Clients, NEW p \in Peds, NEW v \in Vehicles,
               NEW door \in Doors, NEW hop \in BOOLEAN,
               ApproveEnter(c, p, v, door, hop)
        PROVE  w \in vehicles' /\ slot'[w][t] \in peds'
    <2> DEFINE s == SeatOfDoor(door, hop)
    <2>1. s \in Seats /\ v \in vehicles /\ p \in peds
          /\ vehicles' = vehicles /\ peds' = peds
          /\ slot' = [SlotsWithout(p) EXCEPT ![v][s] = p]
      BY <1>3 DEF ApproveEnter, ValidRequest, EnterVehicleSeat
    <2> HIDE DEF s
    <2>2. (slot'[w][t] = p /\ w = v) \/ slot'[w][t] = SlotsWithout(p)[w][t]
      BY <2>1 DEF SlotsWithout
    <2>3. QED
      BY <1>0, <2>1, <2>2 DEF SlotsWithout
  <1>4. ASSUME NEW c \in Clients, NEW p \in Peds, NEW v \in Vehicles, ApproveExit(c, p, v)
        PROVE  w \in vehicles' /\ slot'[w][t] \in peds'
    BY <1>0, <1>4 DEF ApproveExit, LeaveVehicleSeat, SlotsWithout
  <1>5. ASSUME NEW v \in Vehicles, NEW c \in Clients \cup {NoClient}, CreateVehicle(v, c)
        PROVE  w \in vehicles' /\ slot'[w][t] \in peds'
    BY <1>5, <1>a DEF CreateVehicle
  <1>6. ASSUME NEW p \in Peds, NEW c \in Clients \cup {NoClient}, CreateHuman(p, c)
        PROVE  w \in vehicles' /\ slot'[w][t] \in peds'
    BY <1>6, <1>a DEF CreateHuman
  <1>7. ASSUME NEW p \in Peds, NEW c \in Clients, NEW created,
               NEW v \in VehicleField, NEW s \in SeatField,
               CreateCivilian(p, c, created, v, s)
        PROVE  w \in vehicles' /\ slot'[w][t] \in peds'
    BY <1>7, <1>b DEF CreateCivilian
  <1>8. ASSUME NEW p \in Peds, DestroyPed(p)
        PROVE  w \in vehicles' /\ slot'[w][t] \in peds'
    BY <1>8, <1>0, <1>c DEF DestroyPed, SeatsTypeOK
  <1>9. ASSUME NEW v \in Vehicles, RemoveVehicle(v)
        PROVE  w \in vehicles' /\ slot'[w][t] \in peds'
    <2> DEFINE table == [slot EXCEPT ![v] = NoOccupants]
    <2>1. table \in [Vehicles -> [Seats -> Peds \cup {NoPed}]]
      BY DEF NoOccupants, SeatsTypeOK
    <2>2. table[w][t] = IF w = v THEN NoPed ELSE slot[w][t]
      BY DEF NoOccupants, SeatsTypeOK
    <2>3. Forget(RemovedWith(v), table) /\ vehicles' = vehicles \ {v}
      BY <1>9 DEF RemoveVehicle
    <2> HIDE DEF table
    <2>4. QED
      BY <1>0, <1>c, <2>1, <2>2, <2>3
  <1>10. ASSUME NEW o \in Peds \cup Vehicles, NEW c \in Clients \cup {NoClient}, SetSyncer(o, c)
         PROVE  w \in vehicles' /\ slot'[w][t] \in peds'
    BY <1>10, <1>a DEF SetSyncer
  <1>11. CASE Tick
    BY <1>11, <1>a DEF Tick
  <1>12. QED
    BY <1>1, <1>2, <1>3, <1>4, <1>5, <1>6, <1>7, <1>8, <1>9, <1>10, <1>11 DEF SeatsNext

(* No slot outlives the ped it names or the vehicle it belongs to.         *)
THEOREM NoDanglingSlot == SeatsSpec => []SlotsAlive
  <1>1. SeatsInit => SlotsAlive
    BY DEF SeatsInit, SlotsAlive, NoOccupants
  <1>2. QED
    BY <1>1, SeatsTypeCorrect, SlotsAliveStep, PTL DEF SeatsSpec

-----------------------------------------------------------------------------
(* The server's word stands: an authoritative ped is moved only by a new   *)
(* decision, whichever packets arrive.                                     *)
THEOREM WordStands == SeatsSpec => AuthorityStands
  <1> DEFINE Stands == \A p \in peds \cap peds' :
                         Authoritative(p) /\ rec'[p] # rec[p] => age'[p] = 0
  <1>1. ASSUME SeatsTypeOK, SeatsNext PROVE Stands
    <2> SUFFICES ASSUME NEW q \in Peds, q \in peds, q \in peds',
                        Authoritative(q), rec'[q] # rec[q]
                 PROVE  age'[q] = 0
      BY <1>1 DEF SeatsTypeOK
    <2>0. rec \in [Peds -> Place] /\ age \in [Peds -> 0..TickMod]
      BY <1>1 DEF SeatsTypeOK
    <2>1. ASSUME NEW p \in Peds, NEW v \in VehicleField, NEW s \in SeatField,
                 ReadSyncPacket(p, v, s)
          PROVE  FALSE
      BY <2>0, <2>1 DEF ReadSyncPacket
    <2>2. ASSUME NEW c \in Clients, NEW p \in Peds, NEW v \in Vehicles,
                 NEW door \in Doors, NEW hop \in BOOLEAN,
                 ApproveEnter(c, p, v, door, hop)
          PROVE  age'[q] = 0
      BY <2>0, <2>2 DEF ApproveEnter, EnterVehicleSeat
    <2>3. ASSUME NEW c \in Clients, NEW p \in Peds, NEW v \in Vehicles, ApproveExit(c, p, v)
          PROVE  age'[q] = 0
      BY <2>0, <2>3 DEF ApproveExit, LeaveVehicleSeat
    <2>4. ASSUME NEW p \in Peds, NEW c \in Clients, NEW created,
                 NEW v \in VehicleField, NEW s \in SeatField,
                 CreateCivilian(p, c, created, v, s)
          PROVE  FALSE
      BY <2>0, <2>4 DEF CreateCivilian
    <2>5. ASSUME NEW p \in Peds, DestroyPed(p) PROVE FALSE
      BY <2>0, <2>5 DEF DestroyPed, Forget
    <2>6. ASSUME NEW v \in Vehicles, RemoveVehicle(v) PROVE FALSE
      BY <2>0, <2>6 DEF RemoveVehicle, Forget
    <2>7. QED
      BY <1>1, <2>1, <2>2, <2>3, <2>4, <2>5, <2>6
      DEF SeatsNext, CreateVehicle, CreateHuman, SetSyncer, Tick
  <1>2. ASSUME SeatsTypeOK, [SeatsNext]_seatVars PROVE [Stands]_seatVars
    BY <1>1, <1>2
  <1>3. QED
    BY <1>2, SeatsTypeCorrect, PTL DEF SeatsSpec, AuthorityStands

-----------------------------------------------------------------------------
(* An entry moves the ped that enters and at most the one whose seat it    *)
(* takes; no other operation moves two peds at once.                       *)
THEOREM EvictionLocal == SeatsSpec => EvictionIsLocal
  <1> DEFINE Local ==
        \A p, q \in peds \cap peds' :
          p # q /\ rec'[p] # rec[p] /\ rec'[q] # rec[q]
            => rec'[p] = rec[q] \/ rec'[q] = rec[p]
  <1>1. ASSUME SeatsTypeOK, SeatsNext PROVE Local
    <2> SUFFICES ASSUME NEW a \in Peds, NEW b \in Peds,
                        a \in peds, b \in peds, a \in peds', b \in peds',
                        a # b, rec'[a] # rec[a], rec'[b] # rec[b]
                 PROVE  rec'[a] = rec[b] \/ rec'[b] = rec[a]
      BY <1>1 DEF SeatsTypeOK
    <2>0. rec \in [Peds -> Place]
      BY <1>1 DEF SeatsTypeOK
    <2>1. ASSUME NEW p \in Peds, NEW v \in VehicleField, NEW s \in SeatField,
                 ReadSyncPacket(p, v, s)
          PROVE  FALSE
      BY <2>0, <2>1 DEF ReadSyncPacket
    <2>2. ASSUME NEW c \in Clients, NEW p \in Peds, NEW v \in Vehicles,
                 NEW door \in Doors, NEW hop \in BOOLEAN,
                 ApproveEnter(c, p, v, door, hop)
          PROVE  rec'[a] = rec[b] \/ rec'[b] = rec[a]
      BY <2>0, <2>2 DEF ApproveEnter, EnterVehicleSeat, Displaced
    <2>3. ASSUME NEW c \in Clients, NEW p \in Peds, NEW v \in Vehicles, ApproveExit(c, p, v)
          PROVE  FALSE
      BY <2>0, <2>3 DEF ApproveExit, LeaveVehicleSeat
    <2>4. ASSUME NEW p \in Peds, NEW c \in Clients, NEW created,
                 NEW v \in VehicleField, NEW s \in SeatField,
                 CreateCivilian(p, c, created, v, s)
          PROVE  FALSE
      BY <2>0, <2>4 DEF CreateCivilian
    <2>5. ASSUME NEW p \in Peds, DestroyPed(p) PROVE FALSE
      BY <2>0, <2>5 DEF DestroyPed, Forget
    <2>6. ASSUME NEW v \in Vehicles, RemoveVehicle(v) PROVE FALSE
      BY <2>0, <2>6 DEF RemoveVehicle, Forget
    <2>7. QED
      BY <1>1, <2>1, <2>2, <2>3, <2>4, <2>5, <2>6
      DEF SeatsNext, CreateVehicle, CreateHuman, SetSyncer, Tick
  <1>2. ASSUME SeatsTypeOK, [SeatsNext]_seatVars PROVE [Local]_seatVars
    BY <1>1, <1>2
  <1>3. QED
    BY <1>2, SeatsTypeCorrect, PTL DEF SeatsSpec, EvictionIsLocal

-----------------------------------------------------------------------------
(* How far a report corrects the table, whatever was reported and decided  *)
(* before (ServerHuman.cpp:122 says that it always does).                  *)

LEMMA ReportedSlots ==
  ASSUME SeatsTypeOK, NEW p \in peds, NEW v \in vehicles, NEW s \in Seats,
         ReadSyncPacket(p, v, s), ~Authoritative(p)
  PROVE  /\ rec' = [rec EXCEPT ![p] = At(v, s)]
         /\ \A w \in Vehicles, t \in Seats :
              slot'[w][t] = IF Empties(rec[p], At(v, s), w, t) THEN NoPed
                            ELSE IF Fills(rec[p], At(v, s), w, t) THEN p
                            ELSE slot[w][t]
  <1>1. Reported(v, s) = At(v, s)
    BY DEF Reported
  <1>2. rec' = [rec EXCEPT ![p] = At(v, s)] /\ slot' = SlotsAfterSync(p, rec[p], At(v, s))
    BY <1>1 DEF ReadSyncPacket
  <1>3. QED
    BY <1>2 DEF SlotsAfterSync

(* A report of a seat makes the ped its occupant exactly when the ped      *)
(* comes from outside the vehicle or was in the table there already, and   *)
(* touches nobody else's seat but the one the ped was recorded in.         *)
THEOREM ReportsCorrectAcross == SeatsSpec => CorrectsAcross
  <1> DEFINE Corrects ==
        \A p \in peds, v \in vehicles, s \in Seats :
          ReadSyncPacket(p, v, s) /\ ~Authoritative(p) =>
            /\ GetOccupant(v, s)' = p <=> rec[p].veh # v \/ slot[v][s] = p
            /\ \A w \in Vehicles, t \in Seats :
                 At(w, t) \notin {rec[p], At(v, s)}
                   => GetOccupant(w, t)' = GetOccupant(w, t)
  <1>1. ASSUME SeatsTypeOK, NEW p \in peds, NEW v \in vehicles, NEW s \in Seats,
               ReadSyncPacket(p, v, s), ~Authoritative(p)
        PROVE  GetOccupant(v, s)' = p <=> rec[p].veh # v \/ slot[v][s] = p
    <2>1. p \in Peds /\ v \in Vehicles /\ p # NoPed /\ rec[p] \in Place
      BY <1>1, SeatsAssumption DEF SeatsTypeOK
    <2>2. rec'[p] = At(v, s)
      BY <1>1, <2>1, ReportedSlots DEF SeatsTypeOK
    <2>3. ~Empties(rec[p], At(v, s), v, s)
      BY <1>1, <2>1, SeatsAssumption DEF Empties, At
    <2>4. Fills(rec[p], At(v, s), v, s) <=> rec[p].veh # v
      BY DEF Fills
    <2>5. slot'[v][s] = IF rec[p].veh # v THEN p ELSE slot[v][s]
      BY <1>1, <2>1, <2>3, <2>4, ReportedSlots
    <2>6. GetOccupant(v, s)' = p <=> slot'[v][s] = p
      BY <2>1, <2>2 DEF GetOccupant
    <2>7. QED
      BY <2>5, <2>6
  <1>2. ASSUME SeatsTypeOK, NEW p \in peds, NEW v \in vehicles, NEW s \in Seats,
               ReadSyncPacket(p, v, s), ~Authoritative(p),
               NEW w \in Vehicles, NEW t \in Seats, At(w, t) \notin {rec[p], At(v, s)}
        PROVE  GetOccupant(w, t)' = GetOccupant(w, t)
    <2>1. slot'[w][t] = slot[w][t]
      BY <1>2, ReportedSlots DEF Empties, Fills
    <2>2. \A q \in Peds : rec'[q] = At(w, t) <=> rec[q] = At(w, t)
      BY <1>2, ReportedSlots DEF SeatsTypeOK
    <2>3. QED
      BY <2>1, <2>2 DEF GetOccupant
  <1>3. SeatsTypeOK => Corrects
    BY <1>1, <1>2
  <1>4. SeatsTypeOK => [Corrects]_seatVars
    BY <1>3
  <1>5. QED
    BY <1>4, SeatsTypeCorrect, PTL DEF CorrectsAcross
=============================================================================
