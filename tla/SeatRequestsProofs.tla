------------------------- MODULE SeatRequestsProofs -------------------------
(***************************************************************************)
(* With clients that ask first and delays within the authority window, the *)
(* table and the records agree, no stale sync packet is believed, and the  *)
(* server keeps the promise of module Seating: for any number of peds,     *)
(* vehicles, seats, packets and answers under way, and any delays.         *)
(***************************************************************************)
EXTENDS SeatRequests, VehicleSeatsProofs, SequenceTheorems

-----------------------------------------------------------------------------
(* Every step of the composition is a step of VehicleSeats, or none of it. *)

LEMMA StepIsSeatStep ==
  ASSUME TypeOK, [Next]_vars
  PROVE  [SeatsNext]_seatVars
  <1>1. CASE UNCHANGED vars
    BY <1>1 DEF vars
  <1>2. ASSUME NEW p \in Peds, NEW v \in Vehicles, NEW door \in Doors, NEW hop \in BOOLEAN,
               RequestEnter(p, v, door, hop)
        PROVE  SeatsNext
    BY <1>2 DEF RequestEnter, SeatsNext
  <1>3. ASSUME NEW p \in Peds, NEW v \in Vehicles, RequestExit(p, v)
        PROVE  SeatsNext
    BY <1>3 DEF RequestExit, SeatsNext
  <1>4. ASSUME NEW p \in Peds, TakeAnswer(p) \/ DropVehicle(p) \/ SendSync(p)
        PROVE  UNCHANGED seatVars
    BY <1>4 DEF TakeAnswer, DropVehicle, SendSync
  <1>5. ASSUME NEW p \in Peds, ReceiveSync(p)
        PROVE  SeatsNext
    <2>1. PICK k \in syncs[p] : ReadSyncPacket(p, k.at.veh, k.at.seat)
      BY <1>5 DEF ReceiveSync
    <2>2. k.at \in RealPlace
      BY <2>1 DEF TypeOK, SyncPacket
    <2>3. k.at.veh \in VehicleField /\ k.at.seat \in SeatField
      BY <2>2, SeatsAssumption DEF RealPlace, At, OnFoot, VehicleField, SeatField, Seats
    <2>4. QED
      BY <2>1, <2>3 DEF SeatsNext
  <1>6. ASSUME NEW v \in Vehicles, AddVehicle(v) \/ DeleteVehicle(v)
        PROVE  SeatsNext
    BY <1>6 DEF AddVehicle, DeleteVehicle, SeatsNext
  <1>7. ASSUME NEW p \in Peds, NEW c \in Clients, AddPed(p, c)
        PROVE  SeatsNext
    <2>1. OnFoot \in [veh : VehicleField, seat : SeatField] /\ INVALID \in VehicleField
          /\ -1 \in SeatField
      BY SeatsAssumption DEF OnFoot, At, VehicleField, SeatField
    <2>2. QED
      BY <1>7, <2>1 DEF AddPed, SeatsNext
  <1>8. ASSUME NEW p \in Peds, DeletePed(p)
        PROVE  SeatsNext
    BY <1>8 DEF DeletePed, SeatsNext
  <1>9. CASE TimePasses
    BY <1>9 DEF TimePasses, SeatsNext
  <1>10. QED
    BY <1>1, <1>2, <1>3, <1>4, <1>5, <1>6, <1>7, <1>8, <1>9 DEF Next

(* A decision puts a ped in a seat of a vehicle or on foot, and announces  *)
(* exactly that.                                                           *)
LEMMA EnterEffect ==
  ASSUME SeatsTypeOK, NEW p \in Peds, NEW v \in Vehicles, NEW door \in Doors, NEW hop \in BOOLEAN,
         RequestEnter(p, v, door, hop)
  PROVE  \E s \in Seats :
           /\ p \in peds /\ v \in vehicles
           /\ UNCHANGED <<vehicles, peds, view, syncs>>
           /\ EnterVehicleSeat(p, v, s)
           /\ answers' = [q \in Peds |->
                            IF q \in {p} \cup Displaced(p, v, s)
                            THEN Append(answers[q], IF q = p THEN At(v, s) ELSE OnFoot)
                            ELSE answers[q]]
  <1> DEFINE s == SeatOfDoor(door, hop)
  <1>1. s \in Seats /\ p \in peds /\ v \in vehicles /\ EnterVehicleSeat(p, v, s)
        /\ UNCHANGED <<vehicles, peds>> /\ Announce({p} \cup Displaced(p, v, s))
    BY DEF RequestEnter, ApproveEnter, ValidRequest
  <1> HIDE DEF s
  <1>2. p \notin Displaced(p, v, s)
    BY DEF Displaced
  <1>3. \A q \in Peds : q \in {p} \cup Displaced(p, v, s) =>
          rec'[q] = IF q = p THEN At(v, s) ELSE OnFoot
    BY <1>1, <1>2 DEF EnterVehicleSeat
  <1>4. answers' = [q \in Peds |-> IF q \in {p} \cup Displaced(p, v, s)
                                   THEN Append(answers[q], IF q = p THEN At(v, s) ELSE OnFoot)
                                   ELSE answers[q]]
    BY <1>1, <1>3 DEF Announce
  <1>5. QED
    BY <1>1, <1>4 DEF Announce

LEMMA TypeStep ==
  ASSUME TypeOK, [Next]_vars
  PROVE  TypeOK'
  <1>0. SeatsTypeOK'
    BY StepIsSeatStep, SeatsNextType DEF TypeOK
  <1> DEFINE Games == /\ view' \in [Peds -> RealPlace]
                      /\ answers' \in [Peds -> Seq(RealPlace)]
                      /\ syncs' \in [Peds -> SUBSET SyncPacket]
  <1> SUFFICES Games
    BY <1>0 DEF TypeOK
  <1>f. OnFoot \in RealPlace
    BY DEF RealPlace
  <1>1. CASE UNCHANGED gameVars
    BY <1>1 DEF gameVars, TypeOK
  <1>2. ASSUME NEW p \in Peds, NEW v \in Vehicles, NEW door \in Doors, NEW hop \in BOOLEAN,
               RequestEnter(p, v, door, hop)
        PROVE  Games
    <2>1. PICK s \in Seats :
            /\ UNCHANGED <<view, syncs>>
            /\ answers' = [q \in Peds |->
                             IF q \in {p} \cup Displaced(p, v, s)
                             THEN Append(answers[q], IF q = p THEN At(v, s) ELSE OnFoot)
                             ELSE answers[q]]
      BY <1>2, EnterEffect DEF TypeOK
    <2>2. At(v, s) \in RealPlace
      BY DEF RealPlace
    <2>3. answers' \in [Peds -> Seq(RealPlace)]
      BY <2>1, <2>2, <1>f DEF TypeOK
    <2>4. QED
      BY <2>1, <2>3 DEF TypeOK
  <1>3. ASSUME NEW p \in Peds, NEW v \in Vehicles, RequestExit(p, v)
        PROVE  Games
    <2>1. rec'[p] = OnFoot
      BY <1>3 DEF RequestExit, ApproveExit, LeaveVehicleSeat, TypeOK, SeatsTypeOK
    <2>2. answers' \in [Peds -> Seq(RealPlace)]
      BY <1>3, <2>1, <1>f DEF RequestExit, Announce, TypeOK
    <2>3. QED
      BY <1>3, <2>2 DEF RequestExit, Announce, TypeOK
  <1>4. ASSUME NEW p \in Peds, TakeAnswer(p) \/ DropVehicle(p) \/ SendSync(p) \/ ReceiveSync(p)
        PROVE  Games
    <2>1. CASE TakeAnswer(p)
      BY <2>1 DEF TakeAnswer, TypeOK
    <2>2. CASE DropVehicle(p)
      BY <2>2, <1>f DEF DropVehicle, TypeOK
    <2>3. CASE SendSync(p)
      <3>1. [at |-> view[p], age |-> 0] \in SyncPacket
        BY DelayAssumption DEF TypeOK, SyncPacket
      <3>2. QED
        BY <2>3, <3>1 DEF SendSync, TypeOK
    <2>4. CASE ReceiveSync(p)
      BY <2>4 DEF ReceiveSync, TypeOK
    <2>5. QED
      BY <1>4, <2>1, <2>2, <2>3, <2>4
  <1>5. ASSUME NEW v \in Vehicles, DeleteVehicle(v)
        PROVE  Games
    BY <1>5, <1>f DEF DeleteVehicle, TypeOK
  <1>6. ASSUME NEW p \in Peds, DeletePed(p)
        PROVE  Games
    BY <1>6, <1>f DEF DeletePed, TypeOK
  <1>7. CASE TimePasses
    <2>1. \A p \in Peds : \A k \in syncs[p] :
            k.age < Up => [at |-> k.at, age |-> k.age + 1] \in SyncPacket
      BY DelayAssumption DEF TypeOK, SyncPacket
    <2>2. QED
      BY <1>7, <2>1 DEF TimePasses, TypeOK
  <1>8. QED
    BY <1>1, <1>2, <1>3, <1>4, <1>5, <1>6, <1>7
    DEF Next, vars, AddVehicle, AddPed, gameVars

LEMMA InitType == Init => TypeOK
  BY SeatsInitType DEF Init, TypeOK, RealPlace

(* Type correctness of the composition.                                    *)
THEOREM TypeCorrect == Spec => []TypeOK
  BY InitType, TypeStep, PTL DEF Spec

(* The composition is one of the behaviours of VehicleSeats: whatever is   *)
(* proved for arbitrary sync packets holds of it too.                      *)
THEOREM RequestsUseSeats == Spec => SeatsSpec
  <1>1. Init => SeatsInit
    BY DEF Init
  <1>2. QED
    BY <1>1, StepIsSeatStep, TypeCorrect, PTL DEF Spec, SeatsSpec

-----------------------------------------------------------------------------
(* A place of a vehicle that exists is in effect what it is, and nothing   *)
(* else has that effect.                                                   *)
LEMMA EffectivePlace ==
  ASSUME NEW v \in vehicles, vehicles \subseteq Vehicles, NEW s, NEW at
  PROVE  Effective(at) = At(v, s) <=> at = At(v, s)
  BY SeatsAssumption DEF Effective, At, OnFoot

(* Records change in effect, or not at all; then the table stays exact as  *)
(* long as it is not written.                                              *)
LEMMA ExactKept ==
  ASSUME SeatsTypeOK, TableExact, slot' = slot, vehicles' = vehicles,
         \A p \in Peds : Effective(rec'[p]) = Effective(rec[p])
  PROVE  TableExact'
  <1> SUFFICES ASSUME NEW v \in vehicles, NEW s \in Seats, NEW p \in Peds
               PROVE  slot[v][s] = p <=> rec'[p] = At(v, s)
    BY DEF TableExact
  <1>1. slot[v][s] = p <=> rec[p] = At(v, s)
    BY DEF TableExact
  <1>2. rec'[p] = At(v, s) <=> rec[p] = At(v, s)
    BY EffectivePlace DEF SeatsTypeOK
  <1>3. QED
    BY <1>1, <1>2

(* The heart of the matter: a sync packet that is believed says what the   *)
(* server has already recorded, so that it changes nothing in effect, and  *)
(* nothing at all while an answer is under way.                            *)
LEMMA SyncChangesNothing ==
  ASSUME IInv, RoundTrip, NEW p \in Peds, ReceiveSync(p)
  PROVE  /\ slot' = slot
         /\ UNCHANGED <<vehicles, peds, age, view, answers>>
         /\ \A q \in Peds : Effective(rec'[q]) = Effective(rec[q])
         /\ \A q \in Peds : q \notin peds \/ answers[q] # <<>> => rec'[q] = rec[q]
         /\ \A q \in Peds : syncs'[q] \subseteq syncs[q]
  <1> USE DEF IInv
  <1>1. PICK k \in syncs[p] : ReadSyncPacket(p, k.at.veh, k.at.seat)
    BY DEF ReceiveSync
  <1>2. k.at \in RealPlace /\ k.age \in 0..Up
    BY <1>1 DEF TypeOK, SyncPacket
  <1>3. Reported(k.at.veh, k.at.seat) = k.at
    BY <1>2, SeatsAssumption DEF Reported, RealPlace, OnFoot, At, Seats
  <1> DEFINE new == IF Authoritative(p) THEN rec[p] ELSE k.at
  <1>4. /\ p \in peds
        /\ rec' = [rec EXCEPT ![p] = new]
        /\ slot' = SlotsAfterSync(p, rec[p], new)
        /\ UNCHANGED <<vehicles, peds, age, syncer>>
    BY <1>1, <1>3 DEF ReadSyncPacket
  <1>5. Effective(new) = Effective(rec[p])
    <2>1. CASE Authoritative(p)
      BY <2>1
    <2>2. CASE ~Authoritative(p)
      <3>1. ~(age[p] <= k.age + Down)
        BY <2>2, <1>2, SeatsAssumption, DelayAssumption
        DEF Authoritative, RoundTrip, TypeOK, SeatsTypeOK
      <3>2. QED
        BY <2>2, <3>1, <1>1 DEF SyncsFresh
    <2>3. QED
      BY <2>1, <2>2
  <1>6. answers[p] # <<>> => new = rec[p]
    BY SeatsAssumption, DelayAssumption
    DEF AnswersFresh, Authoritative, RoundTrip, TypeOK, SeatsTypeOK
  <1> HIDE DEF new
  <1>7. SlotsAfterSync(p, rec[p], new) = slot
    <2>1. ASSUME NEW v \in Vehicles, NEW s \in Seats
          PROVE  ~Empties(rec[p], new, v, s) /\ ~Fills(rec[p], new, v, s)
      BY <1>5, SeatsAssumption DEF Empties, Fills, Effective, At, OnFoot
    <2>2. QED
      BY <2>1 DEF SlotsAfterSync, TypeOK, SeatsTypeOK
  <1>8. \A q \in Peds : rec'[q] = IF q = p THEN new ELSE rec[q]
    BY <1>4 DEF TypeOK, SeatsTypeOK
  <1>9. \A q \in Peds : Effective(rec'[q]) = Effective(rec[q])
    BY <1>5, <1>8
  <1>10. \A q \in Peds : q \notin peds \/ answers[q] # <<>> => rec'[q] = rec[q]
    BY <1>4, <1>6, <1>8
  <1>11. UNCHANGED <<view, answers>> /\ \A q \in Peds : syncs'[q] \subseteq syncs[q]
    BY DEF ReceiveSync, TypeOK
  <1>12. QED
    BY <1>4, <1>7, <1>9, <1>10, <1>11

-----------------------------------------------------------------------------
(* The last element of a queue that grows or shrinks.                      *)

LEMMA LastAppended ==
  ASSUME NEW S, NEW q \in Seq(S), NEW x \in S
  PROVE  Append(q, x) # <<>> /\ Append(q, x)[Len(Append(q, x))] = x
  <1>1. Append(q, x) # <<>> /\ Len(Append(q, x)) = Len(q) + 1 /\ Append(q, x)[Len(q) + 1] = x
    BY AppendProperties
  <1>2. QED
    BY <1>1

LEMMA LastOfTail ==
  ASSUME NEW S, NEW q \in Seq(S), q # <<>>
  PROVE  /\ Tail(q) = <<>> => Head(q) = q[Len(q)]
         /\ Tail(q) # <<>> => Tail(q)[Len(Tail(q))] = q[Len(q)]
  <1>1. Len(q) \in Nat /\ Len(q) # 0 /\ Head(q) = q[1]
    BY EmptySeq, LenProperties
  <1>2. Tail(q) \in Seq(S) /\ Len(Tail(q)) = Len(q) - 1
    BY HeadTailProperties
  <1>3. \A i \in 1..Len(Tail(q)) : Tail(q)[i] = q[i + 1]
    BY HeadTailProperties
  <1>4. Tail(q) = <<>> <=> Len(q) = 1
    <2>1. \A x \in Seq(S) : x = <<>> <=> Len(x) = 0
      BY EmptySeq
    <2>2. Tail(q) = <<>> <=> Len(q) - 1 = 0
      BY <1>2, <2>1
    <2>3. QED
      BY <1>1, <2>2
  <1>5. ASSUME Tail(q) # <<>>
        PROVE  Tail(q)[Len(Tail(q))] = q[Len(q)]
    <2>1. Len(q) - 1 \in 1..Len(Tail(q))
      BY <1>1, <1>2, <1>4, <1>5
    <2>2. Tail(q)[Len(q) - 1] = q[(Len(q) - 1) + 1]
      BY <2>1, <1>3
    <2>3. (Len(q) - 1) + 1 = Len(q)
      BY <1>1
    <2>4. QED
      BY <1>2, <2>2, <2>3
  <1>6. QED
    BY <1>1, <1>4, <1>5

-----------------------------------------------------------------------------
(* Each kind of step keeps what the games, the connections and the server  *)
(* know of each other.                                                     *)

Agreement == GoneForgotten /\ TableExact /\ ViewsAgree /\ AnswersFresh /\ SyncsFresh

(* A decision: the ped's age starts at 0 and the last answer is what the   *)
(* record says.                                                            *)
LEMMA EnterKeeps ==
  ASSUME IInv, NEW p \in Peds, NEW v \in Vehicles, NEW door \in Doors, NEW hop \in BOOLEAN,
         RequestEnter(p, v, door, hop)
  PROVE  Agreement'
  <1> USE DEF IInv, TypeOK
  <1>1. PICK s \in Seats :
          /\ p \in peds /\ v \in vehicles
          /\ UNCHANGED <<vehicles, peds, view, syncs>>
          /\ EnterVehicleSeat(p, v, s)
          /\ answers' = [q \in Peds |->
                           IF q \in {p} \cup Displaced(p, v, s)
                           THEN Append(answers[q], IF q = p THEN At(v, s) ELSE OnFoot)
                           ELSE answers[q]]
    BY EnterEffect
  <1> DEFINE moved == {p} \cup Displaced(p, v, s)
  <1>2. moved \subseteq peds
    <2>1. \A q \in Displaced(p, v, s) : slot[v][s] = q /\ q # NoPed
      BY SeatsAssumption DEF Displaced
    <2>2. QED
      BY <1>1, <2>1 DEF SlotsAlive
  <1>3. \A q \in Peds :
          /\ rec'[q] = IF q = p THEN At(v, s) ELSE IF q \in moved THEN OnFoot ELSE rec[q]
          /\ age'[q] = IF q \in moved THEN 0 ELSE age[q]
    BY <1>1 DEF EnterVehicleSeat
  <1>4. \A q \in Peds : q \notin moved => answers'[q] = answers[q]
    BY <1>1
  <1>5. \A q \in moved : answers'[q] # <<>> /\ answers'[q][Len(answers'[q])] = rec'[q]
    <2>1. At(v, s) \in RealPlace /\ OnFoot \in RealPlace
      BY <1>1 DEF RealPlace
    <2>2. ASSUME NEW q \in moved
          PROVE  answers'[q] # <<>> /\ answers'[q][Len(answers'[q])] = rec'[q]
      <3>0. q \in Peds
        BY DEF Displaced
      <3> DEFINE at == IF q = p THEN At(v, s) ELSE OnFoot
      <3>1. answers'[q] = Append(answers[q], at) /\ rec'[q] = at
        BY <1>1, <1>3, <3>0
      <3>2. answers[q] \in Seq(RealPlace) /\ at \in RealPlace
        BY <2>1, <3>0
      <3> HIDE DEF at
      <3>3. Append(answers[q], at) # <<>>
            /\ Append(answers[q], at)[Len(Append(answers[q], at))] = at
        BY <3>2, LastAppended
      <3>4. QED
        BY <3>1, <3>3
    <2>3. QED
      BY <2>2
  <1>6. GoneForgotten'
    BY <1>1, <1>2, <1>3, <1>4 DEF GoneForgotten
  <1>7. TableExact'
    <2> SUFFICES ASSUME NEW w \in vehicles, NEW t \in Seats, NEW q \in Peds
                 PROVE  slot'[w][t] = q <=> rec'[q] = At(w, t)
      BY <1>1 DEF TableExact
    <2>1. w \in Vehicles
      BY DEF SeatsTypeOK
    <2>2. slot'[w][t] = IF w = v /\ t = s THEN p ELSE SlotsWithout(p)[w][t]
      BY <1>1, <2>1 DEF EnterVehicleSeat, SlotsWithout
    <2>3. SlotsWithout(p)[w][t] = IF rec[p] = At(w, t) THEN NoPed ELSE slot[w][t]
      BY <2>1 DEF SlotsWithout, TableExact
    <2>4. slot[w][t] = q <=> rec[q] = At(w, t)
      BY DEF TableExact
    <2>5. Displaced(p, v, s) = {x \in Peds \ {p} : rec[x] = At(v, s)}
      BY <1>1 DEF Displaced, TableExact
    <2>6. At(w, t) = At(v, s) <=> w = v /\ t = s
      BY DEF At
    <2>7. OnFoot # At(w, t)
      BY <2>1, SeatsAssumption DEF At, OnFoot
    <2>8. slot[w][t] = p <=> rec[p] = At(w, t)
      BY DEF TableExact
    <2>9. QED
      BY <1>3, <2>2, <2>3, <2>4, <2>5, <2>6, <2>7, <2>8, SeatsAssumption
  <1>8. ViewsAgree'
    BY <1>1, <1>3, <1>4, <1>5 DEF ViewsAgree, Effective
  <1>9. AnswersFresh'
    <2> SUFFICES ASSUME NEW q \in Peds, answers'[q] # <<>>
                 PROVE  age'[q] <= Down /\ answers'[q][Len(answers'[q])] = rec'[q]
      BY DEF AnswersFresh
    <2>1. CASE q \in moved
      BY <1>3, <1>5, <2>1, DelayAssumption
    <2>2. CASE q \notin moved
      <3>1. age'[q] = age[q] /\ answers'[q] = answers[q] /\ rec'[q] = rec[q]
        BY <1>3, <1>4, <2>2
      <3>2. QED
        BY <3>1 DEF AnswersFresh
    <2>3. QED
      BY <2>1, <2>2
  <1>10. SyncsFresh'
    <2> SUFFICES ASSUME NEW q \in Peds, NEW k \in syncs[q]
                 PROVE  Effective(k.at)' = Effective(rec[q])' \/ age'[q] <= k.age + Down
      BY <1>1 DEF SyncsFresh
    <2>1. k.age \in 0..Up
      BY DEF SyncPacket
    <2>2. CASE q \in moved
      BY <1>3, <2>1, <2>2, DelayAssumption
    <2>3. CASE q \notin moved
      <3>1. age'[q] = age[q] /\ rec'[q] = rec[q] /\ vehicles' = vehicles
        BY <1>1, <1>3, <2>3
      <3>2. Effective(k.at) = Effective(rec[q]) \/ age[q] <= k.age + Down
        BY DEF SyncsFresh
      <3>3. QED
        BY <3>1, <3>2 DEF Effective
    <2>4. QED
      BY <2>2, <2>3
  <1>11. QED
    BY <1>6, <1>7, <1>8, <1>9, <1>10 DEF Agreement

LEMMA ExitKeeps ==
  ASSUME IInv, NEW p \in Peds, NEW v \in Vehicles, RequestExit(p, v)
  PROVE  Agreement'
  <1> USE DEF IInv, TypeOK
  <1>1. /\ p \in peds
        /\ UNCHANGED <<vehicles, peds, view, syncs>>
        /\ LeaveVehicleSeat(p)
        /\ answers' = [q \in Peds |-> IF q = p THEN Append(answers[q], rec'[q]) ELSE answers[q]]
    BY DEF RequestExit, ApproveExit, ValidRequest, Announce
  <1>2. \A q \in Peds : /\ rec'[q] = IF q = p THEN OnFoot ELSE rec[q]
                        /\ age'[q] = IF q = p THEN 0 ELSE age[q]
    BY <1>1 DEF LeaveVehicleSeat, SeatsTypeOK
  <1>3. answers'[p] # <<>> /\ answers'[p][Len(answers'[p])] = OnFoot
    <2>1. answers'[p] = Append(answers[p], OnFoot) /\ answers[p] \in Seq(RealPlace)
          /\ OnFoot \in RealPlace
      BY <1>1, <1>2 DEF RealPlace
    <2>2. QED
      BY <1>2, <2>1, LastAppended
  <1>4. GoneForgotten'
    BY <1>1, <1>2 DEF GoneForgotten
  <1>5. TableExact'
    <2> SUFFICES ASSUME NEW w \in vehicles, NEW t \in Seats, NEW q \in Peds
                 PROVE  slot'[w][t] = q <=> rec'[q] = At(w, t)
      BY <1>1 DEF TableExact
    <2>1. w \in Vehicles /\ OnFoot # At(w, t)
      BY SeatsAssumption DEF SeatsTypeOK, At, OnFoot
    <2>2. slot'[w][t] = IF rec[p] = At(w, t) THEN NoPed ELSE slot[w][t]
      BY <1>1, <2>1 DEF LeaveVehicleSeat, SlotsWithout, TableExact
    <2>3. \A x \in Peds : slot[w][t] = x <=> rec[x] = At(w, t)
      BY DEF TableExact
    <2>4. QED
      BY <1>2, <2>1, <2>2, <2>3, SeatsAssumption
  <1>6. ViewsAgree'
    BY <1>1, <1>2, <1>3 DEF ViewsAgree, Effective
  <1>7. AnswersFresh'
    BY <1>1, <1>2, <1>3, DelayAssumption DEF AnswersFresh
  <1>8. SyncsFresh'
    <2> SUFFICES ASSUME NEW q \in Peds, NEW k \in syncs[q]
                 PROVE  Effective(k.at)' = Effective(rec[q])' \/ age'[q] <= k.age + Down
      BY <1>1 DEF SyncsFresh
    <2>1. k.age \in 0..Up
      BY DEF SyncPacket
    <2>2. CASE q = p
      BY <1>2, <2>1, <2>2, DelayAssumption
    <2>3. CASE q # p
      <3>1. age'[q] = age[q] /\ rec'[q] = rec[q] /\ vehicles' = vehicles
        BY <1>1, <1>2, <2>3
      <3>2. Effective(k.at) = Effective(rec[q]) \/ age[q] <= k.age + Down
        BY DEF SyncsFresh
      <3>3. QED
        BY <3>1, <3>2 DEF Effective
    <2>4. QED
      BY <2>2, <2>3
  <1>9. QED
    BY <1>4, <1>5, <1>6, <1>7, <1>8 DEF Agreement

(* A believed sync packet keeps everything by the lemma above.             *)
LEMMA SyncKeeps ==
  ASSUME IInv, RoundTrip, NEW p \in Peds, ReceiveSync(p)
  PROVE  Agreement'
  <1> USE DEF IInv, TypeOK
  <1>1. /\ slot' = slot
        /\ UNCHANGED <<vehicles, peds, age, view, answers>>
        /\ \A q \in Peds : Effective(rec'[q]) = Effective(rec[q])
        /\ \A q \in Peds : q \notin peds \/ answers[q] # <<>> => rec'[q] = rec[q]
        /\ \A q \in Peds : syncs'[q] \subseteq syncs[q]
    BY SyncChangesNothing
  <1>2. GoneForgotten'
    BY <1>1 DEF GoneForgotten
  <1>3. TableExact'
    BY <1>1, ExactKept
  <1>4. ViewsAgree'
    BY <1>1 DEF ViewsAgree, Effective
  <1>5. AnswersFresh'
    BY <1>1 DEF AnswersFresh
  <1>6. SyncsFresh'
    <2> SUFFICES ASSUME NEW q \in Peds, NEW k \in syncs'[q]
                 PROVE  Effective(k.at)' = Effective(rec[q])' \/ age'[q] <= k.age + Down
      BY DEF SyncsFresh
    <2>1. k \in syncs[q]
      BY <1>1
    <2>2. QED
      BY <1>1, <2>1 DEF SyncsFresh, Effective
  <1>7. QED
    BY <1>2, <1>3, <1>4, <1>5, <1>6 DEF Agreement

(* What a game does on its own: act on an answer, lose a vehicle, report.  *)
LEMMA GameKeeps ==
  ASSUME IInv, NEW p \in Peds, TakeAnswer(p) \/ DropVehicle(p) \/ SendSync(p)
  PROVE  Agreement'
  <1> USE DEF IInv, TypeOK
  <1>1. UNCHANGED seatVars
    BY DEF TakeAnswer, DropVehicle, SendSync
  <1>2. TableExact'
    BY <1>1 DEF TableExact, seatVars
  <1>3. CASE TakeAnswer(p)
    <2>1. answers[p] \in Seq(RealPlace) /\ answers[p] # <<>> /\ UNCHANGED syncs
          /\ \A q \in Peds : /\ answers'[q] = IF q = p THEN Tail(answers[q]) ELSE answers[q]
                             /\ view'[q] = IF q = p THEN Head(answers[p]) ELSE view[q]
      BY <1>3 DEF TakeAnswer
    <2>2. p \in peds
      BY <2>1 DEF GoneForgotten
    <2>3. answers'[p] # <<>> => answers'[p][Len(answers'[p])] = rec[p]
      BY <2>1, LastOfTail DEF AnswersFresh
    <2>4. answers'[p] = <<>> => view'[p] = rec[p]
      BY <2>1, LastOfTail DEF AnswersFresh
    <2>5. GoneForgotten'
      BY <1>1, <2>1, <2>2 DEF GoneForgotten, seatVars
    <2>6. ViewsAgree'
      BY <1>1, <2>1, <2>4 DEF ViewsAgree, Effective, seatVars
    <2>7. AnswersFresh'
      BY <1>1, <2>1, <2>3 DEF AnswersFresh, seatVars
    <2>8. SyncsFresh'
      BY <1>1, <2>1 DEF SyncsFresh, Effective, seatVars
    <2>9. QED
      BY <1>2, <2>5, <2>6, <2>7, <2>8 DEF Agreement
  <1>4. CASE DropVehicle(p)
    <2>1. UNCHANGED <<answers, syncs>> /\ Effective(view[p]) # view[p]
          /\ \A q \in Peds : view'[q] = IF q = p THEN OnFoot ELSE view[q]
      BY <1>4 DEF DropVehicle
    <2>2. Effective(view[p]) = OnFoot /\ Effective(OnFoot) = OnFoot
      BY <2>1 DEF Effective
    <2>3. GoneForgotten'
      BY <1>1, <2>1 DEF GoneForgotten, seatVars
    <2>4. ViewsAgree'
      BY <1>1, <2>1, <2>2 DEF ViewsAgree, Effective, seatVars
    <2>5. AnswersFresh' /\ SyncsFresh'
      BY <1>1, <2>1 DEF AnswersFresh, SyncsFresh, Effective, seatVars
    <2>6. QED
      BY <1>2, <2>3, <2>4, <2>5 DEF Agreement
  <1>5. CASE SendSync(p)
    <2> DEFINE new == [at |-> view[p], age |-> 0]
    <2>1. UNCHANGED <<view, answers>> /\ p \in peds
          /\ \A q \in Peds : syncs'[q] = IF q = p THEN syncs[q] \cup {new} ELSE syncs[q]
      BY <1>5 DEF SendSync
    <2>2. Effective(view[p]) = Effective(rec[p]) \/ age[p] <= 0 + Down
      BY DelayAssumption DEF ViewsAgree, AnswersFresh, SeatsTypeOK
    <2>3. GoneForgotten'
      BY <1>1, <2>1 DEF GoneForgotten, seatVars
    <2>4. ViewsAgree' /\ AnswersFresh'
      BY <1>1, <2>1 DEF ViewsAgree, AnswersFresh, Effective, seatVars
    <2>5. SyncsFresh'
      <3> SUFFICES ASSUME NEW q \in Peds, NEW k \in syncs'[q]
                   PROVE  Effective(k.at) = Effective(rec[q]) \/ age[q] <= k.age + Down
        BY <1>1 DEF SyncsFresh, Effective, seatVars
      <3>1. k \in syncs[q] \/ (q = p /\ k = new)
        BY <2>1
      <3>2. QED
        BY <2>2, <3>1 DEF SyncsFresh
    <2>6. QED
      BY <1>2, <2>3, <2>4, <2>5 DEF Agreement
  <1>6. QED
    BY <1>3, <1>4, <1>5

(* Objects that come: nothing named them before.                           *)
LEMMA AddKeeps ==
  ASSUME IInv, NEW v \in Vehicles, AddVehicle(v)
  PROVE  Agreement'
  <1> USE DEF IInv, TypeOK
  <1>1. /\ vehicles' = vehicles \cup {v} /\ v \notin vehicles
        /\ UNCHANGED <<peds, rec, slot, age, gameVars>>
    BY DEF AddVehicle, CreateVehicle
  <1>2. \A q \in Peds : /\ rec[q].veh # v /\ view[q].veh # v
                        /\ \A k \in syncs[q] : k.at.veh # v
    BY DEF AddVehicle, Mentions
  <1>3. \A at : at.veh # v => Effective(at)' = Effective(at)
    BY <1>1 DEF Effective
  <1>4. GoneForgotten'
    BY <1>1 DEF GoneForgotten, gameVars
  <1>5. TableExact'
    <2> SUFFICES ASSUME NEW w \in vehicles', NEW t \in Seats, NEW q \in Peds
                 PROVE  slot[w][t] = q <=> rec[q] = At(w, t)
      BY <1>1 DEF TableExact
    <2>1. CASE w = v
      <3>1. rec[q] # At(w, t)
        BY <1>2, <2>1 DEF At
      <3>2. slot[w][t] = NoPed
        BY <1>1, <2>1 DEF SlotsAlive
      <3>3. QED
        BY <3>1, <3>2, SeatsAssumption
    <2>2. CASE w \in vehicles
      BY <2>2 DEF TableExact
    <2>3. QED
      BY <1>1, <2>1, <2>2
  <1>6. ViewsAgree'
    <2> SUFFICES ASSUME NEW q \in Peds, answers[q] = <<>>
                 PROVE  Effective(view[q])' = Effective(rec[q])'
      BY <1>1 DEF ViewsAgree, gameVars
    <2>1. Effective(view[q]) = Effective(rec[q])
      BY DEF ViewsAgree
    <2>2. QED
      BY <1>1, <1>2, <2>1 DEF Effective, gameVars
  <1>7. AnswersFresh'
    BY <1>1 DEF AnswersFresh, gameVars
  <1>8. SyncsFresh'
    <2> SUFFICES ASSUME NEW q \in Peds, NEW k \in syncs[q]
                 PROVE  Effective(k.at)' = Effective(rec[q])' \/ age[q] <= k.age + Down
      BY <1>1 DEF SyncsFresh, gameVars
    <2>1. Effective(k.at) = Effective(rec[q]) \/ age[q] <= k.age + Down
      BY DEF SyncsFresh
    <2>2. QED
      BY <1>1, <1>2, <2>1 DEF Effective, gameVars
  <1>9. QED
    BY <1>4, <1>5, <1>6, <1>7, <1>8 DEF Agreement

LEMMA AddPedUnseen ==
  ASSUME IInv, NEW p \in Peds, NEW c \in Clients, AddPed(p, c)
  PROVE  /\ p \notin peds /\ peds' = peds \cup {p}
         /\ UNCHANGED <<vehicles, slot, age, gameVars>>
         /\ \A q \in Peds : rec'[q] = rec[q] \/ (q = p /\ rec'[q] = OnFoot)
         /\ \A q \in Peds : Effective(rec'[q]) = Effective(rec[q])
  <1> USE DEF IInv, TypeOK
  <1>1. p \notin peds /\ peds' = peds \cup {p}
        /\ UNCHANGED <<vehicles, age, gameVars>>
    BY DEF AddPed, CreateHuman, CreateCivilian
  <1>2. rec[p] = NewRecord
    BY <1>1 DEF GoneForgotten
  <1>3. \A q \in Peds : rec'[q] = rec[q] \/ (q = p /\ rec'[q] = OnFoot)
    <2>1. Reported(INVALID, -1) = OnFoot
      BY DEF Reported, At, OnFoot, Seats
    <2>2. QED
      BY <2>1 DEF AddPed, CreateHuman, CreateCivilian, SeatsTypeOK
  <1>4. \A q \in Peds : Effective(rec'[q]) = Effective(rec[q])
    BY <1>2, <1>3, SeatsAssumption DEF Effective, NewRecord, OnFoot, At, SeatsTypeOK
  <1>5. slot' = slot
    <2>1. CASE CreateHuman(p, c)
      BY <2>1 DEF CreateHuman
    <2>2. CASE CreateCivilian(p, c, OnFoot, INVALID, -1)
      <3>1. Reported(INVALID, -1) = OnFoot
        BY DEF Reported, At, OnFoot, Seats
      <3>2. slot' = SlotsAfterSync(p, OnFoot, OnFoot)
        BY <2>2, <3>1 DEF CreateCivilian
      <3>3. QED
        BY <3>2, SeatsAssumption
        DEF SlotsAfterSync, Empties, Fills, OnFoot, At, SeatsTypeOK
    <2>3. QED
      BY <2>1, <2>2 DEF AddPed
  <1>6. QED
    BY <1>1, <1>3, <1>4, <1>5

LEMMA AddPedKeeps ==
  ASSUME IInv, NEW p \in Peds, NEW c \in Clients, AddPed(p, c)
  PROVE  Agreement'
  <1> USE DEF IInv, TypeOK
  <1>1. /\ p \notin peds /\ peds' = peds \cup {p}
        /\ UNCHANGED <<vehicles, slot, age, gameVars>>
    BY AddPedUnseen
  <1>3. \A q \in Peds : rec'[q] = rec[q] \/ (q = p /\ rec'[q] = OnFoot)
    BY AddPedUnseen
  <1>4. \A q \in Peds : Effective(rec'[q]) = Effective(rec[q])
    BY AddPedUnseen
  <1>5. slot' = slot
    BY <1>1
  <1>6. GoneForgotten'
    BY <1>1, <1>3 DEF GoneForgotten, gameVars
  <1>7. TableExact'
    BY <1>1, <1>4, <1>5, ExactKept
  <1>8. ViewsAgree'
    BY <1>1, <1>4 DEF ViewsAgree, Effective, gameVars
  <1>9. AnswersFresh'
    BY <1>1, <1>3 DEF AnswersFresh, GoneForgotten, gameVars
  <1>10. SyncsFresh'
    BY <1>1, <1>4 DEF SyncsFresh, Effective, gameVars
  <1>11. QED
    BY <1>6, <1>7, <1>8, <1>9, <1>10 DEF Agreement


(* Objects that go: the vehicle takes its civilians with it, the records   *)
(* of the others go on naming it to no effect.                             *)
LEMMA DeleteKeeps ==
  ASSUME IInv, NEW v \in Vehicles, DeleteVehicle(v)
  PROVE  Agreement'
  <1> USE DEF IInv, TypeOK
  <1> DEFINE gone == RemovedWith(v)
  <1>1. /\ vehicles' = vehicles \ {v} /\ peds' = peds \ gone /\ gone \subseteq peds
        /\ \A q \in gone : rec[q].veh = v
    BY DEF DeleteVehicle, RemoveVehicle, Forget, RemovedWith
  <1>2. \A q \in gone : /\ rec'[q] = NewRecord /\ view'[q] = OnFoot
                        /\ answers'[q] = <<>> /\ syncs'[q] = {}
    BY DEF DeleteVehicle, RemoveVehicle, Forget, RemovedWith, SeatsTypeOK
  <1>3. \A q \in Peds \ gone : /\ rec'[q] = rec[q] /\ age'[q] = age[q] /\ view'[q] = view[q]
                                /\ answers'[q] = answers[q] /\ syncs'[q] = syncs[q]
    BY DEF DeleteVehicle, RemoveVehicle, Forget
  <1>4. \A w \in Vehicles \ {v}, t \in Seats :
          slot'[w][t] = IF slot[w][t] \in gone THEN NoPed ELSE slot[w][t]
    BY DEF DeleteVehicle, RemoveVehicle, Forget, SeatsTypeOK
  <1> HIDE DEF gone
  <1>5. GoneForgotten'
    BY <1>1, <1>2, <1>3 DEF GoneForgotten
  <1>6. TableExact'
    <2> SUFFICES ASSUME NEW w \in vehicles', NEW t \in Seats, NEW q \in Peds
                 PROVE  slot'[w][t] = q <=> rec'[q] = At(w, t)
      BY DEF TableExact
    <2>1. w \in Vehicles \ {v} /\ w \in vehicles
      BY <1>1 DEF SeatsTypeOK
    <2>2. \A x \in Peds : slot[w][t] = x <=> rec[x] = At(w, t)
      BY <2>1 DEF TableExact
    <2>3. CASE q \in gone
      BY <1>2, <1>4, <2>1, <2>3, SeatsAssumption DEF NewRecord, At
    <2>4. CASE q \notin gone
      <3>1. slot'[w][t] = q <=> slot[w][t] = q
        BY <1>4, <2>1, <2>4, SeatsAssumption
      <3>2. rec'[q] = rec[q]
        BY <1>3, <2>4
      <3>3. QED
        BY <2>2, <3>1, <3>2
    <2>5. QED
      BY <2>3, <2>4
  <1>7. \A at, to : Effective(at) = Effective(to) => Effective(at)' = Effective(to)'
    BY <1>1, SeatsAssumption DEF Effective, OnFoot, At, SeatsTypeOK
  <1>8. ViewsAgree'
    <2> SUFFICES ASSUME NEW q \in Peds, answers'[q] = <<>>
                 PROVE  Effective(view[q])' = Effective(rec[q])'
      BY DEF ViewsAgree
    <2>1. CASE q \in gone
      BY <1>1, <1>2, <2>1, SeatsAssumption DEF Effective, NewRecord, OnFoot, At, SeatsTypeOK
    <2>2. CASE q \notin gone
      <3>1. Effective(view[q]) = Effective(rec[q])
        BY <1>3, <2>2 DEF ViewsAgree
      <3>2. view'[q] = view[q] /\ rec'[q] = rec[q]
        BY <1>3, <2>2
      <3>3. QED
        BY <1>1, <3>1, <3>2, SeatsAssumption DEF Effective, OnFoot, At, SeatsTypeOK
    <2>3. QED
      BY <2>1, <2>2
  <1>9. AnswersFresh'
    BY <1>2, <1>3 DEF AnswersFresh
  <1>10. SyncsFresh'
    <2> SUFFICES ASSUME NEW q \in Peds, NEW k \in syncs'[q]
                 PROVE  Effective(k.at)' = Effective(rec[q])' \/ age'[q] <= k.age + Down
      BY DEF SyncsFresh
    <2>1. /\ q \notin gone /\ rec'[q] = rec[q] /\ age'[q] = age[q] /\ k \in syncs[q]
      BY <1>2, <1>3
    <2>2. Effective(k.at) = Effective(rec[q]) \/ age[q] <= k.age + Down
      BY <2>1 DEF SyncsFresh
    <2>3. QED
      BY <1>1, <2>1, <2>2, SeatsAssumption DEF Effective, OnFoot, At, SeatsTypeOK
  <1>11. QED
    BY <1>5, <1>6, <1>8, <1>9, <1>10 DEF Agreement

LEMMA DeletePedKeeps ==
  ASSUME IInv, NEW p \in Peds, DeletePed(p)
  PROVE  Agreement'
  <1> USE DEF IInv, TypeOK
  <1>1. /\ vehicles' = vehicles /\ peds' = peds \ {p}
        /\ rec'[p] = NewRecord /\ view'[p] = OnFoot /\ answers'[p] = <<>> /\ syncs'[p] = {}
    BY DEF DeletePed, DestroyPed, Forget
  <1>2. \A q \in Peds \ {p} : /\ rec'[q] = rec[q] /\ age'[q] = age[q] /\ view'[q] = view[q]
                               /\ answers'[q] = answers[q] /\ syncs'[q] = syncs[q]
    BY DEF DeletePed, DestroyPed, Forget
  <1>3. \A w \in Vehicles, t \in Seats :
          slot'[w][t] = IF slot[w][t] = p THEN NoPed ELSE slot[w][t]
    BY DEF DeletePed, DestroyPed, Forget
  <1>4. GoneForgotten'
    BY <1>1, <1>2 DEF GoneForgotten
  <1>5. TableExact'
    <2> SUFFICES ASSUME NEW w \in vehicles, NEW t \in Seats, NEW q \in Peds
                 PROVE  slot'[w][t] = q <=> rec'[q] = At(w, t)
      BY <1>1 DEF TableExact
    <2>1. w \in Vehicles /\ NewRecord # At(w, t)
      BY SeatsAssumption DEF SeatsTypeOK, NewRecord, At
    <2>2. slot[w][t] = q <=> rec[q] = At(w, t)
      BY DEF TableExact
    <2>3. QED
      BY <1>1, <1>2, <1>3, <2>1, <2>2, SeatsAssumption
  <1>6. ViewsAgree'
    <2>1. Effective(OnFoot)' = Effective(NewRecord)'
      BY <1>1, SeatsAssumption DEF Effective, OnFoot, NewRecord, At, SeatsTypeOK
    <2>2. QED
      BY <1>1, <1>2, <2>1 DEF ViewsAgree, Effective
  <1>7. AnswersFresh'
    BY <1>1, <1>2 DEF AnswersFresh
  <1>8. SyncsFresh'
    BY <1>1, <1>2 DEF SyncsFresh, Effective
  <1>9. QED
    BY <1>4, <1>5, <1>6, <1>7, <1>8 DEF Agreement

(* A tick makes a decision at most one tick older, and so does it every    *)
(* packet still under way.                                                 *)
LEMMA TimeKeeps ==
  ASSUME IInv, RoundTrip, TimePasses
  PROVE  Agreement'
  <1> USE DEF IInv, TypeOK
  <1>1. /\ UNCHANGED <<vehicles, peds, rec, slot, view, answers>>
        /\ \A q \in Peds : age'[q] = Older(age[q]) /\ age[q] \in 0..TickMod
    BY DEF TimePasses, Tick, SeatsTypeOK
  <1>2. \A a \in 0..TickMod, d \in Nat : a <= d => Older(a) <= d + 1
    BY SeatsAssumption DEF Older, Never
  <1>3. GoneForgotten'
    BY <1>1 DEF GoneForgotten, TimePasses
  <1>4. TableExact' /\ ViewsAgree'
    BY <1>1 DEF TableExact, ViewsAgree, Effective
  <1>5. AnswersFresh'
    <2> SUFFICES ASSUME NEW q \in Peds, answers[q] # <<>>
                 PROVE  Older(age[q]) <= Down /\ answers[q][Len(answers[q])] = rec[q]
      BY <1>1 DEF AnswersFresh
    <2>1. age[q] < Down
      BY DEF TimePasses
    <2>2. Older(age[q]) <= Down
      BY <1>1, <2>1, SeatsAssumption, DelayAssumption DEF Older, Never, RoundTrip
    <2>3. QED
      BY <2>2 DEF AnswersFresh
  <1>6. SyncsFresh'
    <2> SUFFICES ASSUME NEW q \in Peds, NEW k \in syncs'[q]
                 PROVE  Effective(k.at) = Effective(rec[q]) \/ Older(age[q]) <= k.age + Down
      BY <1>1 DEF SyncsFresh, Effective
    <2>1. PICK j \in syncs[q] : k = [at |-> j.at, age |-> j.age + 1]
      BY DEF TimePasses
    <2>2. j.age \in 0..Up
      BY <2>1 DEF SyncPacket
    <2>3. Effective(j.at) = Effective(rec[q]) \/ age[q] <= j.age + Down
      BY DEF SyncsFresh
    <2>4. age[q] <= j.age + Down => Older(age[q]) <= (j.age + Down) + 1
      <3> DEFINE d == j.age + Down
      <3>1. d \in Nat /\ age[q] \in 0..TickMod
        BY <1>1, <2>2, DelayAssumption
      <3> HIDE DEF d
      <3>2. age[q] <= d => Older(age[q]) <= d + 1
        BY <1>2, <3>1
      <3>3. QED
        BY <3>2 DEF d
    <2>5. (j.age + Down) + 1 = (j.age + 1) + Down
      BY <2>2, DelayAssumption
    <2>6. QED
      BY <2>1, <2>3, <2>4, <2>5
  <1>7. QED
    BY <1>3, <1>4, <1>5, <1>6 DEF Agreement

-----------------------------------------------------------------------------
(* The invariant.                                                          *)

LEMMA InitIInv == Init => IInv
  <1> SUFFICES ASSUME Init PROVE IInv
    OBVIOUS
  <1>1. TypeOK
    BY InitType
  <1>2. SlotsAlive
    BY DEF Init, SeatsInit, SlotsAlive, NoOccupants
  <1>3. GoneForgotten /\ AnswersFresh /\ SyncsFresh
    BY DEF Init, SeatsInit, GoneForgotten, AnswersFresh, SyncsFresh
  <1>4. TableExact
    BY DEF Init, SeatsInit, TableExact
  <1>5. ViewsAgree
    BY SeatsAssumption DEF Init, SeatsInit, ViewsAgree, Effective, NewRecord, OnFoot, At
  <1>6. QED
    BY <1>1, <1>2, <1>3, <1>4, <1>5 DEF IInv

LEMMA IInvStep ==
  ASSUME IInv, RoundTrip, [Next]_vars
  PROVE  IInv'
  <1>1. TypeOK' /\ SlotsAlive'
    BY TypeStep, StepIsSeatStep, SlotsAliveStep DEF IInv, TypeOK
  <1>2. Agreement'
    <2>1. CASE UNCHANGED vars
      BY <2>1 DEF IInv, Agreement, vars, seatVars, gameVars, GoneForgotten, TableExact,
                  ViewsAgree, AnswersFresh, SyncsFresh, Effective
    <2>2. CASE Next
      <3>1. ASSUME NEW p \in Peds, NEW v \in Vehicles, NEW door \in Doors, NEW hop \in BOOLEAN,
                   RequestEnter(p, v, door, hop)
            PROVE  Agreement'
        BY <3>1, EnterKeeps
      <3>2. ASSUME NEW p \in Peds, NEW v \in Vehicles, RequestExit(p, v)
            PROVE  Agreement'
        BY <3>2, ExitKeeps
      <3>3. ASSUME NEW p \in Peds, TakeAnswer(p) \/ DropVehicle(p) \/ SendSync(p)
            PROVE  Agreement'
        BY <3>3, GameKeeps
      <3>4. ASSUME NEW p \in Peds, ReceiveSync(p)
            PROVE  Agreement'
        BY <3>4, SyncKeeps
      <3>5. ASSUME NEW v \in Vehicles, AddVehicle(v) \/ DeleteVehicle(v)
            PROVE  Agreement'
        BY <3>5, AddKeeps, DeleteKeeps
      <3>6. ASSUME NEW p \in Peds, NEW c \in Clients, AddPed(p, c)
            PROVE  Agreement'
        BY <3>6, AddPedKeeps
      <3>7. ASSUME NEW p \in Peds, DeletePed(p)
            PROVE  Agreement'
        BY <3>7, DeletePedKeeps
      <3>8. CASE TimePasses
        BY <3>8, TimeKeeps
      <3>9. QED
        BY <2>2, <3>1, <3>2, <3>3, <3>4, <3>5, <3>6, <3>7, <3>8 DEF Next
    <2>3. QED
      BY <2>1, <2>2
  <1>3. QED
    BY <1>1, <1>2 DEF IInv, Agreement

LEMMA Inductive ==
  ASSUME RoundTrip
  PROVE  Spec => []IInv
  BY InitIInv, IInvStep, PTL DEF Spec

(* The table of a vehicle names a ped in a seat exactly when the ped's     *)
(* record does, if an answer and a report together take less time than     *)
(* VEHICLE_STATE_AUTHORITY_MS.                                             *)
THEOREM TablesAgree ==
  ASSUME RoundTrip
  PROVE  Spec => []TableExact
  <1>1. IInv => TableExact
    BY DEF IInv
  <1>2. QED
    BY <1>1, Inductive, PTL

(* A game that has acted on every answer agrees with the server.           *)
THEOREM GamesAgree ==
  ASSUME RoundTrip
  PROVE  Spec => []ViewsAgree
  <1>1. IInv => ViewsAgree
    BY DEF IInv
  <1>2. QED
    BY <1>1, Inductive, PTL

(* The authority window outlives every report that contradicts a decision. *)
THEOREM WindowOutlivesStaleSyncs ==
  ASSUME RoundTrip
  PROVE  Spec => []StaleSyncsHarmless
  <1>1. IInv => StaleSyncsHarmless
    <2> SUFFICES ASSUME IInv, NEW p \in Peds, ~Authoritative(p), NEW k \in syncs[p]
                 PROVE  Effective(k.at) = Effective(rec[p])
      BY DEF StaleSyncsHarmless
    <2>1. k.age \in 0..Up /\ age[p] \in 0..TickMod
      BY DEF IInv, TypeOK, SeatsTypeOK, SyncPacket
    <2>2. ~(age[p] <= k.age + Down)
      BY <2>1, SeatsAssumption, DelayAssumption DEF Authoritative, RoundTrip
    <2>3. QED
      BY <2>2 DEF IInv, SyncsFresh
  <1>2. QED
    BY <1>1, Inductive, PTL

-----------------------------------------------------------------------------
(* The promise of module Seating, kept.                                    *)

Where == [p \in Peds |-> Effective(rec[p])]

(* A step that touches neither the vehicles nor any record in effect is a  *)
(* stuttering step of Seating.                                             *)
LEMMA NothingMoves ==
  ASSUME vehicles' = vehicles, \A p \in Peds : Effective(rec'[p]) = Effective(rec[p])
  PROVE  UNCHANGED <<vehicles, Where>>
  BY DEF Where, Effective

LEMMA EnterIsSit ==
  ASSUME IInv, NEW p \in Peds, NEW v \in Vehicles, NEW door \in Doors, NEW hop \in BOOLEAN,
         RequestEnter(p, v, door, hop)
  PROVE  Promise!Next
  <1> USE DEF IInv, TypeOK
  <1>1. PICK s \in Seats :
          p \in peds /\ v \in vehicles /\ vehicles' = vehicles /\ EnterVehicleSeat(p, v, s)
    BY EnterEffect
  <1>2. At(v, s) \in Promise!Spot /\ At(v, s).veh = v
    BY DEF At, Promise!Spot
  <1>3. Displaced(p, v, s) = {q \in Peds \ {p} : rec[q] = At(v, s)}
    BY <1>1 DEF Displaced, TableExact
  <1>4. \A q \in Peds : Where[q] = At(v, s) <=> rec[q] = At(v, s)
    BY <1>1, SeatsAssumption DEF Where, Effective, At, OnFoot
  <1>5. \A q \in Peds : rec'[q] = IF q = p THEN At(v, s)
                                  ELSE IF rec[q] = At(v, s) THEN OnFoot ELSE rec[q]
    BY <1>1, <1>3 DEF EnterVehicleSeat
  <1>6. Effective(At(v, s))' = At(v, s) /\ Effective(OnFoot)' = OnFoot
    BY <1>1 DEF Effective, At
  <1>7. \A q \in Peds : Where'[q] = IF q = p THEN At(v, s)
                                    ELSE IF Where[q] = At(v, s) THEN OnFoot ELSE Where[q]
    BY <1>1, <1>4, <1>5, <1>6 DEF Where, Effective
  <1>8. Where' = [q \in Peds |-> IF q = p THEN At(v, s)
                                 ELSE IF Where[q] = At(v, s) THEN OnFoot ELSE Where[q]]
    BY <1>7 DEF Where
  <1>9. Promise!Sit(p, At(v, s))
    BY <1>1, <1>2, <1>8 DEF Promise!Sit, Where
  <1>10. QED
    BY <1>2, <1>9 DEF Promise!Next

LEMMA ExitIsRise ==
  ASSUME IInv, NEW p \in Peds, NEW v \in Vehicles, RequestExit(p, v)
  PROVE  Promise!Next
  <1> USE DEF IInv, TypeOK
  <1>1. vehicles' = vehicles /\ \A q \in Peds : rec'[q] = IF q = p THEN OnFoot ELSE rec[q]
    BY DEF RequestExit, ApproveExit, LeaveVehicleSeat, SeatsTypeOK
  <1>2. Where' = [Where EXCEPT ![p] = OnFoot]
    BY <1>1 DEF Where, Effective
  <1>3. Promise!Rise(p)
    BY <1>1, <1>2 DEF Promise!Rise, Where
  <1>4. QED
    BY <1>3 DEF Promise!Next

LEMMA DeletePedIsRise ==
  ASSUME IInv, NEW p \in Peds, DeletePed(p)
  PROVE  Promise!Next
  <1> USE DEF IInv, TypeOK
  <1>1. vehicles' = vehicles /\ \A q \in Peds : rec'[q] = IF q = p THEN NewRecord ELSE rec[q]
    BY DEF DeletePed, DestroyPed, Forget
  <1>2. Effective(NewRecord)' = OnFoot
    BY <1>1, SeatsAssumption DEF Effective, NewRecord, At, SeatsTypeOK
  <1>3. Where' = [Where EXCEPT ![p] = OnFoot]
    BY <1>1, <1>2 DEF Where, Effective
  <1>4. Promise!Rise(p)
    BY <1>1, <1>3 DEF Promise!Rise, Where
  <1>5. QED
    BY <1>4 DEF Promise!Next

LEMMA AddIsBring ==
  ASSUME IInv, NEW v \in Vehicles, AddVehicle(v)
  PROVE  Promise!Next
  <1>1. v \notin vehicles /\ vehicles' = vehicles \cup {v} /\ rec' = rec
        /\ \A q \in Peds : rec[q].veh # v
    BY DEF AddVehicle, CreateVehicle, Mentions
  <1>2. Where' = Where
    BY <1>1 DEF Where, Effective
  <1>3. Promise!Bring(v)
    BY <1>1, <1>2 DEF Promise!Bring, Where
  <1>4. QED
    BY <1>3 DEF Promise!Next

LEMMA DeleteIsRemove ==
  ASSUME IInv, NEW v \in Vehicles, DeleteVehicle(v)
  PROVE  Promise!Next
  <1> USE DEF IInv, TypeOK
  <1>1. v \in vehicles /\ vehicles' = vehicles \ {v}
        /\ \A q \in Peds : rec'[q] = IF q \in RemovedWith(v) THEN NewRecord ELSE rec[q]
    BY DEF DeleteVehicle, RemoveVehicle, Forget
  <1>2. \A q \in RemovedWith(v) : rec[q].veh = v
    BY DEF RemovedWith
  <1>3. NewRecord.veh = INVALID /\ INVALID \notin Vehicles /\ OnFoot.veh = INVALID
    BY SeatsAssumption DEF NewRecord, OnFoot, At
  <1>4. \A q \in Peds : Where'[q] = IF Where[q] # OnFoot /\ Where[q].veh = v THEN OnFoot
                                    ELSE Where[q]
    BY <1>1, <1>2, <1>3 DEF Where, Effective, SeatsTypeOK
  <1>5. Where' = [q \in Peds |-> IF Where[q] # OnFoot /\ Where[q].veh = v THEN OnFoot
                                 ELSE Where[q]]
    BY <1>4 DEF Where
  <1>6. Promise!Remove(v)
    BY <1>1, <1>5 DEF Promise!Remove, Where
  <1>7. QED
    BY <1>6 DEF Promise!Next

LEMMA StepKeepsPromise ==
  ASSUME IInv, RoundTrip, [Next]_vars
  PROVE  [Promise!Next]_(Promise!seatingVars)
  <1> DEFINE Still == UNCHANGED <<vehicles, Where>>
  <1>0. Still => UNCHANGED Promise!seatingVars
    BY DEF Promise!seatingVars, Where
  <1>1. CASE UNCHANGED vars
    BY <1>0, <1>1 DEF vars, seatVars, Where, Effective
  <1>2. CASE Next
    <2>1. ASSUME NEW p \in Peds, NEW v \in Vehicles, NEW door \in Doors, NEW hop \in BOOLEAN,
                 RequestEnter(p, v, door, hop)
          PROVE  Promise!Next
      BY <2>1, EnterIsSit
    <2>2. ASSUME NEW p \in Peds, NEW v \in Vehicles, RequestExit(p, v)
          PROVE  Promise!Next
      BY <2>2, ExitIsRise
    <2>3. ASSUME NEW p \in Peds, TakeAnswer(p) \/ DropVehicle(p) \/ SendSync(p)
          PROVE  Still
      BY <2>3 DEF TakeAnswer, DropVehicle, SendSync, seatVars, Where, Effective
    <2>4. ASSUME NEW p \in Peds, ReceiveSync(p)
          PROVE  Still
      BY <2>4, SyncChangesNothing, NothingMoves
    <2>5. ASSUME NEW v \in Vehicles, AddVehicle(v) \/ DeleteVehicle(v)
          PROVE  Promise!Next
      BY <2>5, AddIsBring, DeleteIsRemove
    <2>6. ASSUME NEW p \in Peds, NEW c \in Clients, AddPed(p, c)
          PROVE  Still
      BY <2>6, AddPedUnseen, NothingMoves
    <2>7. ASSUME NEW p \in Peds, DeletePed(p)
          PROVE  Promise!Next
      BY <2>7, DeletePedIsRise
    <2>8. CASE TimePasses
      <3>1. Still
        BY <2>8 DEF TimePasses, Tick, Where, Effective
      <3>2. QED
        BY <1>0, <3>1
    <2>9. QED
      BY <1>0, <1>2, <2>1, <2>2, <2>3, <2>4, <2>5, <2>6, <2>7, <2>8 DEF Next
  <1>3. QED
    BY <1>1, <1>2

(* Requests, answers, sync packets, records and tables together implement  *)
(* the abstract specification of who sits where.                           *)
THEOREM SeatingImplemented ==
  ASSUME RoundTrip
  PROVE  Spec => ImplementsSeating
  <1>1. Init => Promise!Init
    BY SeatsAssumption DEF Init, SeatsInit, Promise!Init, Effective, NewRecord, OnFoot, At
  <1>2. QED
    BY <1>1, Inductive, StepKeepsPromise, PTL DEF Spec, ImplementsSeating, Promise!Spec

(* What the promise is for: no two peds sit in one seat.                   *)
THEOREM NoSharedSeat ==
  ASSUME RoundTrip
  PROVE  Spec => []Promise!OneEach
  <1>1. IInv => Promise!OneEach
    <2> SUFFICES ASSUME IInv, NEW p \in Peds, NEW q \in Peds, p # q,
                        Effective(rec[p]) # OnFoot, Effective(rec[p]) = Effective(rec[q])
                 PROVE  FALSE
      BY DEF Promise!OneEach
    <2>1. rec[p] = rec[q] /\ rec[p].veh \in vehicles
      BY DEF Effective
    <2>2. Effective(rec[p]) \in RealPlace
      <3>1. CASE answers[p] = <<>>
        <4>1. Effective(rec[p]) = Effective(view[p]) /\ view[p] \in RealPlace
          BY <3>1 DEF IInv, ViewsAgree, TypeOK
        <4>2. QED
          BY <4>1 DEF Effective, RealPlace
      <3>2. CASE answers[p] # <<>>
        <4>1. answers[p] \in Seq(RealPlace) /\ answers[p][Len(answers[p])] = rec[p]
          BY <3>2 DEF IInv, AnswersFresh, TypeOK
        <4>2. Len(answers[p]) \in 1..Len(answers[p])
          BY <3>2, <4>1
        <4>3. rec[p] \in RealPlace
          BY <4>1, <4>2
        <4>4. QED
          BY <4>3 DEF Effective, RealPlace
      <3>3. QED
        BY <3>1, <3>2
    <2>3. PICK v \in Vehicles, s \in Seats : rec[p] = At(v, s)
      BY <2>1, <2>2 DEF RealPlace, Effective
    <2>4. v \in vehicles
      BY <2>1, <2>3 DEF At
    <2>5. slot[v][s] = p /\ slot[v][s] = q
      <3>1. rec[p] = At(v, s) /\ rec[q] = At(v, s)
        BY <2>1, <2>3
      <3>2. \A r \in Peds : slot[v][s] = r <=> rec[r] = At(v, s)
        BY <2>4 DEF IInv, TableExact
      <3>3. QED
        BY <3>1, <3>2
    <2>6. QED
      BY <2>5
  <1>2. QED
    BY <1>1, Inductive, PTL

(* The server and a game differ for no longer than an answer may take.     *)
THEOREM ApartBriefly ==
  ASSUME RoundTrip
  PROVE  Spec => []BrieflyApart
  <1>1. IInv => BrieflyApart
    BY DEF IInv, ViewsAgree, AnswersFresh, BrieflyApart
  <1>2. QED
    BY <1>1, Inductive, PTL

-----------------------------------------------------------------------------
(* Two runs show that what the code says of entries and of reports is not  *)
(* so.  Both times it takes what Spec leaves out: traffic that is          *)
(* registered sitting, and reports of games that did not ask.              *)

(* A step that takes a vehicle away puts nobody into it.                   *)
LEMMA GoneVehicleUnused ==
  ASSUME IInv, [Next]_vars, NEW v \in vehicles, v \notin vehicles', NEW p \in Peds, NEW s \in Seats,
         rec'[p] = At(v, s)
  PROVE  rec[p] = At(v, s)
  <1>1. [SeatsNext]_seatVars
    BY StepIsSeatStep DEF IInv
  <1>2. PICK w \in Vehicles : RemoveVehicle(w)
    <2>1. ~UNCHANGED seatVars
      BY DEF seatVars
    <2>2. QED
      BY <1>1, <2>1
      DEF SeatsNext, ReadSyncPacket, ApproveEnter, ApproveExit, CreateVehicle, CreateHuman,
          CreateCivilian, DestroyPed, SetSyncer, Tick
  <1>3. rec'[p] \in {rec[p], NewRecord}
    BY <1>2 DEF RemoveVehicle, Forget
  <1>4. v \in Vehicles /\ At(v, s) # NewRecord
    BY SeatsAssumption DEF IInv, TypeOK, SeatsTypeOK, At, NewRecord
  <1>5. QED
    BY <1>3, <1>4

(* As long as games ask first and civilians are registered on foot, an     *)
(* entry leaves nobody else recorded in the seat (ServerHuman.h:74).       *)
THEOREM EntriesThrowOut ==
  ASSUME RoundTrip
  PROVE  Spec => EntryThrowsOut
  <1>1. IInv /\ IInv' /\ [Next]_vars =>
          [\A p, q \in Peds, v \in vehicles, s \in Seats :
             p # q /\ rec[p] # At(v, s) /\ rec'[p] = At(v, s) /\ Authoritative(p)'
               => rec'[q] # At(v, s)]_vars
    <2> SUFFICES ASSUME IInv, IInv', [Next]_vars,
                        NEW p \in Peds, NEW q \in Peds, NEW v \in vehicles, NEW s \in Seats,
                        p # q, rec[p] # At(v, s), rec'[p] = At(v, s), rec'[q] = At(v, s)
                 PROVE  FALSE
      OBVIOUS
    <2>1. v \in vehicles'
      BY GoneVehicleUnused
    <2>2. \A r \in Peds : slot'[v][s] = r <=> rec'[r] = At(v, s)
      BY <2>1 DEF IInv, TableExact
    <2>3. slot'[v][s] = p /\ slot'[v][s] = q
      BY <2>2
    <2>4. QED
      BY <2>3
  <1>2. QED
    BY <1>1, Inductive, PTL DEF Spec, EntryThrowsOut
=============================================================================
