---------------------------- MODULE SeatRequests ----------------------------
(***************************************************************************)
(* VehicleSeats composed with the games of the clients that hold an enter  *)
(* or exit back until the server has answered (MafiaServer.cpp:320-322),   *)
(* and with the two directions of the connection between them.             *)
(*                                                                         *)
(* The client is not in this repository.  What is modelled of it is what   *)
(* the server's code and comments rely on: a game moves a ped in or out of *)
(* a vehicle only on the server's answer, it throws out the ped another    *)
(* one takes the seat of (ServerHuman.cpp:486), it takes a ped out of a    *)
(* vehicle that is deleted, and the ped's syncer reports, again and again, *)
(* where its game has the ped.  Answers are reliable and ordered; sync     *)
(* packets may be lost, delayed, repeated and overtake each other.         *)
(*                                                                         *)
(* An answer takes effect within Down ticks of the last decision on the    *)
(* ped and a sync packet is not under way for more than Up ticks.  The     *)
(* window of VEHICLE_STATE_AUTHORITY_MS is there because Down + Up is not  *)
(* zero, and it has to be longer than that: RoundTrip.                     *)
(***************************************************************************)
EXTENDS VehicleSeats, Sequences, FiniteSets

CONSTANTS Down, Up,     \* bounds on the two delays, in ticks
          MaxAnswers,   \* bound of the model: answers under way to one ped's game
          MaxSyncs      \* bound of the model: sync packets under way from it

ASSUME DelayAssumption ==
  /\ Down \in Nat
  /\ Up \in Nat
  /\ MaxAnswers \in Nat
  /\ MaxSyncs \in Nat

RoundTrip == Down + Up < Authority

VARIABLES view,     \* view[p]: where the game of p's syncer has p
          answers,  \* answers[p]: where the answers under way will put p, in order
          syncs     \* syncs[p]: the sync packets under way, with their ages

gameVars == <<view, answers, syncs>>
vars == <<seatVars, gameVars>>

RealPlace == {At(v, s) : v \in Vehicles, s \in Seats} \cup {OnFoot}
SyncPacket == [at : RealPlace, age : 0..Up]

TypeOK ==
  /\ SeatsTypeOK
  /\ view \in [Peds -> RealPlace]
  /\ answers \in [Peds -> Seq(RealPlace)]
  /\ syncs \in [Peds -> SUBSET SyncPacket]

(* Where a record or a report puts a ped: nowhere, once the vehicle it     *)
(* names has been removed.                                                 *)
Effective(at) == IF at.veh \in vehicles THEN at ELSE OnFoot

-----------------------------------------------------------------------------
(* Every ped a decision moves gets the answer, the one that is thrown out  *)
(* as well as the one that asked: it is broadcast to everyone.             *)
Announce(moved) ==
  /\ \A p \in moved : Len(answers[p]) < MaxAnswers
  /\ answers' = [p \in Peds |-> IF p \in moved THEN Append(answers[p], rec'[p])
                                ELSE answers[p]]
  /\ UNCHANGED <<view, syncs>>

RequestEnter(p, v, door, hop) ==
  /\ \E c \in Clients : ApproveEnter(c, p, v, door, hop)
  /\ Announce({p} \cup Displaced(p, v, SeatOfDoor(door, hop)))

RequestExit(p, v) ==
  /\ \E c \in Clients : ApproveExit(c, p, v)
  /\ Announce({p})

(* The game acts on the next answer. *)
TakeAnswer(p) ==
  /\ answers[p] # <<>>
  /\ view' = [view EXCEPT ![p] = Head(answers[p])]
  /\ answers' = [answers EXCEPT ![p] = Tail(@)]
  /\ UNCHANGED <<seatVars, syncs>>

(* The game loses the vehicle the ped is in. *)
DropVehicle(p) ==
  /\ Effective(view[p]) # view[p]
  /\ view' = [view EXCEPT ![p] = OnFoot]
  /\ UNCHANGED <<seatVars, answers, syncs>>

(* The ped's syncer reports where its game has the ped. *)
SendSync(p) ==
  LET packets == syncs[p] \cup {[at |-> view[p], age |-> 0]}
  IN  /\ p \in peds
      /\ Cardinality(packets) <= MaxSyncs
      /\ syncs' = [syncs EXCEPT ![p] = packets]
      /\ UNCHANGED <<seatVars, view, answers>>

(* A packet arrives; it, or a repetition of it, may still be under way.    *)
ReceiveSync(p) ==
  \E k \in syncs[p], again \in BOOLEAN :
    /\ ReadSyncPacket(p, k.at.veh, k.at.seat)
    /\ syncs' = IF again THEN syncs ELSE [syncs EXCEPT ![p] = @ \ {k}]
    /\ UNCHANGED <<view, answers>>

-----------------------------------------------------------------------------
(* Objects come and go as in VehicleSeats.  A vehicle's id is not given    *)
(* out again while anything still names the vehicle that had it before.    *)

Mentions(p, v) ==
  \/ rec[p].veh = v
  \/ view[p].veh = v
  \/ \E i \in 1..Len(answers[p]) : answers[p][i].veh = v
  \/ \E k \in syncs[p] : k.at.veh = v

AddVehicle(v) ==
  /\ \A p \in Peds : ~Mentions(p, v)
  /\ CreateVehicle(v, NoClient)
  /\ UNCHANGED gameVars

DeleteVehicle(v) ==
  /\ RemoveVehicle(v)
  /\ view' = [p \in Peds |-> IF p \in RemovedWith(v) THEN OnFoot ELSE view[p]]
  /\ answers' = [p \in Peds |-> IF p \in RemovedWith(v) THEN <<>> ELSE answers[p]]
  /\ syncs' = [p \in Peds |-> IF p \in RemovedWith(v) THEN {} ELSE syncs[p]]

AddPed(p, c) ==
  /\ CreateHuman(p, c) \/ CreateCivilian(p, c, OnFoot, INVALID, -1)
  /\ UNCHANGED gameVars

DeletePed(p) ==
  /\ DestroyPed(p)
  /\ view' = [view EXCEPT ![p] = OnFoot]
  /\ answers' = [answers EXCEPT ![p] = <<>>]
  /\ syncs' = [syncs EXCEPT ![p] = {}]

(* A client registers a civilian that already sits in one of its vehicles. *)
AddDriver(p, c, v, s) ==
  /\ v \in vehicles
  /\ \A q \in Peds : view[q] # At(v, s)
  /\ CreateCivilian(p, c, At(v, s), v, s)
  /\ view' = [view EXCEPT ![p] = At(v, s)]
  /\ UNCHANGED <<answers, syncs>>

(* Time passes, but not beyond the delay of an answer; a sync packet that  *)
(* gets too old is lost.                                                   *)
TimePasses ==
  /\ \A p \in Peds : answers[p] # <<>> => age[p] < Down
  /\ Tick
  /\ syncs' = [p \in Peds |->
                 {[at |-> k.at, age |-> k.age + 1] : k \in {j \in syncs[p] : j.age < Up}}]
  /\ UNCHANGED <<view, answers>>

-----------------------------------------------------------------------------
Init ==
  /\ SeatsInit
  /\ view = [p \in Peds |-> OnFoot]
  /\ answers = [p \in Peds |-> <<>>]
  /\ syncs = [p \in Peds |-> {}]

Next ==
  \/ \E p \in Peds, v \in Vehicles :
       \/ \E door \in Doors, hop \in BOOLEAN : RequestEnter(p, v, door, hop)
       \/ RequestExit(p, v)
  \/ \E p \in Peds : TakeAnswer(p) \/ DropVehicle(p) \/ SendSync(p) \/ ReceiveSync(p)
  \/ \E v \in Vehicles : AddVehicle(v) \/ DeleteVehicle(v)
  \/ \E p \in Peds, c \in Clients : AddPed(p, c)
  \/ \E p \in Peds : DeletePed(p)
  \/ TimePasses

Spec == Init /\ [][Next]_vars

(* With the traffic that m_bSyncLocalEntities lets the clients register.   *)
TrafficNext ==
  \/ Next
  \/ \E p \in Peds, c \in Clients, v \in Vehicles, s \in Seats : AddDriver(p, c, v, s)

TrafficSpec == Init /\ [][TrafficNext]_vars

(* The clocks run, games act on what reaches them, and sync packets are    *)
(* sent many times a second, so again and again one is sent, and one       *)
(* arrives, while the server's word does not stand: it stands for two      *)
(* seconds after a decision, and for two in every 2^32 milliseconds.       *)
Fairness ==
  /\ WF_vars(TimePasses)
  /\ \A p \in Peds : WF_vars(TakeAnswer(p))
  /\ \A p \in Peds \ Civilians :
       /\ WF_vars(DropVehicle(p))
       /\ SF_vars(~Authoritative(p) /\ SendSync(p))
       /\ SF_vars(~Authoritative(p) /\ ReceiveSync(p))

FairSpec == Spec /\ Fairness

-----------------------------------------------------------------------------
(* The two copies of who sits where agree: a vehicle's table names a ped   *)
(* in a seat exactly when the ped's record says it sits there.  So no two  *)
(* peds are recorded in one seat, and vehicle.getOccupant misses nobody.   *)
TableExact ==
  \A v \in vehicles : \A s \in Seats : \A p \in Peds :
    slot[v][s] = p <=> rec[p] = At(v, s)

(* No sync packet puts back the old answer (ServerHuman.h:66-68): once the *)
(* authority over a ped is gone, whatever is still under way from its      *)
(* syncer agrees with what the server decided.                             *)
StaleSyncsHarmless ==
  \A p \in Peds : ~Authoritative(p) =>
    \A k \in syncs[p] : Effective(k.at) = Effective(rec[p])

(* When every answer has been acted on, the ped's game and the server      *)
(* agree where the ped is.                                                 *)
ViewsAgree ==
  \A p \in Peds : answers[p] = <<>> => Effective(view[p]) = Effective(rec[p])

(* A game is never apart from the server for longer than an answer takes:  *)
(* where the two differ, the decision is that young, and the answer that   *)
(* will put it right is under way.                                         *)
BrieflyApart ==
  \A p \in Peds : Effective(view[p]) # Effective(rec[p]) =>
    /\ age[p] <= Down
    /\ answers[p] # <<>> /\ answers[p][Len(answers[p])] = rec[p]

(* The parts of the inductive invariant that the others rest on.  A   *)
(* ped that is gone has left nothing behind; the last answer under way to  *)
(* a ped's game is what the record says, and the decision is not older     *)
(* than an answer may be; a sync packet differs from the record only if it *)
(* was sent while an answer could still have been under way.               *)
GoneForgotten ==
  \A p \in Peds \ peds :
    rec[p] = NewRecord /\ view[p] = OnFoot /\ answers[p] = <<>> /\ syncs[p] = {}

AnswersFresh ==
  \A p \in Peds : answers[p] # <<>> =>
    age[p] <= Down /\ answers[p][Len(answers[p])] = rec[p]

SyncsFresh ==
  \A p \in Peds : \A k \in syncs[p] :
    Effective(k.at) = Effective(rec[p]) \/ age[p] <= k.age + Down

IInv ==
  /\ TypeOK
  /\ SlotsAlive
  /\ GoneForgotten
  /\ TableExact
  /\ ViewsAgree
  /\ AnswersFresh
  /\ SyncsFresh

(* A ped that outlives the vehicle it was in has a record that names it,   *)
(* because WarpIntoVehicle does not reset it; the sync packets of the      *)
(* ped's syncer put it right in the end.                                   *)
Dangling(p) == p \in peds /\ rec[p].veh \notin vehicles \cup {INVALID}

DanglingCorrected == \A p \in Peds \ Civilians : Dangling(p) ~> ~Dangling(p)

(* Requests, answers, sync packets, records and tables together keep the   *)
(* promise of module Seating: a ped sits where its record says, as long as *)
(* the vehicle exists; receiving a sync packet is then never a change.     *)
Promise == INSTANCE Seating WITH
  Sitters <- Peds, Cars <- Vehicles, Chairs <- Seats, Nowhere <- OnFoot,
  cars <- vehicles, sits <- [p \in Peds |-> Effective(rec[p])]

ImplementsSeating == Promise!Spec

(* What ServerHuman.h:74 says of EnterVehicleSeat, "taking whoever was in  *)
(* it out of it": when a decision puts a ped in a seat, no other ped is    *)
(* recorded there afterwards.                                              *)
EntryThrowsOut ==
  [][\A p, q \in Peds, v \in vehicles, s \in Seats :
       p # q /\ rec[p] # At(v, s) /\ rec'[p] = At(v, s) /\ Authoritative(p)'
         => rec'[q] # At(v, s)]_vars
=============================================================================
