----------------------------- MODULE Ownership -----------------------------
(***************************************************************************)
(* Which objects there are, which clients have them and which client syncs *)
(* them: the traffic and the actors that clients register themselves       *)
(* (CPeer2PeerSystem), what scripts create and what goes with their        *)
(* resource, the clients' players, the requests to become or stop being an *)
(* object's syncer, the packets about peds getting in and out that move    *)
(* vehicles to their syncer, the streaming, and what a disconnection       *)
(* leaves behind.                                                          *)
(*                                                                         *)
(* Objects live in CNetObjectMgr, which belongs to the network library.    *)
(* What is modelled of it: RegisterNetObject gives an object an id that is *)
(* free; SetCreatedFor and SetSyncer write a bit and a pointer;            *)
(* PossiblyDeleteObject destroys a transient object no client has any      *)
(* more; streaming creates near objects for a client and takes distant     *)
(* ones away, which frees them of that client as their syncer, but leaves  *)
(* alone those that always exist for their syncer.                         *)
(*                                                                         *)
(* Positions and dimensions, the checks of the packets, dummies (objects   *)
(* m_bFindSyncer is off for), and what happens to the occupants of a       *)
(* vehicle that goes away are left out; the last is in VehicleSeats.       *)
(***************************************************************************)
EXTENDS Integers, Sequences, FiniteSets

CONSTANTS Clients,     \* indices of machines
          Ids,         \* network ids
          ActorNames,
          Resources,   \* whose scripts create objects
          NoResource,
          NoClient, NoObject,
          MaxThings,   \* bound of the model: length of a list in PACKET_DELETETHING
          MaxEntering  \* bound of the model: peds with the flag at one time

ASSUME OwnershipAssumption ==
  /\ Clients \subseteq Nat
  /\ NoClient \notin Clients
  /\ NoObject \notin Ids
  /\ NoResource \notin Resources
  /\ ActorNames \cap {"gone", "script", "traffic", "player"} = {}
  /\ MaxThings \in Nat
  /\ MaxEntering \in Nat

VARIABLES here,        \* the clients that have a machine
          joined,      \* m_bJoined
          what,        \* what the object with an id is, or "gone"
          createdFor,  \* the clients an object is created for
          syncer,      \* GetSyncer() of an object
          player,      \* the player object of a client
          resource,    \* m_pResource of an object
          entering,    \* the peds with m_EnteringExitingVehicle
          loose        \* history: the players that are to have no client

objectVars == <<what, createdFor, syncer, player, resource, entering, loose>>
vars == <<here, joined, objectVars>>

Kinds == {"gone", "script", "traffic", "player"} \cup ActorNames

Alive == {o \in Ids : what[o] # "gone"}

TypeOK ==
  /\ here \subseteq Clients
  /\ joined \subseteq here
  /\ what \in [Ids -> Kinds]
  /\ createdFor \in [Ids -> SUBSET Clients]
  /\ syncer \in [Ids -> Clients \cup {NoClient}]
  /\ player \in [Clients -> Ids \cup {NoObject}]
  /\ resource \in [Ids -> Resources \cup {NoResource}]
  /\ entering \subseteq Alive
  /\ loose \subseteq Alive

(* m_Flags.m_bAlwaysExistForSyncer and m_bTransient.                       *)
AlwaysExistForSyncer(o) == what[o] \in {"traffic", "player"}
Transient(o) == what[o] = "traffic"

Lowest(machines) == CHOOSE c \in machines : \A d \in machines : c <= d

(* The objects, after those in lost are gone, with the clients that have   *)
(* them and sync them from now on.                                         *)
Settle(lost, had, synced) ==
  /\ what' = [o \in Ids |-> IF o \in lost THEN "gone" ELSE what[o]]
  /\ createdFor' = [o \in Ids |-> IF o \in lost THEN {} ELSE had[o]]
  /\ syncer' = [o \in Ids |-> IF o \in lost THEN NoClient ELSE synced[o]]
  /\ player' = [c \in Clients |-> IF player[c] \in lost THEN NoObject ELSE player[c]]
  /\ resource' = [o \in Ids |-> IF o \in lost THEN NoResource ELSE resource[o]]
  /\ entering' = entering \ lost
  /\ loose' = loose \ lost

(* PossiblyDeleteObject, asked about some objects.                         *)
PossiblyDeleted(asked, had) == {o \in asked : Transient(o) /\ had[o] = {}}

(* RegisterNetObject, with SetCreatedFor and SetSyncer.                    *)
Register(o, kind, had, c, r) ==
  /\ what[o] = "gone"
  /\ what' = [what EXCEPT ![o] = kind]
  /\ createdFor' = [createdFor EXCEPT ![o] = had]
  /\ syncer' = [syncer EXCEPT ![o] = c]
  /\ resource' = [resource EXCEPT ![o] = r]
  /\ UNCHANGED entering

-----------------------------------------------------------------------------
(* Clients come and go. *)

Arrive(c) ==
  /\ c \in Clients \ here
  /\ here' = here \cup {c}
  /\ UNCHANGED <<joined, objectVars>>

(* Fault: packets of peers without a machine are handled.                  *)
JoinUnchecked(c) ==
  /\ joined' = joined \cup {c}
  /\ UNCHANGED <<here, objectVars>>

Join(c) ==
  /\ c \in here
  /\ joined' = joined \cup {c}
  /\ UNCHANGED <<here, objectVars>>

(* Fault: objects are not looked at again after the client has lost them.  *)
LeaveKeepingTraffic(c) ==
  LET had == [o \in Ids |-> createdFor[o] \ {c}]
  IN  /\ c \in here
      /\ here' = here \ {c}
      /\ joined' = joined \ {c}
      /\ Settle({player[c]} \ {NoObject}, had,
                [o \in Ids |-> IF syncer[o] = c THEN NoClient ELSE syncer[o]])

(* Fault: only the objects that are created for the client are looked at.  *)
LeaveSyncing(c) ==
  LET had == [o \in Ids |-> createdFor[o] \ {c}]
  IN  /\ c \in here
      /\ here' = here \ {c}
      /\ joined' = joined \ {c}
      /\ Settle(PossiblyDeleted(Ids, had) \cup ({player[c]} \ {NoObject}), had,
                [o \in Ids |-> IF syncer[o] = c /\ c \in createdFor[o] THEN NoClient
                               ELSE syncer[o]])

(* Fault: the player of the client is left standing.                       *)
LeaveStanding(c) ==
  LET had == [o \in Ids |-> createdFor[o] \ {c}]
  IN  /\ c \in here
      /\ here' = here \ {c}
      /\ joined' = joined \ {c}
      /\ Settle(PossiblyDeleted(Ids, had), had,
                [o \in Ids |-> IF syncer[o] = c THEN NoClient ELSE syncer[o]])

(* What CBaseServer::OnPlayerDisconnect does to the objects.               *)
Leave(c) ==
  LET had == [o \in Ids |-> createdFor[o] \ {c}]
  IN  /\ c \in here
      /\ here' = here \ {c}
      /\ joined' = joined \ {c}
      /\ Settle(PossiblyDeleted(Ids, had) \cup ({player[c]} \ {NoObject}), had,
                [o \in Ids |-> IF syncer[o] = c THEN NoClient ELSE syncer[o]])

-----------------------------------------------------------------------------
(* Objects are created. *)

(* MAFIAPACKET_PEER_CREATECAR and _CREATECIVILIAN, accepted.               *)
RegisterTraffic(c, o) ==
  /\ c \in here
  /\ Register(o, "traffic", {c}, c, NoResource)
  /\ UNCHANGED <<here, joined, player, loose>>

(* Fault: the actor is looked for among those the client has.              *)
ReportActorUnseen(c, n, o) ==
  /\ c \in here
  /\ IF \E x \in Ids : what[x] = n /\ c \in createdFor[x] THEN UNCHANGED <<what, createdFor, syncer, resource, entering>>
     ELSE Register(o, n, {c}, c, NoResource)
  /\ UNCHANGED <<here, joined, player, loose>>

(* MAFIAPACKET_PEER_CREATEACTOR: every client reports the actors of the    *)
(* map, and the first report registers them.                               *)
ReportActor(c, n, o) ==
  /\ c \in here
  /\ IF \E x \in Ids : what[x] = n
     THEN /\ createdFor' = [x \in Ids |-> IF what[x] = n THEN createdFor[x] \cup {c}
                                          ELSE createdFor[x]]
          /\ UNCHANGED <<what, syncer, resource, entering>>
     ELSE Register(o, n, {c}, c, NoResource)
  /\ UNCHANGED <<here, joined, player, loose>>

(* A script's createActorElement, which refuses a name that is taken.      *)
CreateActorElement(n, o, r) ==
  /\ \A x \in Ids : what[x] # n
  /\ Register(o, n, {}, NoClient, r)
  /\ UNCHANGED <<here, joined, player, loose>>

(* A script's createVehicle, createPed and the like.                       *)
CreateElement(o, r) ==
  /\ Register(o, "script", {}, NoClient, r)
  /\ UNCHANGED <<here, joined, player, loose>>

(* A script's createPlayer: a player that is nobody's.                     *)
CreatePlayer(o, r) ==
  /\ Register(o, "player", {}, NoClient, r)
  /\ loose' = loose \cup {o}
  /\ UNCHANGED <<here, joined, player>>

(* A script's spawnPlayer.  The player is of no resource, and the one the  *)
(* client had before stays: DespawnPlayer is commented out there.          *)
SpawnPlayer(c, o) ==
  /\ c \in here
  /\ Register(o, "player", {}, c, NoResource)
  /\ player' = [player EXCEPT ![c] = o]
  /\ loose' = loose \cup ({player[c]} \ {NoObject})
  /\ UNCHANGED <<here, joined>>

(* A script destroys an object.                                            *)
Destroy(o) ==
  /\ o \in Alive
  /\ Settle({o}, createdFor, syncer)
  /\ UNCHANGED <<here, joined>>

(* A resource is stopped: RemoveThingsAssociatedWithResource.              *)
StopResource(r) ==
  /\ Settle({o \in Ids : resource[o] = r}, createdFor, syncer)
  /\ UNCHANGED <<here, joined>>

-----------------------------------------------------------------------------
(* Objects change hands. *)

(* PACKET_REQUESTSYNCER; CanBeSyncer is taken to look at whether the       *)
(* client has the object.                                                  *)
RequestSyncer(c, o) ==
  /\ c \in here
  /\ o \in Alive
  /\ c \in createdFor[o]
  /\ syncer' = [syncer EXCEPT ![o] = c]
  /\ UNCHANGED <<here, joined, what, createdFor, player, resource, entering, loose>>

(* What all packets about a ped and a vehicle ask for.                     *)
MovesPed(c, p, o) ==
  /\ c \in here
  /\ {p, o} \subseteq Alive
  /\ syncer[p] = c
  /\ UNCHANGED <<here, joined, what, createdFor, player, resource, loose>>

(* A client that can be its syncer takes the vehicle its ped drives.       *)
TakeWheel(c, o, wheel) ==
  syncer' = IF wheel /\ c \in createdFor[o] THEN [syncer EXCEPT ![o] = c] ELSE syncer

(* MAFIAPACKET_HUMAN_ENTERINGVEHICLE.                                      *)
EnteringVehicle(c, p, o, wheel) ==
  /\ MovesPed(c, p, o)
  /\ Cardinality(entering \cup {p}) <= MaxEntering
  /\ entering' = entering \cup {p}
  /\ TakeWheel(c, o, wheel)

(* MAFIAPACKET_HUMAN_ENTEREDVEHICLE.                                       *)
EnteredVehicle(c, p, o, wheel) ==
  /\ MovesPed(c, p, o)
  /\ entering' = entering \ {p}
  /\ TakeWheel(c, o, wheel)

(* MAFIAPACKET_HUMAN_EXITINGVEHICLE.                                       *)
ExitingVehicle(c, p, o) ==
  /\ MovesPed(c, p, o)
  /\ Cardinality(entering \cup {p}) <= MaxEntering
  /\ entering' = entering \cup {p}
  /\ UNCHANGED syncer

(* MAFIAPACKET_HUMAN_EXITEDVEHICLE.                                        *)
ExitedVehicle(c, p, o) ==
  /\ MovesPed(c, p, o)
  /\ entering' = entering \ {p}
  /\ UNCHANGED syncer

(* MAFIAPACKET_HUMAN_JACKVEHICLE: the syncer of a ped that takes the       *)
(* wheel takes the vehicle over, whether it has the vehicle or not.        *)
JackVehicle(c, p, o) ==
  /\ MovesPed(c, p, o)
  /\ syncer' = [syncer EXCEPT ![o] = c]
  /\ UNCHANGED entering

(* The client wants the thing gone and may have it so.                     *)
MayDelete(c, o) == o \in Alive /\ syncer[o] = c /\ AlwaysExistForSyncer(o)

(* How far PACKET_DELETETHING gets in its list: the handler returns after  *)
(* the first object it destroys.                                           *)
Handled(c, things) ==
  {things[i] : i \in {j \in 1..Len(things) : \A k \in 1..(j - 1) : ~MayDelete(c, things[k])}}

DeleteThings(c, things) ==
  LET handled == Handled(c, things)
      had == [o \in Ids |-> IF o \in handled THEN createdFor[o] \ {c} ELSE createdFor[o]]
  IN  /\ c \in here
      /\ Settle({o \in handled : MayDelete(c, o)} \cup PossiblyDeleted(handled, had), had, syncer)
      /\ UNCHANGED <<here, joined>>

(* What the clients that have joined are near to is created for them, what *)
(* they are far from is taken away; then every object without a syncer     *)
(* gets the lowest client that has it.                                     *)
UpdateStreaming ==
  LET keeps(c, o) == AlwaysExistForSyncer(o) /\ syncer[o] = c
  IN  \E near \in SUBSET {x \in joined \X Alive : ~keeps(x[1], x[2])} :
        LET had == [o \in Ids |-> (createdFor[o] \ joined)
                                    \cup {c \in joined : keeps(c, o) \/ <<c, o>> \in near}]
            left(o) == IF syncer[o] \in createdFor[o] \ had[o] THEN NoClient ELSE syncer[o]
            found(o) == IF left(o) = NoClient /\ had[o] # {} THEN Lowest(had[o]) ELSE left(o)
        IN  /\ here # {}
            /\ Settle(PossiblyDeleted(Ids, had), had, [o \in Ids |-> found(o)])
            /\ UNCHANGED <<here, joined>>

-----------------------------------------------------------------------------
Init ==
  /\ here = {}
  /\ joined = {}
  /\ what = [o \in Ids |-> "gone"]
  /\ createdFor = [o \in Ids |-> {}]
  /\ syncer = [o \in Ids |-> NoClient]
  /\ player = [c \in Clients |-> NoObject]
  /\ resource = [o \in Ids |-> NoResource]
  /\ entering = {}
  /\ loose = {}

Things == UNION {[1..k -> Ids] : k \in 1..MaxThings}

Next ==
  \/ \E c \in Clients :
       \/ Arrive(c) \/ Join(c) \/ Leave(c)
       \/ \E o \in Ids : RegisterTraffic(c, o) \/ SpawnPlayer(c, o) \/ RequestSyncer(c, o)
       \/ \E o \in Ids, n \in ActorNames : ReportActor(c, n, o)
       \/ \E p, o \in Ids : JackVehicle(c, p, o) \/ ExitingVehicle(c, p, o) \/ ExitedVehicle(c, p, o)
       \/ \E p, o \in Ids, wheel \in BOOLEAN :
            EnteringVehicle(c, p, o, wheel) \/ EnteredVehicle(c, p, o, wheel)
       \/ \E things \in Things : DeleteThings(c, things)
  \/ \E o \in Ids : Destroy(o)
  \/ \E o \in Ids, r \in Resources : CreateElement(o, r) \/ CreatePlayer(o, r)
  \/ \E o \in Ids, n \in ActorNames, r \in Resources : CreateActorElement(n, o, r)
  \/ \E r \in Resources : StopResource(r)
  \/ UpdateStreaming

Spec == Init /\ [][Next]_vars

-----------------------------------------------------------------------------
(* Only a client that is still there syncs an object or has one: the       *)
(* indices of machines are given out again, and a new client must not be   *)
(* taken for the owner of what the old one left.                           *)
OwnersHere ==
  \A o \in Ids : syncer[o] \in here \cup {NoClient} /\ createdFor[o] \subseteq here

(* However many clients report an actor of the map, and whoever comes,     *)
(* goes and deletes in between, there is one element for it                *)
(* (Peer2PeerSystem.cpp:108-110).                                          *)
ActorsUnique ==
  \A n \in ActorNames : \A x, y \in Ids : what[x] = n /\ what[y] = n => x = y

(* Traffic does not outlive the clients that have it: when the last one    *)
(* has left, deleted it or been streamed away from it, it is gone.         *)
TrafficHeld ==
  \A o \in Ids : what[o] = "traffic" => createdFor[o] # {}

(* A player belongs to one client that is there and goes when that client  *)
(* goes, whoever syncs it by then.  Only the players that createPlayer     *)
(* made and those that a later spawnPlayer replaced (MafiaServerManager.   *)
(* cpp:24) belong to nobody, and no client is left with one of them.       *)
PlayersOwned ==
  \A o \in Ids : what[o] = "player" =>
    IF o \in loose THEN \A c \in Clients : player[c] # o
    ELSE \E c \in here : \A d \in Clients : player[d] = o <=> d = c

(* "If the syncer wants to delete it and we forced it to always exist for  *)
(* the syncer, let it delete it" (BaseServer.cpp:1008): nothing in the     *)
(* list that the client may delete is left.                                *)
DeletedAsAsked ==
  [][\A c \in Clients, things \in Things : DeleteThings(c, things) =>
       \A i \in 1..Len(things) : MayDelete(c, things[i]) => what'[things[i]] = "gone"]_vars

(* What is left of it: the first of the list that the client may delete is *)
(* gone, of what comes before it the client has nothing any more, and      *)
(* besides that only traffic is gone that is in the list and nobody else   *)
(* has; what others have stays theirs.                                     *)
FirstDeleted ==
  [][\A c \in Clients, things \in Things : DeleteThings(c, things) =>
       /\ \A i \in 1..Len(things) : (\A k \in 1..(i - 1) : ~MayDelete(c, things[k])) =>
            /\ MayDelete(c, things[i]) => what'[things[i]] = "gone"
            /\ c \notin createdFor'[things[i]]
       /\ \A o \in Alive : what'[o] = "gone" =>
            /\ \E i \in 1..Len(things) : things[i] = o
            /\ MayDelete(c, o) \/ (what[o] = "traffic" /\ createdFor[o] = {c})
       /\ \A o \in Ids, d \in Clients \ {c} :
            what'[o] # "gone" => (d \in createdFor'[o] <=> d \in createdFor[o])]_vars
=============================================================================
