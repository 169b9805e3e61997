-------------------------- MODULE OwnershipProofs --------------------------
(***************************************************************************)
(* For any number of clients, objects and actors, and for lists of any     *)
(* length in PACKET_DELETETHING: objects belong to clients that are there, *)
(* an actor of the map has one element, traffic goes with the last client  *)
(* that has it, and players go with their clients.                         *)
(***************************************************************************)
EXTENDS Ownership, CommonProofs

HasClient(o) == \E c \in Clients : player[c] = o

(* What the pointers from clients to their players keep to.                *)
Pointers ==
  /\ \A c \in Clients : player[c] # NoObject => c \in here /\ what[player[c]] = "player"
  /\ \A c, d \in Clients : player[c] # NoObject /\ player[c] = player[d] => c = d
  /\ \A o \in Ids : what[o] = "player" => (HasClient(o) <=> o \notin loose)

Inv ==
  /\ TypeOK
  /\ OwnersHere
  /\ ActorsUnique
  /\ TrafficHeld
  /\ Pointers

-----------------------------------------------------------------------------
(* Objects that are settled keep their types, their names and their        *)
(* clients' pointers.                                                      *)
LEMMA SettleTypes ==
  ASSUME TypeOK, NEW lost, NEW had, NEW synced,
         had \in [Ids -> SUBSET Clients], synced \in [Ids -> Clients \cup {NoClient}],
         Settle(lost, had, synced)
  PROVE  /\ what' \in [Ids -> Kinds]
         /\ createdFor' \in [Ids -> SUBSET Clients]
         /\ syncer' \in [Ids -> Clients \cup {NoClient}]
         /\ player' \in [Clients -> Ids \cup {NoObject}]
         /\ resource' \in [Ids -> Resources \cup {NoResource}]
         /\ entering' \subseteq Alive' /\ loose' \subseteq Alive'
  <1>1. what' \in [Ids -> Kinds] /\ resource' \in [Ids -> Resources \cup {NoResource}]
    BY DEF TypeOK, Settle, Kinds
  <1>2. entering' \subseteq Alive' /\ loose' \subseteq Alive'
    BY DEF TypeOK, Settle, Alive
  <1>3. QED
    BY <1>1, <1>2 DEF TypeOK, Settle, Kinds

LEMMA SettleActors ==
  ASSUME ActorsUnique, NEW lost, NEW had, NEW synced, Settle(lost, had, synced)
  PROVE  ActorsUnique'
  <1>1. \A n \in ActorNames : n # "gone"
    BY OwnershipAssumption
  <1>2. QED
    BY <1>1 DEF ActorsUnique, Settle

(* Traffic is held if what no client has any more is among the lost.       *)
LEMMA SettleTraffic ==
  ASSUME NEW lost, NEW had, NEW synced, Settle(lost, had, synced),
         \A o \in Ids : what[o] = "traffic" /\ had[o] = {} => o \in lost
  PROVE  TrafficHeld'
  BY DEF TrafficHeld, Settle

(* Owners are there, if the clients that are left with objects are.        *)
LEMMA SettleOwners ==
  ASSUME NEW lost, NEW had, NEW synced, Settle(lost, had, synced),
         \A o \in Ids : synced[o] \in here' \cup {NoClient} /\ had[o] \subseteq here'
  PROVE  OwnersHere'
  BY DEF OwnersHere, Settle

(* Pointers stay right, if a client that goes loses its player.            *)
LEMMA SettlePointers ==
  ASSUME TypeOK, Pointers, NEW lost, NEW had, NEW synced, Settle(lost, had, synced),
         \A c \in Clients : player[c] # NoObject /\ player[c] \notin lost => c \in here'
  PROVE  Pointers'
  <1>1. \A c \in Clients : player'[c] # NoObject =>
          player'[c] = player[c] /\ player[c] \in Ids /\ player[c] \notin lost
    BY DEF TypeOK, Settle
  <1>2. \A c \in Clients : player'[c] # NoObject => c \in here' /\ what'[player'[c]] = "player"
    <2> SUFFICES ASSUME NEW c \in Clients, player'[c] # NoObject
                 PROVE  c \in here' /\ what'[player'[c]] = "player"
      OBVIOUS
    <2>1. player'[c] = player[c] /\ player[c] \in Ids /\ player[c] \notin lost
      BY <1>1
    <2>2. player[c] # NoObject /\ what[player[c]] = "player"
      BY <2>1 DEF Pointers
    <2>3. what'[player[c]] = what[player[c]]
      BY <2>1 DEF Settle
    <2>4. QED
      BY <2>1, <2>2, <2>3
  <1>3. \A c, d \in Clients : player'[c] # NoObject /\ player'[c] = player'[d] => c = d
    BY <1>1 DEF Pointers
  <1>4. \A o \in Ids : what'[o] = "player" => (HasClient(o)' <=> o \notin loose')
    <2> SUFFICES ASSUME NEW o \in Ids, what'[o] = "player"
                 PROVE  HasClient(o)' <=> o \notin loose'
      OBVIOUS
    <2>1. o \notin lost /\ what[o] = "player" /\ (o \in loose <=> o \in loose')
      BY DEF Settle
    <2>2. \A c \in Clients : player'[c] = o <=> player[c] = o
      BY <2>1, OwnershipAssumption DEF Settle
    <2>3. QED
      BY <2>1, <2>2 DEF Pointers, HasClient
  <1>5. QED
    BY <1>2, <1>3, <1>4 DEF Pointers

-----------------------------------------------------------------------------
(* A disconnection.                                                        *)
LEMMA LeaveKeeps ==
  ASSUME Inv, NEW c \in Clients, Leave(c)
  PROVE  Inv'
  <1> DEFINE had == [o \in Ids |-> createdFor[o] \ {c}]
             synced == [o \in Ids |-> IF syncer[o] = c THEN NoClient ELSE syncer[o]]
             lost == PossiblyDeleted(Ids, had) \cup ({player[c]} \ {NoObject})
  <1> TypeOK /\ OwnersHere /\ ActorsUnique /\ TrafficHeld /\ Pointers
    BY DEF Inv
  <1>1. Settle(lost, had, synced) /\ here' = here \ {c} /\ joined' = joined \ {c}
    BY DEF Leave
  <1>2. had \in [Ids -> SUBSET Clients] /\ synced \in [Ids -> Clients \cup {NoClient}]
    BY DEF TypeOK
  <1>3. \A o \in Ids : what[o] = "traffic" /\ had[o] = {} => o \in lost
    BY DEF PossiblyDeleted, Transient
  <1>4. \A o \in Ids : synced[o] \in here' \cup {NoClient} /\ had[o] \subseteq here'
    BY <1>1 DEF OwnersHere
  <1>5. \A d \in Clients : player[d] # NoObject /\ player[d] \notin lost => d \in here'
    <2> SUFFICES ASSUME NEW d \in Clients, player[d] # NoObject, player[d] \notin lost
                 PROVE  d \in here'
      OBVIOUS
    <2>1. d \in here /\ d # c
      BY DEF Pointers
    <2>2. QED
      BY <1>1, <2>1
  <1> HIDE DEF had, synced, lost
  <1>6. TypeOK'
    BY <1>1, <1>2, SettleTypes DEF TypeOK
  <1>7. ActorsUnique'
    BY <1>1, SettleActors
  <1>8. TrafficHeld'
    BY <1>1, <1>3, SettleTraffic
  <1>9. OwnersHere'
    BY <1>1, <1>4, SettleOwners
  <1>10. Pointers'
    BY <1>1, <1>5, SettlePointers
  <1>11. QED
    BY <1>6, <1>7, <1>8, <1>9, <1>10 DEF Inv

(* A script destroys an object.                                            *)
LEMMA DestroyKeeps ==
  ASSUME Inv, NEW o \in Ids, Destroy(o)
  PROVE  Inv'
  <1> TypeOK /\ OwnersHere /\ ActorsUnique /\ TrafficHeld /\ Pointers
    BY DEF Inv
  <1>1. Settle({o}, createdFor, syncer) /\ here' = here /\ joined' = joined
    BY DEF Destroy
  <1>2. TypeOK'
    BY <1>1, SettleTypes DEF TypeOK
  <1>3. ActorsUnique'
    BY <1>1, SettleActors
  <1>4. TrafficHeld'
    BY <1>1, SettleTraffic DEF TrafficHeld
  <1>5. OwnersHere'
    BY <1>1, SettleOwners DEF OwnersHere
  <1>6. Pointers'
    BY <1>1, SettlePointers DEF Pointers
  <1>7. QED
    BY <1>2, <1>3, <1>4, <1>5, <1>6 DEF Inv

(* A resource goes with its objects.                                       *)
LEMMA StopKeeps ==
  ASSUME Inv, NEW r \in Resources, StopResource(r)
  PROVE  Inv'
  <1> DEFINE lost == {o \in Ids : resource[o] = r}
  <1> TypeOK /\ OwnersHere /\ ActorsUnique /\ TrafficHeld /\ Pointers
    BY DEF Inv
  <1>1. Settle(lost, createdFor, syncer) /\ here' = here /\ joined' = joined
    BY DEF StopResource
  <1> HIDE DEF lost
  <1>2. TypeOK'
    BY <1>1, SettleTypes DEF TypeOK
  <1>3. ActorsUnique'
    BY <1>1, SettleActors
  <1>4. TrafficHeld'
    BY <1>1, SettleTraffic DEF TrafficHeld
  <1>5. OwnersHere'
    BY <1>1, SettleOwners DEF OwnersHere
  <1>6. Pointers'
    BY <1>1, SettlePointers DEF Pointers
  <1>7. QED
    BY <1>2, <1>3, <1>4, <1>5, <1>6 DEF Inv

(* A client's list of things to delete.                                    *)
LEMMA DeleteKeeps ==
  ASSUME Inv, NEW c \in Clients, NEW things \in Things, DeleteThings(c, things)
  PROVE  Inv'
  <1> DEFINE handled == Handled(c, things)
             had == [o \in Ids |-> IF o \in handled THEN createdFor[o] \ {c} ELSE createdFor[o]]
             lost == {o \in handled : MayDelete(c, o)} \cup PossiblyDeleted(handled, had)
  <1> TypeOK /\ OwnersHere /\ ActorsUnique /\ TrafficHeld /\ Pointers
    BY DEF Inv
  <1>1. Settle(lost, had, syncer) /\ here' = here /\ joined' = joined
    BY DEF DeleteThings
  <1>2. had \in [Ids -> SUBSET Clients]
    BY DEF TypeOK
  <1>3. \A o \in Ids : what[o] = "traffic" /\ had[o] = {} => o \in lost
    BY DEF PossiblyDeleted, Transient, TrafficHeld
  <1>4. \A o \in Ids : syncer[o] \in here' \cup {NoClient} /\ had[o] \subseteq here'
    BY <1>1 DEF OwnersHere
  <1> HIDE DEF handled, had, lost
  <1>5. TypeOK'
    BY <1>1, <1>2, SettleTypes DEF TypeOK
  <1>6. ActorsUnique'
    BY <1>1, SettleActors
  <1>7. TrafficHeld'
    BY <1>1, <1>3, SettleTraffic
  <1>8. OwnersHere'
    BY <1>1, <1>4, SettleOwners
  <1>9. Pointers'
    BY <1>1, SettlePointers DEF Pointers
  <1>10. QED
    BY <1>5, <1>6, <1>7, <1>8, <1>9 DEF Inv

(* There is a lowest among the clients that have an object.                *)
LEMMA LowestFound ==
  ASSUME NEW T, T \subseteq Clients, T # {}
  PROVE  Lowest(T) \in T
  <1>1. T \subseteq Nat
    BY OwnershipAssumption
  <1>2. \E i \in T : \A j \in T : i <= j
    BY <1>1, LeastExists
  <1>3. QED
    BY <1>2 DEF Lowest

(* A round of streaming.                                                   *)
LEMMA StreamKeeps ==
  ASSUME Inv, UpdateStreaming
  PROVE  Inv'
  <1> TypeOK /\ OwnersHere /\ ActorsUnique /\ TrafficHeld /\ Pointers
    BY DEF Inv
  <1> DEFINE keeps(c, o) == AlwaysExistForSyncer(o) /\ syncer[o] = c
             Had(near) == [o \in Ids |-> (createdFor[o] \ joined)
                             \cup {c \in joined : keeps(c, o) \/ <<c, o>> \in near}]
             left(had, o) == IF syncer[o] \in createdFor[o] \ had[o] THEN NoClient ELSE syncer[o]
             Found(had) == [o \in Ids |-> IF left(had, o) = NoClient /\ had[o] # {}
                                          THEN Lowest(had[o]) ELSE left(had, o)]
  <1>1. PICK near \in SUBSET {x \in joined \X Alive : ~keeps(x[1], x[2])} :
          /\ Settle(PossiblyDeleted(Ids, Had(near)), Had(near), Found(Had(near)))
          /\ here' = here /\ joined' = joined
    BY DEF UpdateStreaming
  <1> DEFINE had == Had(near)
             lost == PossiblyDeleted(Ids, had)
  <1>2. \A o \in Ids : had[o] \subseteq here
    BY DEF TypeOK, OwnersHere
  <1>3. had \in [Ids -> SUBSET Clients]
    BY <1>2 DEF TypeOK
  <1>4. \A o \in Ids : what[o] = "traffic" /\ had[o] = {} => o \in lost
    BY DEF PossiblyDeleted, Transient
  <1>5. \A o \in lost : what[o] = "traffic"
    BY DEF PossiblyDeleted, Transient
  <1>6. Settle(lost, had, Found(had))
    BY <1>1
  <1> HIDE DEF had, lost, Had
  <1>7. \A o \in Ids : Found(had)[o] \in here \cup {NoClient}
    <2> SUFFICES ASSUME NEW o \in Ids
                 PROVE  Found(had)[o] \in here \cup {NoClient}
      OBVIOUS
    <2>1. left(had, o) \in here \cup {NoClient}
      BY DEF OwnersHere
    <2>2. had[o] # {} => Lowest(had[o]) \in here
      BY <1>2, <1>3, LowestFound
    <2>3. QED
      BY <2>1, <2>2
  <1>8. Found(had) \in [Ids -> Clients \cup {NoClient}]
    BY <1>7 DEF TypeOK
  <1> HIDE DEF Found
  <1>9. TypeOK'
    BY <1>1, <1>3, <1>6, <1>8, SettleTypes DEF TypeOK
  <1>10. ActorsUnique'
    BY <1>6, SettleActors
  <1>11. TrafficHeld'
    BY <1>4, <1>6, SettleTraffic
  <1>12. OwnersHere'
    BY <1>1, <1>2, <1>6, <1>7, SettleOwners
  <1>13. Pointers'
    BY <1>1, <1>6, SettlePointers DEF Pointers
  <1>14. QED
    BY <1>9, <1>10, <1>11, <1>12, <1>13 DEF Inv

-----------------------------------------------------------------------------
(* An object is registered, which is neither a player nor an actor that    *)
(* there is already.                                                       *)
LEMMA RegisterKeeps ==
  ASSUME Inv, NEW o \in Ids, NEW kind \in Kinds \ {"gone", "player"}, NEW had \in SUBSET here,
         NEW c \in here \cup {NoClient}, NEW r \in Resources \cup {NoResource},
         Register(o, kind, had, c, r),
         kind = "traffic" => had # {},
         kind \in ActorNames => \A x \in Ids : what[x] # kind,
         UNCHANGED <<here, joined, player, loose>>
  PROVE  Inv'
  <1> TypeOK /\ OwnersHere /\ ActorsUnique /\ TrafficHeld /\ Pointers
    BY DEF Inv
  <1>1. TypeOK'
    <2>1. entering' \subseteq Alive' /\ loose' \subseteq Alive'
      BY DEF TypeOK, Register, Alive
    <2>2. QED
      BY <2>1 DEF TypeOK, Register
  <1>2. OwnersHere'
    BY DEF OwnersHere, Register, TypeOK
  <1>3. ActorsUnique'
    BY OwnershipAssumption DEF ActorsUnique, Register, TypeOK
  <1>4. TrafficHeld'
    BY DEF TrafficHeld, Register, TypeOK
  <1>5. Pointers'
    <2>1. \A x \in Ids : what'[x] = "player" <=> what[x] = "player"
      BY DEF Register, TypeOK
    <2>2. \A d \in Clients : player[d] # NoObject => player[d] \in Ids
      BY DEF TypeOK
    <2>3. QED
      BY <2>1, <2>2 DEF Pointers, HasClient
  <1>6. QED
    BY <1>1, <1>2, <1>3, <1>4, <1>5 DEF Inv

(* A player is registered: whose it is, is written in player and loose.    *)
LEMMA PlayerRegistered ==
  ASSUME Inv, NEW o \in Ids, NEW c \in here \cup {NoClient}, NEW r \in Resources \cup {NoResource},
         Register(o, "player", {}, c, r), UNCHANGED <<here, joined>>,
         player' \in [Clients -> Ids \cup {NoObject}], loose' \subseteq Alive'
  PROVE  TypeOK' /\ OwnersHere' /\ ActorsUnique' /\ TrafficHeld'
  <1> TypeOK /\ OwnersHere /\ ActorsUnique /\ TrafficHeld
    BY DEF Inv
  <1>1. "player" \notin ActorNames
    BY OwnershipAssumption
  <1>2. TypeOK'
    <2>1. entering' \subseteq Alive'
      BY DEF TypeOK, Register, Alive
    <2>2. QED
      BY <2>1 DEF TypeOK, Register, Kinds
  <1>3. OwnersHere'
    BY DEF OwnersHere, Register, TypeOK
  <1>4. ActorsUnique'
    BY <1>1 DEF ActorsUnique, Register, TypeOK
  <1>5. TrafficHeld'
    BY DEF TrafficHeld, Register, TypeOK
  <1>6. QED
    BY <1>2, <1>3, <1>4, <1>5

(* Nothing points to an id that is free.                                   *)
LEMMA FreeIsNobodys ==
  ASSUME Inv, NEW o \in Ids, what[o] = "gone"
  PROVE  o # NoObject /\ o \notin loose /\ \A d \in Clients : player[d] # o
  BY OwnershipAssumption DEF Inv, Pointers, TypeOK, Alive

(* A player is created for nobody.                                         *)
LEMMA CreatePlayerKeeps ==
  ASSUME Inv, NEW o \in Ids, NEW r \in Resources, CreatePlayer(o, r)
  PROVE  Inv'
  <1>1. TypeOK /\ Pointers /\ what[o] = "gone"
    BY DEF Inv, CreatePlayer, Register
  <1>2. \A x \in Ids : what'[x] = IF x = o THEN "player" ELSE what[x]
    BY <1>1 DEF CreatePlayer, Register, TypeOK
  <1>3. loose' \subseteq Alive'
    BY <1>1, <1>2 DEF CreatePlayer, Alive, TypeOK
  <1>4. TypeOK' /\ OwnersHere' /\ ActorsUnique' /\ TrafficHeld'
    BY <1>1, <1>3, PlayerRegistered DEF CreatePlayer, TypeOK
  <1>5. Pointers'
    <2>1. here' = here /\ player' = player /\ loose' = loose \cup {o}
      BY DEF CreatePlayer
    <2>2. \A d \in Clients : player[d] # o
      BY <1>1, FreeIsNobodys
    <2>3. \A d \in Clients : player'[d] # NoObject => d \in here' /\ what'[player'[d]] = "player"
      BY <1>1, <1>2, <2>1 DEF Pointers, TypeOK
    <2>4. \A x \in Ids : what'[x] = "player" => (HasClient(x)' <=> x \notin loose')
      BY <1>1, <1>2, <2>1, <2>2 DEF Pointers, HasClient
    <2>5. QED
      BY <1>1, <2>1, <2>3, <2>4 DEF Pointers
  <1>6. QED
    BY <1>4, <1>5 DEF Inv

(* A client's player is registered; the one it had is nobody's from then   *)
(* on.                                                                     *)
LEMMA SpawnKeeps ==
  ASSUME Inv, NEW c \in Clients, NEW o \in Ids, SpawnPlayer(c, o)
  PROVE  Inv'
  <1>1. TypeOK /\ Pointers /\ what[o] = "gone" /\ c \in here
    BY DEF Inv, SpawnPlayer, Register
  <1>2. \A x \in Ids : what'[x] = IF x = o THEN "player" ELSE what[x]
    BY <1>1 DEF SpawnPlayer, Register, TypeOK
  <1>3. \A d \in Clients : player'[d] = IF d = c THEN o ELSE player[d]
    BY <1>1 DEF SpawnPlayer, TypeOK
  <1>4. player[c] # NoObject => player[c] \in Ids /\ what[player[c]] = "player"
    BY <1>1 DEF TypeOK, Pointers
  <1>5. loose' \subseteq Alive'
    BY <1>1, <1>2, <1>4 DEF SpawnPlayer, Alive, TypeOK
  <1>6. player' \in [Clients -> Ids \cup {NoObject}]
    BY <1>1 DEF SpawnPlayer, TypeOK
  <1>7. TypeOK' /\ OwnersHere' /\ ActorsUnique' /\ TrafficHeld'
    BY <1>1, <1>5, <1>6, PlayerRegistered DEF SpawnPlayer
  <1>8. Pointers'
    <2>1. here' = here /\ loose' = loose \cup ({player[c]} \ {NoObject})
      BY DEF SpawnPlayer
    <2>2. o # NoObject /\ o \notin loose /\ \A d \in Clients : player[d] # o
      BY <1>1, FreeIsNobodys
    <2>3. \A d \in Clients : player'[d] # NoObject => d \in here' /\ what'[player'[d]] = "player"
      BY <1>1, <1>2, <1>3, <2>1 DEF Pointers, TypeOK
    <2>4. \A d, e \in Clients : player'[d] # NoObject /\ player'[d] = player'[e] => d = e
      BY <1>1, <1>3, <2>2 DEF Pointers
    <2>5. ASSUME NEW x \in Ids, what'[x] = "player"
          PROVE  HasClient(x)' <=> x \notin loose'
      <3>1. CASE x = o
        <4>1. HasClient(x)'
          BY <1>3, <3>1 DEF HasClient
        <4>2. x \notin loose'
          BY <2>1, <2>2, <3>1
        <4>3. QED
          BY <4>1, <4>2
      <3>2. CASE x # o /\ x = player[c]
        <4>1. x \in loose'
          BY <2>1, <3>2, OwnershipAssumption
        <4>2. \A d \in Clients : player'[d] # x
          BY <1>1, <1>3, <3>2, OwnershipAssumption DEF Pointers
        <4>3. QED
          BY <4>1, <4>2 DEF HasClient
      <3>3. CASE x # o /\ x # player[c]
        <4>1. what[x] = "player" /\ (x \in loose' <=> x \in loose)
          BY <1>2, <2>1, <2>5, <3>3
        <4>2. \A d \in Clients : player'[d] = x <=> player[d] = x
          BY <1>3, <3>3
        <4>3. QED
          BY <1>1, <4>1, <4>2 DEF Pointers, HasClient
      <3>4. QED
        BY <3>1, <3>2, <3>3
    <2>6. QED
      BY <2>3, <2>4, <2>5 DEF Pointers
  <1>9. QED
    BY <1>7, <1>8 DEF Inv

(* A client reports an actor, which another may have reported before.      *)
LEMMA ReportKeeps ==
  ASSUME Inv, NEW c \in Clients, NEW n \in ActorNames, NEW o \in Ids, ReportActor(c, n, o)
  PROVE  Inv'
  <1>1. CASE \E x \in Ids : what[x] = n
    <2> TypeOK /\ OwnersHere /\ ActorsUnique /\ TrafficHeld /\ Pointers
      BY DEF Inv
    <2>1. TypeOK'
      BY <1>1 DEF TypeOK, Alive, ReportActor
    <2>2. OwnersHere' /\ ActorsUnique' /\ Pointers'
      BY <1>1 DEF OwnersHere, ActorsUnique, Pointers, HasClient, ReportActor
    <2>3. TrafficHeld'
      BY <1>1 DEF TrafficHeld, ReportActor
    <2>4. QED
      BY <2>1, <2>2, <2>3 DEF Inv
  <1>2. CASE \A x \in Ids : what[x] # n
    <2>1. n \in Kinds \ {"gone", "player"} /\ n # "traffic"
      BY OwnershipAssumption DEF Kinds
    <2>2. c \in here /\ Register(o, n, {c}, c, NoResource) /\ UNCHANGED <<here, joined, player, loose>>
      BY <1>2 DEF ReportActor
    <2>3. QED
      BY <1>2, <2>1, <2>2, RegisterKeeps
  <1>3. QED
    BY <1>1, <1>2

-----------------------------------------------------------------------------
LEMMA InitInv == Init => Inv
  <1> SUFFICES ASSUME Init
               PROVE  Inv
    OBVIOUS
  <1>1. TypeOK
    BY DEF Init, TypeOK, Kinds
  <1>2. ActorsUnique
    BY OwnershipAssumption DEF Init, ActorsUnique
  <1>3. OwnersHere /\ TrafficHeld /\ Pointers
    BY DEF Init, OwnersHere, TrafficHeld, Pointers
  <1>4. QED
    BY <1>1, <1>2, <1>3 DEF Inv

LEMMA NextInv ==
  ASSUME Inv, [Next]_vars
  PROVE  Inv'
  <1> TypeOK /\ OwnersHere /\ ActorsUnique /\ TrafficHeld /\ Pointers
    BY DEF Inv
  <1>1. ASSUME NEW c \in Clients, Arrive(c)
        PROVE  Inv'
    BY <1>1 DEF Arrive, objectVars, Inv, TypeOK, Alive, OwnersHere, ActorsUnique, TrafficHeld, Pointers, HasClient
  <1>2. ASSUME NEW c \in Clients, Join(c)
        PROVE  Inv'
    BY <1>2 DEF Join, objectVars, Inv, TypeOK, Alive, OwnersHere, ActorsUnique, TrafficHeld, Pointers, HasClient
  <1>3. ASSUME NEW c \in Clients, NEW o \in Ids, RegisterTraffic(c, o)
        PROVE  Inv'
    <2>1. "traffic" \in Kinds \ {"gone", "player"} /\ "traffic" \notin ActorNames
      BY OwnershipAssumption DEF Kinds
    <2>2. c \in here /\ Register(o, "traffic", {c}, c, NoResource) /\ UNCHANGED <<here, joined, player, loose>>
      BY <1>3 DEF RegisterTraffic
    <2>3. QED
      BY <2>1, <2>2, RegisterKeeps
  <1>4. ASSUME NEW o \in Ids, NEW r \in Resources, CreateElement(o, r)
        PROVE  Inv'
    <2>1. "script" \in Kinds \ {"gone", "player"} /\ "script" \notin ActorNames
      BY OwnershipAssumption DEF Kinds
    <2>2. Register(o, "script", {}, NoClient, r) /\ UNCHANGED <<here, joined, player, loose>>
      BY <1>4 DEF CreateElement
    <2>3. QED
      BY <2>1, <2>2, RegisterKeeps
  <1>5. ASSUME NEW o \in Ids, NEW n \in ActorNames, NEW r \in Resources, CreateActorElement(n, o, r)
        PROVE  Inv'
    <2>1. n \in Kinds \ {"gone", "player"} /\ n # "traffic"
      BY OwnershipAssumption DEF Kinds
    <2>2. /\ Register(o, n, {}, NoClient, r) /\ UNCHANGED <<here, joined, player, loose>>
          /\ \A x \in Ids : what[x] # n
      BY <1>5 DEF CreateActorElement
    <2>3. QED
      BY <2>1, <2>2, RegisterKeeps
  <1>6. ASSUME NEW c \in Clients, NEW o \in Ids, RequestSyncer(c, o)
        PROVE  Inv'
    BY <1>6 DEF RequestSyncer, Inv, TypeOK, Alive, OwnersHere, ActorsUnique, TrafficHeld, Pointers, HasClient
  <1>7. ASSUME NEW c \in Clients, NEW p \in Ids, NEW o \in Ids, NEW wheel \in BOOLEAN,
               \/ JackVehicle(c, p, o) \/ ExitingVehicle(c, p, o) \/ ExitedVehicle(c, p, o)
               \/ EnteringVehicle(c, p, o, wheel) \/ EnteredVehicle(c, p, o, wheel)
        PROVE  Inv'
    <2>1. MovesPed(c, p, o) /\ (syncer' = syncer \/ syncer' = [syncer EXCEPT ![o] = c])
      BY <1>7 DEF JackVehicle, ExitingVehicle, ExitedVehicle, EnteringVehicle, EnteredVehicle,
                  TakeWheel
    <2>2. entering' \in {entering, entering \cup {p}, entering \ {p}}
      BY <1>7 DEF JackVehicle, ExitingVehicle, ExitedVehicle, EnteringVehicle, EnteredVehicle
    <2>3. entering' \subseteq Alive' /\ loose' \subseteq Alive'
      BY <2>1, <2>2 DEF MovesPed, Alive, TypeOK
    <2>4. TypeOK' /\ OwnersHere'
      BY <2>1, <2>3 DEF MovesPed, TypeOK, OwnersHere
    <2>5. ActorsUnique' /\ TrafficHeld' /\ Pointers'
      BY <2>1 DEF MovesPed, ActorsUnique, TrafficHeld, Pointers, HasClient
    <2>6. QED
      BY <2>4, <2>5 DEF Inv
  <1>8. CASE UNCHANGED vars
    BY <1>8 DEF vars, objectVars, Inv, TypeOK, Alive, OwnersHere, ActorsUnique, TrafficHeld, Pointers, HasClient
  <1>9. QED
    BY <1>1, <1>2, <1>3, <1>4, <1>5, <1>6, <1>7, <1>8, LeaveKeeps, DestroyKeeps, StopKeeps, DeleteKeeps,
       StreamKeeps, CreatePlayerKeeps, SpawnKeeps, ReportKeeps DEF Next

LEMMA SpecInv == Spec => []Inv
  BY InitInv, NextInv, PTL DEF Spec

-----------------------------------------------------------------------------
(* The sets of clients, the objects and the pointers between them have     *)
(* their types: only clients that have a machine have joined.              *)
THEOREM TypeCorrect == Spec => []TypeOK
  <1>1. Inv => TypeOK
    BY DEF Inv
  <1>2. QED
    BY SpecInv, <1>1, PTL

(* No object is created for, or synced by, a client that has left, through *)
(* any sequence of disconnections, streaming, changes of syncer and        *)
(* deletions.                                                              *)
THEOREM OwnersAreHere == Spec => []OwnersHere
  <1>1. Inv => OwnersHere
    BY DEF Inv
  <1>2. QED
    BY SpecInv, <1>1, PTL

(* An actor of the map never has two elements, whichever clients report it *)
(* and whenever (MAFIAPACKET_PEER_CREATEACTOR).                            *)
THEOREM OneElementPerActor == Spec => []ActorsUnique
  <1>1. Inv => ActorsUnique
    BY DEF Inv
  <1>2. QED
    BY SpecInv, <1>1, PTL

(* Traffic goes when the last client that has it leaves, deletes it or is  *)
(* streamed away from it.                                                  *)
THEOREM TrafficIsHeld == Spec => []TrafficHeld
  <1>1. Inv => TrafficHeld
    BY DEF Inv
  <1>2. QED
    BY SpecInv, <1>1, PTL

(* A player object belongs to exactly one client, which is there           *)
(* (CBaseServer::OnPlayerDisconnect destroys it with its client), or is    *)
(* one that createPlayer made or a later spawnPlayer replaced, and then no *)
(* client has it.                                                          *)
THEOREM PlayersAreOwned == Spec => []PlayersOwned
  <1>1. Inv => PlayersOwned
    <2> SUFFICES ASSUME Inv, NEW o \in Ids, what[o] = "player"
                 PROVE  IF o \in loose THEN \A c \in Clients : player[c] # o
                        ELSE \E c \in here : \A d \in Clients : player[d] = o <=> d = c
      BY DEF PlayersOwned
    <2>1. HasClient(o) <=> o \notin loose
      BY DEF Inv, Pointers
    <2>2. CASE o \in loose
      BY <2>1, <2>2 DEF HasClient
    <2>3. CASE o \notin loose
      <3>1. PICK c \in Clients : player[c] = o
        BY <2>1, <2>3 DEF HasClient
      <3>2. c \in here /\ \A d \in Clients : player[d] = o <=> d = c
        BY <3>1, OwnershipAssumption DEF Inv, Pointers
      <3>3. QED
        BY <2>3, <3>2
    <2>4. QED
      BY <2>2, <2>3
  <1>2. QED
    BY SpecInv, <1>1, PTL

(* Network::OnMachineJoin gives the index of a machine that has left out   *)
(* again: a client that comes finds nothing under its index, no object     *)
(* that is created for it or that it syncs, and no player.                 *)
NothingInherited ==
  [][\A c \in here' \ here :
       /\ \A o \in Ids : c \notin createdFor'[o] /\ syncer'[o] # c
       /\ player'[c] = NoObject]_vars

LEMMA OnlyArrivals ==
  ASSUME Inv, Next, NEW c \in here' \ here
  PROVE  Arrive(c)
  BY DEF Next, Arrive, Join, Leave, RegisterTraffic, RequestSyncer, SpawnPlayer, CreatePlayer, ReportActor,
         JackVehicle, ExitingVehicle, ExitedVehicle, EnteringVehicle, EnteredVehicle, MovesPed,
         DeleteThings, Destroy, CreateElement, CreateActorElement, StopResource, UpdateStreaming

(* An index that is given out again brings nothing with it, whatever its   *)
(* last client left behind and however it left.                            *)
THEOREM IndexComesClean == Spec => NothingInherited
  <1> DEFINE Clean == \A c \in here' \ here :
               /\ \A o \in Ids : c \notin createdFor'[o] /\ syncer'[o] # c
               /\ player'[c] = NoObject
  <1>1. ASSUME Inv, Next, NEW c \in here' \ here
        PROVE  /\ \A o \in Ids : c \notin createdFor'[o] /\ syncer'[o] # c
               /\ player'[c] = NoObject
    <2>1. Arrive(c)
      BY <1>1, OnlyArrivals
    <2>2. c \in Clients /\ c \notin here /\ c # NoClient
      BY <1>1, <2>1, OwnershipAssumption DEF Arrive
    <2>3. \A o \in Ids : c \notin createdFor[o] /\ syncer[o] # c
      BY <1>1, <2>2 DEF Inv, OwnersHere
    <2>4. player[c] = NoObject
      BY <1>1, <2>2 DEF Inv, Pointers
    <2>5. QED
      BY <2>1, <2>3, <2>4 DEF Arrive, objectVars
  <1>2. Inv /\ [Next]_vars => [Clean]_vars
    BY <1>1
  <1>3. QED
    BY <1>2, SpecInv, PTL DEF Spec, NothingInherited

-----------------------------------------------------------------------------
(* Lists of things to delete.  A run shows that the handler does not get   *)
(* to the end of them; this is how far it gets.                            *)

LEMMA ThingsAreIds ==
  ASSUME NEW things \in Things
  PROVE  \A i \in 1..Len(things) : things[i] \in Ids
  BY DEF Things

(* Whatever the list, the first thing the client may delete is gone, and   *)
(* the client has nothing any more of what is named before it; nothing     *)
(* else is gone but traffic that nobody else has.                          *)
THEOREM FirstIsDeleted == Spec => FirstDeleted
  <1>1. ASSUME Inv, NEW c \in Clients, NEW things \in Things, DeleteThings(c, things)
        PROVE  /\ \A i \in 1..Len(things) : (\A k \in 1..(i - 1) : ~MayDelete(c, things[k])) =>
                    /\ MayDelete(c, things[i]) => what'[things[i]] = "gone"
                    /\ c \notin createdFor'[things[i]]
               /\ \A o \in Alive : what'[o] = "gone" =>
                    /\ \E i \in 1..Len(things) : things[i] = o
                    /\ MayDelete(c, o) \/ (what[o] = "traffic" /\ createdFor[o] = {c})
               /\ \A o \in Ids, d \in Clients \ {c} :
                    what'[o] # "gone" => (d \in createdFor'[o] <=> d \in createdFor[o])
    <2> DEFINE handled == Handled(c, things)
               had == [o \in Ids |-> IF o \in handled THEN createdFor[o] \ {c} ELSE createdFor[o]]
               lost == {o \in handled : MayDelete(c, o)} \cup PossiblyDeleted(handled, had)
    <2>1. /\ what' = [o \in Ids |-> IF o \in lost THEN "gone" ELSE what[o]]
          /\ createdFor' = [o \in Ids |-> IF o \in lost THEN {} ELSE had[o]]
      BY <1>1 DEF DeleteThings, Settle
    <2>2. ASSUME NEW i \in 1..Len(things), \A k \in 1..(i - 1) : ~MayDelete(c, things[k])
          PROVE  things[i] \in Ids /\ things[i] \in handled
      BY <2>2, ThingsAreIds DEF Handled
    <2>3. \A o \in handled : \E i \in 1..Len(things) : things[i] = o
      BY DEF Handled
    <2>4. \A o \in Ids : o \in PossiblyDeleted(handled, had) =>
            /\ o \in handled /\ what[o] = "traffic"
            /\ createdFor[o] \subseteq {c} /\ createdFor[o] # {}
      BY <1>1 DEF PossiblyDeleted, Transient, Inv, TrafficHeld
    <2>5. \A o \in Ids : o \in lost => o \in handled /\ (MayDelete(c, o) \/ (what[o] = "traffic" /\ createdFor[o] = {c}))
      BY <2>4
    <2> HIDE DEF lost
    <2>6. \A o \in Alive : what'[o] = "gone" => o \in Ids /\ o \in lost
      BY <2>1 DEF Alive
    <2>7. ASSUME NEW i \in 1..Len(things), \A k \in 1..(i - 1) : ~MayDelete(c, things[k])
          PROVE  /\ MayDelete(c, things[i]) => what'[things[i]] = "gone"
                 /\ c \notin createdFor'[things[i]]
      BY <2>1, <2>2, <2>7 DEF lost
    <2>8. QED
      BY <2>1, <2>3, <2>5, <2>6, <2>7
  <1>2. Inv => [\A c \in Clients, things \in Things : DeleteThings(c, things) =>
           /\ \A i \in 1..Len(things) : (\A k \in 1..(i - 1) : ~MayDelete(c, things[k])) =>
                /\ MayDelete(c, things[i]) => what'[things[i]] = "gone"
                /\ c \notin createdFor'[things[i]]
           /\ \A o \in Alive : what'[o] = "gone" =>
                /\ \E i \in 1..Len(things) : things[i] = o
                /\ MayDelete(c, o) \/ (what[o] = "traffic" /\ createdFor[o] = {c})
           /\ \A o \in Ids, d \in Clients \ {c} :
                what'[o] # "gone" => (d \in createdFor'[o] <=> d \in createdFor[o])]_vars
    BY <1>1, Zenon
  <1>3. QED
    BY <1>2, SpecInv, PTL DEF FirstDeleted
=============================================================================
