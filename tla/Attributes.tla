----------------------------- MODULE Attributes -----------------------------
(***************************************************************************)
(* One attribute of one element, or of the server: the server's copy, the  *)
(* copies of the clients that have the element, the packets that carry it  *)
(* and the scripts that set it (ServerEntity, ServerVehicle, ServerHuman,  *)
(* the settings of CBaseServer, CMafiaServer and CServerResourceMgr).      *)
(*                                                                         *)
(* The attributes fall into classes by what their setter writes and sends  *)
(* and by the packets they travel in:                                      *)
(*   guarded   engine, siren, lights, fuel, gear, wheelAngle, engineRPM,   *)
(*             speedLimit, engineHealth of a vehicle: nothing happens when *)
(*             the server's copy is that value already                     *)
(*   fixed     a vehicle's health (Fix): always written and sent           *)
(*   skin      the model of a ped: written and sent, never synced          *)
(*   model     the model of a vehicle: written only, never synced          *)
(*   local     velocity: written only                                      *)
(*   weapon    of a ped: set by its syncer's game and told in a reliable   *)
(*             packet, which the server relays, besides the sync           *)
(*   setting   game mode, map, CVars, the resources that run: written and  *)
(*             sent to everybody; to have it is to be a client, and it is  *)
(*             created in the handshake                                    *)
(* roof, locked and a ped's health have setters no script can reach.       *)
(*                                                                         *)
(* Packets of setters and creations reach a client in order; sync packets, *)
(* which are not reliable, are lost, repeated and overtake.  A client's    *)
(* game may change what the client syncs.  That a client knows at once     *)
(* whether it is the syncer, and does not take sync packets while it is,   *)
(* is assumed of the library, as is that an element somebody syncs is      *)
(* dirty (SetDirty).                                                       *)
(***************************************************************************)
EXTENDS Integers, Sequences, FiniteSets

CONSTANTS Clients, Values,
          NoClient, NoCopy,
          Unset,       \* the history remembers no value
          MaxChanges   \* bound of the model: sets, changes of games and of who has what

ASSUME AttributesAssumption ==
  /\ MaxChanges \in Nat
  /\ NoClient \notin Clients /\ NoCopy \notin Values /\ Unset \notin Values

VARIABLES kind,     \* the class of the attribute
          value,    \* the member of the element
          has,      \* the clients the element is created for
          syncer,   \* GetSyncer()
          view,     \* the copy of each client
          sets,     \* packets of setters and creations under way to each client
          down,     \* values in sync packets under way to each client
          up,       \* values in sync packets under way to the server
          reports,  \* weapons a client has changed to, under way to the server
          wish,     \* history: a script's value that ought to stand
          changes

vars == <<kind, value, has, syncer, view, sets, down, up, reports, wish,
          changes>>

Kinds == {"guarded", "fixed", "skin", "model", "local", "weapon", "setting"}
Synced == kind \in {"guarded", "fixed", "local", "weapon"}
Broadcast == kind \in {"skin", "setting"}
HasSyncer == kind # "setting"
Scriptable == kind # "weapon"

TypeOK ==
  /\ kind \in Kinds
  /\ value \in Values
  /\ has \subseteq Clients
  /\ syncer \in Clients \cup {NoClient}
  /\ view \in [Clients -> Values \cup {NoCopy}]
  /\ sets \in [Clients -> Seq(Values)]
  /\ down \in [Clients -> SUBSET Values]
  /\ up \in SUBSET Values
  /\ reports \in [Clients -> Seq(Values)]
  /\ wish \in Values \cup {Unset}
  /\ changes \in 0..MaxChanges

-----------------------------------------------------------------------------
(* Scripts.                                                                *)

(* Fault: the member is written before it is compared. *)
SendsAfterWriting(x) == kind = "fixed" \/ Broadcast

(* Fault: only an element that somebody syncs is told of. *)
SendsToSyncer(x) == (kind = "fixed" \/ Broadcast) /\ syncer # NoClient

(* Whether the setter sends a packet to those that have the element. *)
Sends(x) == \/ kind = "fixed" \/ Broadcast
            \/ kind = "guarded" /\ value # x

(* No other value is under way to the server, or will be sent to it. *)
Settled ==
  /\ HasSyncer => syncer # NoClient
  /\ Synced => view[syncer] = value /\ sets[syncer] = <<>> /\ up \subseteq {value}

Change == changes < MaxChanges /\ changes' = changes + 1

ScriptSet(x) ==
  /\ Scriptable /\ Change
  /\ value' = x
  /\ sets' = [c \in Clients |->
                IF c \in has /\ Sends(x) THEN Append(sets[c], x) ELSE sets[c]]
  /\ wish' = IF Settled /\ kind \notin {"model", "local"} THEN x ELSE Unset
  /\ UNCHANGED <<kind, has, syncer, view, down, up, reports>>

-----------------------------------------------------------------------------
(* Sync packets.                                                           *)

(* ReadSyncPacket. *)
ReceiveSync(x) ==
  /\ x \in up
  /\ value' = x
  /\ up' \in {up, up \ {x}}
  /\ UNCHANGED <<kind, has, syncer, view, sets, down, reports, wish, changes>>

(* The server writes its copy for everybody but the syncer (SendAllSync,   *)
(* WriteSyncPacket).                                                       *)
SendAllSync ==
  /\ Synced
  /\ down' = [c \in Clients |->
                IF c \in has \ {syncer} THEN down[c] \cup {value} ELSE down[c]]
  /\ UNCHANGED <<kind, value, has, syncer, view, sets, up, reports, wish, changes>>

(* MAFIAPACKET_HUMAN_CHANGEWEAP, which only the syncer's counts. *)
ChangeWeapon(c) ==
  /\ reports[c] # <<>>
  /\ reports' = [reports EXCEPT ![c] = Tail(@)]
  /\ IF c = syncer
     THEN /\ value' = Head(reports[c])
          /\ sets' = [d \in Clients |->
                        IF d \in has \ {c} THEN Append(sets[d], Head(reports[c])) ELSE sets[d]]
     ELSE UNCHANGED <<value, sets>>
  /\ UNCHANGED <<kind, has, syncer, view, down, up, wish, changes>>

(* Packets of sync are lost. *)
Lose ==
  /\ \/ \E x \in up : up' = up \ {x} /\ UNCHANGED down
     \/ \E c \in Clients : \E x \in down[c] :
          down' = [down EXCEPT ![c] = @ \ {x}] /\ UNCHANGED up
  /\ UNCHANGED <<kind, value, has, syncer, view, sets, reports, wish, changes>>

-----------------------------------------------------------------------------
(* The clients.                                                            *)

(* The packet of a new weapon is sent besides the sync.                    *)
GameChanges(x) ==
  /\ Change
  /\ Synced /\ syncer # NoClient /\ view[syncer] # NoCopy
  /\ view' = [view EXCEPT ![syncer] = x]
  /\ \/ UNCHANGED reports
     \/ kind = "weapon" /\ reports' = [reports EXCEPT ![syncer] = Append(@, x)]
  /\ wish' = Unset
  /\ UNCHANGED <<kind, value, has, syncer, sets, down, up>>

SendSync ==
  /\ Synced /\ syncer # NoClient /\ view[syncer] # NoCopy
  /\ up' = up \cup {view[syncer]}
  /\ UNCHANGED <<kind, value, has, syncer, view, sets, down, reports, wish, changes>>

TakeSet(c) ==
  /\ sets[c] # <<>>
  /\ view' = [view EXCEPT ![c] = Head(sets[c])]
  /\ sets' = [sets EXCEPT ![c] = Tail(@)]
  /\ UNCHANGED <<kind, value, has, syncer, down, up, reports, wish, changes>>

TakeSync(c, x) ==
  /\ x \in down[c]
  /\ view' = IF c = syncer \/ view[c] = NoCopy THEN view ELSE [view EXCEPT ![c] = x]
  /\ \E after \in {down[c], down[c] \ {x}} : down' = [down EXCEPT ![c] = after]
  /\ UNCHANGED <<kind, value, has, syncer, sets, up, reports, wish, changes>>

-----------------------------------------------------------------------------
(* Streaming, and the handshake.                                           *)

(* Fault: the creation carries what the syncer has. *)
CreatedFromSyncer == <<IF syncer = NoClient THEN value ELSE view[syncer]>>

(* The creation carries the server's copy (WriteCreatePacket), and so does *)
(* the handshake (SendCVars, SendGameMode, SendMapName, UpdateAllResource). *)
Created == <<value>>

StreamIn(c) ==
  /\ Change
  /\ c \notin has
  /\ has' = has \cup {c}
  /\ sets' = [sets EXCEPT ![c] = Created]
  /\ UNCHANGED <<kind, value, syncer, view, down, up, reports, wish>>

(* The map and the resources are sent again to a client whose              *)
(* PACKET_RESPONSE or PACKET_JOIN comes again, and the game mode to        *)
(* everybody when the server's name is set.  Each client's copy goes its   *)
(* own way, so it is taken for one step per client.                        *)
Resend(c) ==
  /\ kind = "setting" /\ Change
  /\ c \in has
  /\ sets' = [sets EXCEPT ![c] = Append(@, value)]
  /\ UNCHANGED <<kind, value, has, syncer, view, down, up, reports, wish>>

(* The element is too far away, or the client leaves. *)
StreamOut(c) ==
  /\ Change
  /\ c \in has
  /\ has' = has \ {c}
  /\ syncer' = IF c = syncer THEN NoClient ELSE syncer
  /\ view' = [view EXCEPT ![c] = NoCopy]
  /\ sets' = [sets EXCEPT ![c] = <<>>]
  /\ down' = [down EXCEPT ![c] = {}]
  /\ reports' \in {reports, [reports EXCEPT ![c] = <<>>]}
  /\ wish' = IF c = syncer THEN Unset ELSE wish
  /\ UNCHANGED <<kind, value, up>>

(* A script or a client's request makes another client the syncer. *)
SetSyncer(c) ==
  /\ HasSyncer /\ Change
  /\ c \in has \ {syncer}
  /\ syncer' = c
  /\ wish' = Unset
  /\ UNCHANGED <<kind, value, has, view, sets, down, up, reports>>

(* UpdateStreaming finds a syncer for an element that has none. *)
FindSyncer ==
  /\ HasSyncer /\ syncer = NoClient /\ has # {}
  /\ \E c \in has : syncer' = c
  /\ wish' = Unset
  /\ UNCHANGED <<kind, value, has, view, sets, down, up, reports, changes>>

-----------------------------------------------------------------------------
(* Members have no initial value of their own: the first is any.           *)
Init ==
  /\ kind \in Kinds
  /\ value \in Values
  /\ has = {} /\ syncer = NoClient
  /\ view = [c \in Clients |-> NoCopy]
  /\ sets = [c \in Clients |-> <<>>]
  /\ down = [c \in Clients |-> {}]
  /\ up = {}
  /\ reports = [c \in Clients |-> <<>>]
  /\ wish = Unset
  /\ changes = 0

Next ==
  \/ \E x \in Values : ScriptSet(x) \/ GameChanges(x) \/ ReceiveSync(x)
  \/ SendAllSync \/ SendSync \/ Lose \/ FindSyncer
  \/ \E c \in Clients : TakeSet(c) \/ ChangeWeapon(c)
  \/ \E c \in Clients : StreamIn(c) \/ Resend(c) \/ StreamOut(c) \/ SetSyncer(c)
  \/ \E c \in Clients, x \in Values : TakeSync(c, x)

Spec == Init /\ [][Next]_vars

(* The rounds of streaming and of sync come again (module MainLoop), the   *)
(* syncer sends again and again, reliable packets arrive, and of the sync  *)
(* packets sent again and again one arrives.                               *)
FairSpec ==
  /\ Spec
  /\ WF_vars(FindSyncer) /\ WF_vars(SendAllSync) /\ WF_vars(SendSync)
  /\ \A c \in Clients : WF_vars(TakeSet(c)) /\ WF_vars(ChangeWeapon(c))
  /\ \A x \in Values : SF_vars(ReceiveSync(x) /\ x \notin up')
  /\ \A c \in Clients, x \in Values : SF_vars(TakeSync(c, x) /\ x \notin down'[c])

-----------------------------------------------------------------------------
Agreed == \A c \in has : view[c] = value

(* Once scripts, games and streaming leave it alone, everybody that has    *)
(* the element has the server's copy, whatever overtook what.  A vehicle   *)
(* that is given another model is left out: nobody that has it is told.    *)
Converges == kind # "model" => <>[]Agreed

(* A value a script sets while the syncer's reports are in step stands in  *)
(* the end, if no game, other script or change of syncer comes after it:   *)
(* the reports that were sent before the syncer heard of it do not win.    *)
SetStands == <>[](wish # Unset => Agreed /\ value = wish)

(* On the way there: the syncer has the value or is about to be told       *)
(* nothing but it, and besides it only one other is to be found with the   *)
(* server, with the syncer and in the reports, the one from before.        *)
Heard ==
  /\ syncer # NoClient
  /\ \/ sets[syncer] = <<wish>>
     \/ sets[syncer] = <<>> /\ view[syncer] = wish
  /\ \E old \in Values : {value, view[syncer]} \cup up \subseteq {old, wish}

SetHeard == wish # Unset => IF Synced THEN Heard ELSE value = wish

(* And once the server has it back with no other report under way, only a  *)
(* script, a game or a change of syncer can undo it.                       *)
StaysSet ==
  [][wish # Unset /\ Settled /\ value = wish /\ wish' = wish /\ (\A x \in Values : ~ScriptSet(x))
       => Settled' /\ value' = wish]_vars

(* Where everybody agrees and nothing else is under way to anybody, it     *)
(* takes a new value of a script or of a game to end that: no creation, no *)
(* late report and no change of syncer does.                               *)
Calm ==
  /\ up \subseteq {value}
  /\ \A c \in Clients :
       /\ down[c] \subseteq {value}
       /\ \A i \in 1..Len(sets[c]) : sets[c][i] = value
       /\ \A i \in 1..Len(reports[c]) : reports[c][i] = value
       /\ view[c] \in {value, NoCopy}
  /\ \A c \in has : sets[c] = <<>> => view[c] = value

CalmStays ==
  [][Calm /\ (\A x \in Values \ {value} : ~ScriptSet(x) /\ ~GameChanges(x)) => Calm']_vars

(* The skin of a ped and the settings of the server, which no sync puts    *)
(* right, are the server's for everybody that has taken in the packets     *)
(* sent to it, whoever was coming in or leaving while they were set.       *)
AllTold ==
  Broadcast =>
    \A c \in has : IF sets[c] = <<>> THEN view[c] = value
                   ELSE sets[c][Len(sets[c])] = value
=============================================================================
