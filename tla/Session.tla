------------------------------ MODULE Session ------------------------------
(***************************************************************************)
(* How clients get in and out: the handshake PACKET_INITIAL with its       *)
(* checks, the table of machines and the count of clients, the names, the  *)
(* joined and streaming flags, PACKET_KICK and the disconnections, and     *)
(* what every client is told about the others.                             *)
(*                                                                         *)
(* The connections belong to the network library.  What is modelled of it: *)
(* a connection opens (OnPlayerConnect), it is lost or closed by the peer, *)
(* it is closed by the server with a reason (DisconnectPeer), after which  *)
(* no more packets of the peer are handled and OnPlayerDisconnect is       *)
(* called with that reason; the packets to a client arrive in order.  A    *)
(* Peer_t may be used again by a later connection.                         *)
(*                                                                         *)
(* The contents of the checks are left out: a request is the set of checks *)
(* it fails.  A name stands for all its spellings, because the comparison  *)
(* ignores case (_gstrncasecmp over the whole of the name in use).  Also   *)
(* left out are what a session means to other parts: the objects a client  *)
(* syncs or that exist for it, its player, the events scripts get and the  *)
(* packets to the server listing.                                          *)
(***************************************************************************)
EXTENDS Integers, Sequences, FiniteSets

CONSTANTS Peers,           \* Peer_t
          Names,           \* nicknames, up to case
          ConsoleName,     \* "Console"
          MaxMachines,     \* MAX_MACHINES; the last slot is the console's
          MaxClients,      \* m_MaxClients
          DuplicateNames,  \* m_bDuplicateNames
          Nobody, Console, NoName,
          MaxInbox         \* bound of the model: packets under way to a client

ASSUME SessionAssumption ==
  /\ MaxMachines \in Nat \ {0}
  /\ MaxClients \in Nat
  /\ DuplicateNames \in BOOLEAN
  /\ ConsoleName \in Names
  /\ NoName \notin Names
  /\ Nobody \notin Peers
  /\ Console \notin Peers
  /\ Nobody # Console
  /\ MaxInbox \in Nat

VARIABLES link,       \* the connection of a peer: closed, open, or being closed with a reason
          machines,   \* m_NetMachines.m_rgpMachines
          clients,    \* m_CurrentClients
          name,       \* CNetMachine's name, of the peers with a machine
          joined,     \* m_bJoined of the machine
          streaming,  \* m_bStreaming of the machine
          inbox,      \* packets under way to the client
          roster      \* the machines the client knows of

tableVars == <<machines, clients, name, joined, streaming>>
vars == <<link, tableVars, inbox, roster>>

Slots == 0..(MaxMachines - 1)
ConsoleSlot == MaxMachines - 1

(* The checks of PACKET_INITIAL before the name and the room are looked    *)
(* at, in the order they are made, each with the reason it is refused for. *)
Checks == <<"FAILED", "BANNED", "UNSUPPORTEDCLIENT", "WRONGPASSWORD", "INVALIDNICKNAME",
            "UNSUPPORTEDENGINE">>
Faults == {Checks[k] : k \in 1..Len(Checks)}
Reasons == Faults \cup {"NICKNAMEINUSE", "FULL", "GRACEFUL"}

Table == [Slots -> Peers \cup {Console, Nobody}]
Packet ==
  [what : {"ADDMACHINE"}, slot : Slots, who : Peers]
    \cup [what : {"REMOVEMACHINE"}, slot : Slots]
    \cup [what : {"EXISTINGMACHINES"}, all : Table]
NoRoster == [i \in Slots |-> Nobody]

TypeOK ==
  /\ link \in [Peers -> {"closed", "open"} \cup Reasons]
  /\ machines \in Table
  /\ clients \in 0..MaxClients
  /\ name \in [Peers -> Names \cup {NoName}]
  /\ joined \in [Peers -> BOOLEAN]
  /\ streaming \in [Peers -> BOOLEAN]
  /\ inbox \in [Peers -> Seq(Packet)]
  /\ roster \in [Peers -> Table]

Present == {p \in Peers : \E i \in Slots : machines[i] = p}
SlotOf(p) == CHOOSE i \in Slots : machines[i] = p

NameOf(m) == IF m = Console THEN ConsoleName ELSE name[m]

(* Fault: only players that have joined count. *)
IsNameInUseByJoined(n) ==
  ~DuplicateNames /\ \E p \in Present : joined[p] /\ NameOf(p) = n

IsNameInUse(n) ==
  ~DuplicateNames /\ \E i \in Slots : machines[i] # Nobody /\ NameOf(machines[i]) = n

(* Fault: the next index is the number of clients. *)
FirstFreeByCount == clients

FreeSlots == {i \in Slots : machines[i] = Nobody}
FirstFree == CHOOSE i \in FreeSlots : \A j \in FreeSlots : i <= j

-----------------------------------------------------------------------------
(* PACKET_INITIAL.                                                         *)

FirstFault(faults) ==
  Checks[CHOOSE k \in 1..Len(Checks) :
           /\ Checks[k] \in faults
           /\ \A j \in 1..(k - 1) : Checks[j] \notin faults]

NoRoom == clients >= MaxClients \/ FreeSlots = {}

Verdict(faults, n) ==
  IF faults # {} THEN FirstFault(faults)
  ELSE IF IsNameInUse(n) THEN "NICKNAMEINUSE"
  ELSE IF NoRoom THEN "FULL"
  ELSE "ACCEPTED"

(* DisconnectPeer: the machine table is not touched. *)
Refuse(p, reason) ==
  /\ reason # "ACCEPTED"
  /\ link' = [link EXCEPT ![p] = reason]
  /\ UNCHANGED <<tableVars, inbox, roster>>

(* Fault: players that have not joined yet are not told. *)
TellJoined(p, i) ==
  inbox' = [q \in Peers |->
              IF q = p THEN <<[what |-> "EXISTINGMACHINES", all |-> machines']>>
              ELSE IF q \in Present /\ joined[q]
              THEN Append(inbox[q], [what |-> "ADDMACHINE", slot |-> i, who |-> p])
              ELSE inbox[q]]

(* Everyone else is told of the new machine, and it of everyone, itself    *)
(* and the console included.                                               *)
Tell(p, i) ==
  inbox' = [q \in Peers |->
              IF q = p THEN <<[what |-> "EXISTINGMACHINES", all |-> machines']>>
              ELSE IF q \in Present
              THEN Append(inbox[q], [what |-> "ADDMACHINE", slot |-> i, who |-> p])
              ELSE inbox[q]]

Room == \A q \in Peers : Len(inbox[q]) < MaxInbox

(* A machine in the first free slot. *)
Accept(p, n) ==
  /\ Room
  /\ machines' = [machines EXCEPT ![FirstFree] = p]
  /\ clients' = clients + 1
  /\ name' = [name EXCEPT ![p] = n]
  /\ joined' = [joined EXCEPT ![p] = FALSE]
  /\ streaming' = [streaming EXCEPT ![p] = FALSE]
  /\ Tell(p, FirstFree)
  /\ UNCHANGED <<link, roster>>

(* A second PACKET_INITIAL of a peer that has a machine is ignored. *)
Initial(p, faults, n) ==
  /\ link[p] = "open"
  /\ p \notin Present
  /\ LET verdict == Verdict(faults, n)
     IN  IF verdict = "ACCEPTED" THEN Accept(p, n) ELSE Refuse(p, verdict)

(* PACKET_JOIN, as often as it comes: whether the player had joined before *)
(* is read (bWasJoined) and not used.                                      *)
Join(p) ==
  /\ link[p] = "open" /\ p \in Present
  /\ joined' = [joined EXCEPT ![p] = TRUE]
  /\ streaming' = [streaming EXCEPT ![p] = TRUE]
  /\ UNCHANGED <<link, machines, clients, name, inbox, roster>>

SetStreaming(p, on) ==
  /\ link[p] = "open" /\ p \in Present
  /\ streaming' = [streaming EXCEPT ![p] = on]
  /\ UNCHANGED <<link, machines, clients, name, joined, inbox, roster>>

-----------------------------------------------------------------------------
(* CBaseServer::OnPlayerDisconnect.  A refused nickname never had a        *)
(* machine, so the function leaves at once for that reason, and it does    *)
(* nothing for a peer without a machine.                                   *)

MachineGone(p) ==
  LET i == SlotOf(p)
  IN  /\ Room
      /\ machines' = [machines EXCEPT ![i] = Nobody]
      /\ clients' = clients - 1
      /\ name' = [name EXCEPT ![p] = NoName]
      /\ joined' = [joined EXCEPT ![p] = FALSE]
      /\ streaming' = [streaming EXCEPT ![p] = FALSE]
      /\ inbox' = [q \in Peers |->
                     IF q = p THEN <<>>
                     ELSE IF q \in Present
                     THEN Append(inbox[q], [what |-> "REMOVEMACHINE", slot |-> i])
                     ELSE inbox[q]]
      /\ roster' = [roster EXCEPT ![p] = NoRoster]

(* Fault: a connection that ends counts as a client that leaves. *)
DisconnectCounting(p, reason) ==
  IF reason # "NICKNAMEINUSE" /\ p \in Present THEN MachineGone(p)
  ELSE clients' = clients - 1 /\ UNCHANGED <<machines, name, joined, streaming, inbox, roster>>

(* Fault: only a player that joined has anything to clean up. *)
DisconnectJoined(p, reason) ==
  IF reason # "NICKNAMEINUSE" /\ p \in Present /\ joined[p] THEN MachineGone(p)
  ELSE UNCHANGED <<tableVars, inbox, roster>>

(* Fault: the client is not counted out. *)
DisconnectNotCounting(p, reason) ==
  IF reason # "NICKNAMEINUSE" /\ p \in Present
  THEN /\ machines' = [machines EXCEPT ![SlotOf(p)] = Nobody]
       /\ name' = [name EXCEPT ![p] = NoName]
       /\ joined' = [joined EXCEPT ![p] = FALSE]
       /\ streaming' = [streaming EXCEPT ![p] = FALSE]
       /\ inbox' = [inbox EXCEPT ![p] = <<>>]
       /\ roster' = [roster EXCEPT ![p] = NoRoster]
       /\ UNCHANGED clients
  ELSE UNCHANGED <<tableVars, inbox, roster>>

OnPlayerDisconnect(p, reason) ==
  IF reason # "NICKNAMEINUSE" /\ p \in Present THEN MachineGone(p)
  ELSE UNCHANGED <<tableVars, inbox, roster>>

(* PACKET_KICK: the client leaves, and the server closes the connection.   *)
(* The reason is the client's; one that had its nickname accepted does not *)
(* give the reason that would have the machine kept.                       *)
Kick(p, reason) ==
  /\ link[p] = "open" /\ p \in Present
  /\ OnPlayerDisconnect(p, reason)
  /\ link' = [link EXCEPT ![p] = reason]

(* The connection opens, unless a script's OnPlayerConnect vetoes it.      *)
Connect(p) ==
  /\ link[p] = "closed"
  /\ link' = [link EXCEPT ![p] = "open"]
  /\ UNCHANGED <<tableVars, inbox, roster>>

(* It is lost, or the peer closes it.                                      *)
Lose(p) ==
  /\ link[p] = "open"
  /\ OnPlayerDisconnect(p, "GRACEFUL")
  /\ link' = [link EXCEPT ![p] = "closed"]

(* What the server asked for has happened.                                 *)
Close(p) ==
  /\ link[p] \in Reasons
  /\ OnPlayerDisconnect(p, link[p])
  /\ link' = [link EXCEPT ![p] = "closed"]

-----------------------------------------------------------------------------
(* The client takes in what it is told about the machines.                 *)

Learn(known, k) ==
  CASE k.what = "EXISTINGMACHINES" -> k.all
    [] k.what = "ADDMACHINE" -> [known EXCEPT ![k.slot] = k.who]
    [] k.what = "REMOVEMACHINE" -> [known EXCEPT ![k.slot] = Nobody]

Receive(p) ==
  /\ inbox[p] # <<>>
  /\ roster' = [roster EXCEPT ![p] = Learn(@, Head(inbox[p]))]
  /\ inbox' = [inbox EXCEPT ![p] = Tail(@)]
  /\ UNCHANGED <<link, tableVars>>

-----------------------------------------------------------------------------
Init ==
  /\ link = [p \in Peers |-> "closed"]
  /\ machines = [i \in Slots |-> IF i = ConsoleSlot THEN Console ELSE Nobody]
  /\ clients = 0
  /\ name = [p \in Peers |-> NoName]
  /\ joined = [p \in Peers |-> FALSE]
  /\ streaming = [p \in Peers |-> FALSE]
  /\ inbox = [p \in Peers |-> <<>>]
  /\ roster = [p \in Peers |-> NoRoster]

Next ==
  \E p \in Peers :
    \/ \E faults \in SUBSET Faults, n \in Names : Initial(p, faults, n)
    \/ Join(p)
    \/ \E on \in BOOLEAN : SetStreaming(p, on)
    \/ \E reason \in Reasons \ {"NICKNAMEINUSE"} : Kick(p, reason)
    \/ Connect(p) \/ Lose(p) \/ Close(p)
    \/ Receive(p)

Spec == Init /\ [][Next]_vars

(* Clients take in what reaches them.                                      *)
FairSpec == Spec /\ \A p \in Peers : WF_vars(Receive(p))

-----------------------------------------------------------------------------
(* m_CurrentClients is the number of machines other than the console:      *)
(* MainLoop, OnFrame, the admission and the server browser all go by it.   *)
CountExact == clients = Cardinality(Present)

(* A machine belongs to a connection that is open, and a connection has at *)
(* most one: no slot, and no name, stays taken by a client that has gone.  *)
MachinesLive ==
  /\ \A p \in Present : link[p] = "open"
  /\ \A i, j \in Slots : machines[i] \in Peers /\ machines[i] = machines[j] => i = j

(* No two machines, the console among them, have the same name.            *)
NamesDistinct ==
  DuplicateNames \/
    \A i, j \in Slots :
      machines[i] # Nobody /\ machines[j] # Nobody /\ NameOf(machines[i]) = NameOf(machines[j])
        => i = j

(* A client that has taken in everything knows exactly the machines there  *)
(* are, although slots are used again as soon as they are free.            *)
RosterAgrees == \A p \in Present : inbox[p] = <<>> => roster[p] = machines

(* An index stands for one machine until the machine is gone: clients and  *)
(* scripts name machines by it, and the console keeps its own.             *)
IndexKept ==
  [][\A i \in Slots :
       machines[i] # Nobody /\ machines'[i] # Nobody => machines'[i] = machines[i]]_vars

(* Seen as a table of machines and a count, handshakes, kicks and lost      *)
(* connections do what Machines says: the first free index on the way in,  *)
(* nothing but the own entry on the way out.                               *)
M == INSTANCE Machines
ImplementsMachines == M!Spec

(* Whatever order clients come and go in, and however far behind a client  *)
(* is with what it was told, it sees one after the other come in at an     *)
(* index nobody has or go out, never a player twice, never an index of     *)
(* somebody it has not seen leave.                                         *)
Seen(p) == INSTANCE Roster WITH shown <- roster[p], Nothing <- NoRoster
ImplementsRosters == [][\A p \in Peers : [Seen(p)!Next]_(roster[p])]_roster

(* Two clients that stay come to know of each other.                       *)
Together(p, q) == p \in Present /\ q \in Present
Knows(p, q) == \E i \in Slots : roster[p][i] = q

EventuallyKnown == \A p, q \in Peers : Together(p, q) ~> Knows(p, q) \/ ~Together(p, q)
=============================================================================
