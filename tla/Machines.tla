------------------------------ MODULE Machines ------------------------------
(***************************************************************************)
(* What the handling of sessions promises the rest of the server: a table  *)
(* of machines in which whoever comes in gets the first free index and     *)
(* keeps it until it leaves, and a count of the clients in it.  Session    *)
(* implements this module; Listing is written against it.                  *)
(***************************************************************************)
EXTENDS Integers, FiniteSets

CONSTANTS Peers,        \* whoever may connect
          MaxMachines,  \* MAX_MACHINES; the last slot is the console's
          MaxClients,   \* m_MaxClients
          Nobody, Console

VARIABLES machines,     \* m_NetMachines.m_rgpMachines
          clients       \* m_CurrentClients

Slots == 0..(MaxMachines - 1)
Table == [Slots -> Peers \cup {Console, Nobody}]

Present == {p \in Peers : \E i \in Slots : machines[i] = p}
FreeSlots == {i \in Slots : machines[i] = Nobody}
SlotOf(p) == CHOOSE i \in Slots : machines[i] = p
FirstFree == CHOOSE i \in FreeSlots : \A j \in FreeSlots : i <= j

Init ==
  /\ machines = [i \in Slots |-> IF i = MaxMachines - 1 THEN Console ELSE Nobody]
  /\ clients = 0

Enter(p) ==
  /\ p \notin Present /\ FreeSlots # {} /\ clients < MaxClients
  /\ machines' = [machines EXCEPT ![FirstFree] = p]
  /\ clients' = clients + 1

Exit(p) ==
  /\ p \in Present
  /\ machines' = [machines EXCEPT ![SlotOf(p)] = Nobody]
  /\ clients' = clients - 1

Next == \E p \in Peers : Enter(p) \/ Exit(p)

Spec == Init /\ [][Next]_<<machines, clients>>
=============================================================================
