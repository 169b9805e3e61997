--------------------------- MODULE SessionProofs ---------------------------
(***************************************************************************)
(* For any number of peers, names and slots: the count of clients is       *)
(* exact, machines belong to live connections, names are distinct, and an  *)
(* index stands for one machine until the machine is gone.  The last part  *)
(* is about the sessions together with the bans (Admission): every step of *)
(* theirs is one of the sessions, so that the rest holds of them, too.     *)
(***************************************************************************)
EXTENDS Admission, FiniteSetTheorems, CommonProofs

-----------------------------------------------------------------------------
(* The first free slot is a free slot.                                     *)

LEMMA FirstFreeFree ==
  ASSUME FreeSlots # {}
  PROVE  FirstFree \in FreeSlots
  <1>1. FreeSlots \subseteq Nat
    BY SessionAssumption DEF FreeSlots, Slots
  <1>2. \E i \in FreeSlots : \A j \in FreeSlots : i <= j
    BY <1>1, LeastExists
  <1>3. QED
    BY <1>2 DEF FirstFree

LEMMA SlotOfSlot ==
  ASSUME NEW p \in Present
  PROVE  SlotOf(p) \in Slots /\ machines[SlotOf(p)] = p
  BY DEF Present, SlotOf

(* A check that fails is found, and so a refusal has a reason.             *)
LEMMA FaultFound ==
  ASSUME NEW faults \in SUBSET Faults, faults # {}
  PROVE  FirstFault(faults) \in faults
  <1> DEFINE First(k) == Checks[k] \in faults /\ \A j \in 1..(k - 1) : Checks[j] \notin faults
  <1>1. Len(Checks) = 6
    BY DEF Checks
  <1>2. \E k \in 1..6 : Checks[k] \in faults
    BY <1>1 DEF Faults
  <1>3. \E k \in 1..6 : First(k)
    <2> DEFINE T == {k \in 1..6 : Checks[k] \in faults}
    <2>1. PICK k \in T : \A j \in T : k <= j
      BY <1>2, LeastExists
    <2>2. QED
      BY <2>1
  <1>4. QED
    BY <1>1, <1>3 DEF FirstFault

LEMMA VerdictReason ==
  ASSUME NEW faults \in SUBSET Faults, NEW n
  PROVE  Verdict(faults, n) \in Reasons \cup {"ACCEPTED"}
  BY FaultFound DEF Verdict, Reasons

-----------------------------------------------------------------------------
(* The inductive invariant.                                                *)

Inv ==
  /\ TypeOK
  /\ MachinesLive
  /\ NamesDistinct
  /\ IsFiniteSet(Present)
  /\ CountExact

(* A machine comes: a free slot, a name not in use, room for one more.     *)
LEMMA AcceptKeeps ==
  ASSUME Inv, NEW p \in Peers, p \notin Present, link[p] = "open", NEW n \in Names,
         ~IsNameInUse(n), ~NoRoom, Accept(p, n)
  PROVE  Inv' /\ \A i \in Slots : machines[i] # Nobody => machines'[i] = machines[i]
  <1> USE DEF Inv
  <1>1. PICK f \in Slots : f = FirstFree /\ machines[f] = Nobody
    BY FirstFreeFree DEF NoRoom, FreeSlots
  <1>2. /\ machines' = [machines EXCEPT ![f] = p]
        /\ clients' = clients + 1 /\ name' = [name EXCEPT ![p] = n]
        /\ joined' = [joined EXCEPT ![p] = FALSE]
        /\ streaming' = [streaming EXCEPT ![p] = FALSE]
        /\ link' = link /\ roster' = roster /\ Tell(p, f)
    BY <1>1 DEF Accept
  <1>3. \A i \in Slots : machines'[i] = IF i = f THEN p ELSE machines[i]
    BY <1>2 DEF TypeOK, Table
  <1>4. machines' \in Table
    BY <1>1, <1>2 DEF TypeOK, Table
  <1>5. inbox' \in [Peers -> Seq(Packet)]
    <2>1. [what |-> "EXISTINGMACHINES", all |-> machines'] \in Packet
          /\ [what |-> "ADDMACHINE", slot |-> f, who |-> p] \in Packet
      BY <1>1, <1>4 DEF Packet
    <2>2. QED
      BY <1>2, <2>1 DEF Tell, TypeOK
  <1>6. Present' = Present \cup {p}
    BY <1>1, <1>3, SessionAssumption DEF Present
  <1>7. TypeOK'
    <2>1. clients' \in 0..MaxClients
      BY <1>2, SessionAssumption DEF NoRoom, TypeOK
    <2>2. QED
      BY <1>2, <1>4, <1>5, <2>1 DEF TypeOK
  <1>8. MachinesLive'
    <2>1. \A i \in Slots : machines[i] # p
      BY DEF Present
    <2>2. QED
      BY <1>2, <1>3, <1>6, <2>1 DEF MachinesLive
  <1>9. NamesDistinct'
    <2> SUFFICES ASSUME ~DuplicateNames, NEW i \in Slots, NEW j \in Slots,
                        machines'[i] # Nobody, machines'[j] # Nobody,
                        NameOf(machines[i])' = NameOf(machines[j])'
                 PROVE  i = j
      BY DEF NamesDistinct
    <2>1. \A k \in Slots : k # f /\ machines[k] # Nobody =>
            NameOf(machines[k])' = NameOf(machines[k]) /\ NameOf(machines[k]) # n
      <3> SUFFICES ASSUME NEW k \in Slots, k # f, machines[k] # Nobody
                   PROVE  /\ NameOf(machines[k])' = NameOf(machines[k])
                          /\ NameOf(machines[k]) # n
        OBVIOUS
      <3>1. machines'[k] = machines[k] /\ machines[k] # p
        BY <1>3 DEF Present
      <3>2. machines[k] \in Peers \cup {Console}
        BY DEF TypeOK, Table
      <3>3. NameOf(machines[k])' = NameOf(machines[k])
        BY <1>2, <3>1, <3>2 DEF NameOf, TypeOK
      <3>4. QED
        BY <3>1, <3>3 DEF IsNameInUse
    <2>2. NameOf(machines[f])' = n
      <3>1. machines'[f] = p /\ name'[p] = n
        BY <1>1, <1>2, <1>3 DEF TypeOK
      <3>2. QED
        BY <3>1, SessionAssumption DEF NameOf
    <2>3. CASE i # f /\ j # f
      <3>1. machines[i] # Nobody /\ machines[j] # Nobody
        BY <1>3, <2>3
      <3>2. NameOf(machines[i]) = NameOf(machines[j])
        BY <2>1, <2>3, <3>1
      <3>3. QED
        BY <3>1, <3>2 DEF NamesDistinct
    <2>4. CASE i = f \/ j = f
      <3>1. \A k \in Slots : k # f /\ machines'[k] # Nobody =>
              NameOf(machines[k])' # NameOf(machines[f])'
        BY <1>3, <2>1, <2>2
      <3>2. QED
        BY <2>4, <3>1
    <2>5. QED
      BY <2>3, <2>4
  <1>10. IsFiniteSet(Present)' /\ CountExact'
    BY <1>2, <1>6, FS_AddElement DEF CountExact
  <1>11. \A i \in Slots : machines[i] # Nobody => machines'[i] = machines[i]
    BY <1>1, <1>3
  <1>12. QED
    BY <1>7, <1>8, <1>9, <1>10, <1>11

(* A machine goes, whichever way its connection ends; the connection may   *)
(* end up in any state then.                                               *)
LEMMA GoneKeeps ==
  ASSUME Inv, NEW p \in Peers, p \in Present, NEW s \in {"closed"} \cup Reasons,
         MachineGone(p), link' = [link EXCEPT ![p] = s]
  PROVE  Inv' /\ \A i \in Slots : machines'[i] # Nobody => machines'[i] = machines[i]
  <1> USE DEF Inv
  <1>1. PICK f \in Slots :
          f = SlotOf(p) /\ machines[f] = p /\ \A i \in Slots : machines[i] = p => i = f
    BY SlotOfSlot DEF MachinesLive
  <1>2. /\ machines' = [machines EXCEPT ![f] = Nobody]
        /\ clients' = clients - 1 /\ name' = [name EXCEPT ![p] = NoName]
        /\ joined' = [joined EXCEPT ![p] = FALSE]
        /\ streaming' = [streaming EXCEPT ![p] = FALSE]
        /\ roster' = [roster EXCEPT ![p] = NoRoster]
        /\ inbox' = [q \in Peers |->
                        IF q = p THEN <<>>
                        ELSE IF q \in Present
                        THEN Append(inbox[q], [what |-> "REMOVEMACHINE", slot |-> f])
                        ELSE inbox[q]]
    BY <1>1 DEF MachineGone
  <1>3. \A i \in Slots : machines'[i] = IF i = f THEN Nobody ELSE machines[i]
    BY <1>2 DEF TypeOK, Table
  <1>4. Present' = Present \ {p}
    BY <1>1, <1>3, SessionAssumption DEF Present
  <1>5. IsFiniteSet(Present)' /\ Cardinality(Present)' = clients - 1
    BY <1>4, FS_RemoveElement DEF CountExact
  <1>6. TypeOK'
    <2>1. [what |-> "REMOVEMACHINE", slot |-> f] \in Packet
      BY <1>1 DEF Packet
    <2>2. inbox' \in [Peers -> Seq(Packet)]
      BY <1>2, <2>1 DEF TypeOK
    <2>3. clients - 1 \in 0..MaxClients
      <3>1. Cardinality(Present') \in Nat
        BY <1>5, FS_CardinalityType
      <3>2. QED
        BY <1>5, <3>1, SessionAssumption DEF TypeOK
    <2>4. machines' \in Table /\ NoRoster \in Table
      BY <1>2 DEF TypeOK, Table, NoRoster
    <2>5. QED
      BY <1>2, <2>2, <2>3, <2>4 DEF TypeOK
  <1>7. MachinesLive'
    <2>1. \A q \in Present' : link'[q] = "open"
      BY <1>4 DEF MachinesLive, TypeOK
    <2>2. ASSUME NEW i \in Slots, NEW j \in Slots, machines'[i] \in Peers, machines'[i] = machines'[j]
          PROVE  i = j
      BY <1>3, <2>2, SessionAssumption DEF MachinesLive
    <2>3. QED
      BY <2>1, <2>2 DEF MachinesLive
  <1>8. NamesDistinct'
    <2>1. \A i \in Slots : machines'[i] # Nobody =>
            machines'[i] = machines[i] /\ NameOf(machines[i])' = NameOf(machines[i])
      BY <1>1, <1>2, <1>3 DEF NameOf, TypeOK
    <2>2. QED
      BY <2>1 DEF NamesDistinct
  <1>9. QED
    BY <1>2, <1>3, <1>5, <1>6, <1>7, <1>8 DEF CountExact

(* Whatever leaves the machines and the names alone, and the connections   *)
(* of the machines.                                                        *)
LEMMA TableKept ==
  ASSUME Inv, TypeOK', UNCHANGED <<machines, clients, name>>,
         \A q \in Present : link'[q] = link[q]
  PROVE  Inv'
  <1>1. Present' = Present
    BY DEF Present
  <1>2. QED
    BY <1>1 DEF Inv, MachinesLive, NamesDistinct, NameOf, CountExact

LEMMA InvStep ==
  ASSUME Inv, [Next]_vars
  PROVE  /\ Inv'
         /\ \A i \in Slots :
              machines[i] # Nobody /\ machines'[i] # Nobody => machines'[i] = machines[i]
  <1> DEFINE Goal == /\ Inv'
                     /\ \A i \in Slots :
                          machines[i] # Nobody /\ machines'[i] # Nobody
                            => machines'[i] = machines[i]
  <1>0. TypeOK
    BY DEF Inv
  <1>1. ASSUME NEW p \in Peers, NEW faults \in SUBSET Faults, NEW n \in Names,
               Initial(p, faults, n)
        PROVE  Goal
    <2> DEFINE verdict == Verdict(faults, n)
    <2>1. CASE verdict = "ACCEPTED"
      <3>1. Accept(p, n) /\ p \notin Present /\ link[p] = "open"
        BY <1>1, <2>1 DEF Initial
      <3>2. ~IsNameInUse(n) /\ ~NoRoom
        <4>1. faults # {} => FirstFault(faults) # "ACCEPTED"
          BY FaultFound DEF Faults, Checks
        <4>2. QED
          BY <2>1, <4>1 DEF Verdict
      <3>3. QED
        BY <3>1, <3>2, AcceptKeeps
    <2>2. CASE verdict # "ACCEPTED"
      <3>1. Refuse(p, verdict) /\ p \notin Present
        BY <1>1, <2>2 DEF Initial
      <3>2. verdict \in Reasons
        BY <2>2, VerdictReason
      <3>3. TypeOK'
        BY <1>0, <3>1, <3>2 DEF Refuse, TypeOK, tableVars
      <3>4. QED
        BY <1>0, <3>1, <3>3, TableKept DEF Refuse, tableVars, TypeOK
    <2>3. QED
      BY <2>1, <2>2
  <1>2. ASSUME NEW p \in Peers, Join(p)
        PROVE  Goal
    <2>1. TypeOK'
      BY <1>0, <1>2 DEF Join, TypeOK
    <2>2. QED
      BY <1>2, <2>1, TableKept DEF Join
  <1>3. ASSUME NEW p \in Peers, NEW on \in BOOLEAN, SetStreaming(p, on)
        PROVE  Goal
    <2>1. TypeOK'
      BY <1>0, <1>3 DEF SetStreaming, TypeOK
    <2>2. QED
      BY <1>3, <2>1, TableKept DEF SetStreaming
  <1>4. ASSUME NEW p \in Peers, NEW reason, NEW s \in {"closed"} \cup Reasons,
               OnPlayerDisconnect(p, reason), link' = [link EXCEPT ![p] = s],
               reason = "NICKNAMEINUSE" => p \notin Present
        PROVE  Goal
    <2>1. CASE p \in Present
      <3>1. MachineGone(p)
        BY <1>4, <2>1 DEF OnPlayerDisconnect
      <3>2. QED
        BY <1>4, <2>1, <3>1, GoneKeeps
    <2>2. CASE p \notin Present
      <3>1. UNCHANGED <<tableVars, inbox, roster>>
        BY <1>4, <2>2 DEF OnPlayerDisconnect
      <3>2. TypeOK'
        BY <1>0, <1>4, <3>1 DEF TypeOK, tableVars
      <3>3. QED
        BY <1>0, <1>4, <2>2, <3>1, <3>2, TableKept DEF tableVars, TypeOK
    <2>3. QED
      BY <2>1, <2>2
  <1>5. ASSUME NEW p \in Peers,
               Lose(p) \/ \E reason \in Reasons \ {"NICKNAMEINUSE"} : Kick(p, reason)
        PROVE  Goal
    <2>1. PICK reason, s \in {"closed"} \cup Reasons :
            /\ OnPlayerDisconnect(p, reason) /\ link' = [link EXCEPT ![p] = s]
            /\ reason # "NICKNAMEINUSE"
      BY <1>5 DEF Kick, Lose, Reasons
    <2>2. QED
      BY <1>4, <2>1
  <1>6. ASSUME NEW p \in Peers, Close(p)
        PROVE  Goal
    <2>1. OnPlayerDisconnect(p, link[p]) /\ link' = [link EXCEPT ![p] = "closed"]
      BY <1>6 DEF Close
    <2>2. p \notin Present
      BY <1>6 DEF Close, Inv, MachinesLive, Reasons, Faults, Checks
    <2>3. QED
      BY <1>4, <2>1, <2>2
  <1>7. ASSUME NEW p \in Peers, Connect(p)
        PROVE  Goal
    <2>1. TypeOK'
      BY <1>0, <1>7 DEF Connect, TypeOK, tableVars
    <2>2. p \notin Present
      BY <1>7 DEF Connect, Inv, MachinesLive
    <2>3. QED
      BY <1>0, <1>7, <2>1, <2>2, TableKept DEF Connect, tableVars, TypeOK
  <1>8. ASSUME NEW p \in Peers, Receive(p)
        PROVE  Goal
    <2>1. inbox[p] \in Seq(Packet) /\ inbox[p] # <<>> /\ roster[p] \in Table
      BY <1>0, <1>8 DEF Receive, TypeOK
    <2>2. Head(inbox[p]) \in Packet /\ Tail(inbox[p]) \in Seq(Packet)
      BY <2>1
    <2>3. Learn(roster[p], Head(inbox[p])) \in Table
      BY <2>1, <2>2 DEF Learn, Packet, Table
    <2>4. TypeOK'
      BY <1>0, <1>8, <2>2, <2>3 DEF Receive, TypeOK, tableVars
    <2>5. QED
      BY <1>8, <2>4, TableKept DEF Receive, tableVars
  <1>9. CASE UNCHANGED vars
    <2>1. TypeOK'
      BY <1>0, <1>9 DEF vars, tableVars, TypeOK
    <2>2. QED
      BY <1>9, <2>1, TableKept DEF vars, tableVars
  <1>10. QED
    BY <1>1, <1>2, <1>3, <1>5, <1>6, <1>7, <1>8, <1>9 DEF Next

LEMMA InitInv == Init => Inv
  <1> SUFFICES ASSUME Init PROVE Inv
    OBVIOUS
  <1>1. Present = {}
    BY SessionAssumption DEF Init, Present
  <1>2. TypeOK
    BY SessionAssumption DEF Init, TypeOK, Table, NoRoster
  <1>3. MachinesLive /\ NamesDistinct
    BY <1>1, SessionAssumption DEF Init, MachinesLive, NamesDistinct
  <1>4. IsFiniteSet(Present) /\ CountExact
    BY <1>1, FS_EmptySet DEF Init, CountExact
  <1>5. QED
    BY <1>2, <1>3, <1>4 DEF Inv

LEMMA Inductive == Spec => []Inv
  BY InitInv, InvStep, PTL DEF Spec

(* Type correctness; in particular m_CurrentClients never exceeds          *)
(* m_MaxClients and never drops below zero.                                *)
THEOREM TypeCorrect == Spec => []TypeOK
  <1>1. Inv => TypeOK
    BY DEF Inv
  <1>2. QED
    BY <1>1, Inductive, PTL

(* m_CurrentClients is the number of clients with a machine.               *)
THEOREM CountCorrect == Spec => []CountExact
  <1>1. Inv => CountExact
    BY DEF Inv
  <1>2. QED
    BY <1>1, Inductive, PTL

(* No slot stays taken by a client that has gone, and no client has two.   *)
THEOREM MachinesAreLive == Spec => []MachinesLive
  <1>1. Inv => MachinesLive
    BY DEF Inv
  <1>2. QED
    BY <1>1, Inductive, PTL

(* Without duplicatenames, no two machines share a name.                   *)
THEOREM NamesAreDistinct == Spec => []NamesDistinct
  <1>1. Inv => NamesDistinct
    BY DEF Inv
  <1>2. QED
    BY <1>1, Inductive, PTL

(* An index is given out again only after its machine is gone.             *)
THEOREM IndicesKept == Spec => IndexKept
  <1>1. Inv /\ [Next]_vars =>
          [\A i \in Slots : machines[i] # Nobody /\ machines'[i] # Nobody
                           => machines'[i] = machines[i]]_vars
    BY InvStep
  <1>2. QED
    BY <1>1, Inductive, PTL DEF Spec, IndexKept

-----------------------------------------------------------------------------
(* What a client knows.  RosterAgrees speaks of empty queues only; what    *)
(* goes on all the time is that the packets under way lead from what the   *)
(* client knows to the table, and that each of them makes sense to who has *)
(* taken in the ones before it.  The table itself always has the console   *)
(* in its place and nobody twice.                                          *)

Complete(t) ==
  /\ t[ConsoleSlot] = Console
  /\ \A i, j \in Slots : t[i] \in Peers /\ t[i] = t[j] => i = j

(* One step of what a client sees: the table, one player in, or one out.   *)
Turn(t, u) ==
  \/ t = NoRoster /\ Complete(u)
  \/ /\ t # NoRoster
     /\ \E i \in Slots, p \in Peers :
          t[i] = Nobody /\ (\A j \in Slots : t[j] # p) /\ u = [t EXCEPT ![i] = p]
  \/ t # NoRoster /\ \E i \in Slots : t[i] \in Peers /\ u = [t EXCEPT ![i] = Nobody]

Turns == {s \in Table \X Packet \X Table : s[3] = Learn(s[1], s[2]) /\ Turn(s[1], s[3])}

Underway(p) == Leads(inbox[p], roster[p], machines, Table, Turns)

Follows ==
  /\ machines[ConsoleSlot] = Console
  /\ \A p \in Peers : IF p \in Present THEN Underway(p)
                      ELSE inbox[p] = <<>> /\ roster[p] = NoRoster

(* Nobody a client has to tell apart from what it knew before.             *)
LEMMA NeitherTable ==
  ASSUME Inv, Follows
  PROVE  machines # NoRoster /\ Complete(machines) /\ machines \in Table /\ NoRoster \in Table
  <1>1. ConsoleSlot \in Slots
    BY SessionAssumption DEF Slots, ConsoleSlot
  <1>2. NoRoster[ConsoleSlot] = Nobody /\ NoRoster \in Table
    BY <1>1 DEF NoRoster, Table
  <1>3. QED
    BY <1>2, SessionAssumption DEF Inv, TypeOK, MachinesLive, Complete, Follows

(* One entry of the table changes, and the client is told of it.           *)
LEMMA ToldOfChange ==
  ASSUME Inv, Follows, NEW q \in Present, NEW k \in Packet, machines' \in Table,
         machines' = Learn(machines, k), Turn(machines, machines'),
         inbox'[q] = Append(inbox[q], k), roster'[q] = roster[q]
  PROVE  Underway(q)'
  <1>1. inbox[q] \in Seq(Packet) /\ machines \in Table /\ q \in Peers
    BY DEF Inv, TypeOK, Present
  <1>2. Leads(inbox[q], roster[q], machines, Table, Turns)
    BY <1>1 DEF Follows, Underway
  <1>3. <<machines, k, machines'>> \in Turns
    BY <1>1 DEF Turns
  <1>4. Leads(Append(inbox[q], k), roster[q], machines', Table, Turns)
    BY <1>1, <1>2, <1>3, LeadsAppended
  <1>5. QED
    BY <1>4 DEF Underway, Leads

(* A new machine: the others are told of it, and it of everybody.          *)
LEMMA AcceptTells ==
  ASSUME Inv, Inv', Follows, NEW p \in Peers, p \notin Present, NEW n, ~NoRoom, Accept(p, n)
  PROVE  Follows'
  <1>1. PICK f \in Slots : f = FirstFree /\ machines[f] = Nobody
    BY FirstFreeFree DEF NoRoom, FreeSlots
  <1>2. /\ machines' = [machines EXCEPT ![f] = p] /\ roster' = roster /\ Tell(p, f)
        /\ machines \in Table /\ machines' \in Table /\ inbox \in [Peers -> Seq(Packet)]
    BY <1>1 DEF Accept, Inv, TypeOK
  <1>3. \A i \in Slots : machines'[i] = IF i = f THEN p ELSE machines[i]
    BY <1>2 DEF Table
  <1>4. Present' = Present \cup {p}
    BY <1>1, <1>3, SessionAssumption DEF Present
  <1>5. machines'[ConsoleSlot] = Console
    BY <1>1, <1>3, SessionAssumption DEF Follows, Slots, ConsoleSlot
  <1>6. Underway(p)'
    <2> DEFINE k == [what |-> "EXISTINGMACHINES", all |-> machines']
    <2>1. k \in Packet /\ inbox'[p] = Append(<<>>, k) /\ machines' = Learn(NoRoster, k)
      BY <1>2 DEF Packet, Tell, Learn
    <2> HIDE DEF k
    <2>2. Complete(machines')
      BY <1>5 DEF Complete, Inv, MachinesLive
    <2>3. roster'[p] = NoRoster /\ NoRoster \in Table
      BY <1>2, NeitherTable DEF Follows
    <2>4. <<NoRoster, k, machines'>> \in Turns
      BY <1>2, <2>1, <2>2, <2>3 DEF Turns, Turn
    <2>5. Leads(<<>>, NoRoster, NoRoster, Table, Turns) /\ <<>> \in Seq(Packet)
      BY <2>3, LeadsNowhere
    <2>6. Leads(Append(<<>>, k), NoRoster, machines', Table, Turns)
      BY <1>2, <2>1, <2>4, <2>5, LeadsAppended
    <2>7. QED
      BY <2>1, <2>3, <2>6 DEF Underway, Leads
  <1>7. ASSUME NEW q \in Present, q # p
        PROVE  Underway(q)'
    <2> DEFINE k == [what |-> "ADDMACHINE", slot |-> f, who |-> p]
    <2>1. k \in Packet /\ inbox'[q] = Append(inbox[q], k) /\ machines' = Learn(machines, k)
      BY <1>2, <1>7 DEF Packet, Tell, Present, Learn
    <2> HIDE DEF k
    <2>2. Turn(machines, machines')
      BY <1>1, <1>2, NeitherTable DEF Turn, Present
    <2>3. QED
      BY <1>2, <1>7, <2>1, <2>2, ToldOfChange
  <1>8. ASSUME NEW q \in Peers, q \notin Present, q # p
        PROVE  inbox'[q] = <<>> /\ roster'[q] = NoRoster
    BY <1>2, <1>8 DEF Follows, Tell
  <1>9. QED
    BY <1>4, <1>5, <1>6, <1>7, <1>8 DEF Follows

LEMMA GoneTells ==
  ASSUME Inv, Inv', Follows, NEW p \in Peers, p \in Present, MachineGone(p)
  PROVE  Follows'
  <1>1. PICK f \in Slots :
          f = SlotOf(p) /\ machines[f] = p /\ \A i \in Slots : machines[i] = p => i = f
    BY SlotOfSlot DEF Inv, MachinesLive
  <1>2. /\ machines' = [machines EXCEPT ![f] = Nobody]
        /\ roster' = [roster EXCEPT ![p] = NoRoster]
        /\ inbox' = [q \in Peers |->
                        IF q = p THEN <<>>
                        ELSE IF q \in Present
                        THEN Append(inbox[q], [what |-> "REMOVEMACHINE", slot |-> f])
                        ELSE inbox[q]]
        /\ machines \in Table /\ machines' \in Table /\ roster \in [Peers -> Table]
    BY <1>1 DEF MachineGone, Inv, TypeOK
  <1>3. \A i \in Slots : machines'[i] = IF i = f THEN Nobody ELSE machines[i]
    BY <1>1, <1>2 DEF Table
  <1>4. Present' = Present \ {p}
    BY <1>1, <1>3, SessionAssumption DEF Present
  <1>5. machines'[ConsoleSlot] = Console
    BY <1>1, <1>3, SessionAssumption DEF Follows, Slots, ConsoleSlot
  <1>6. ASSUME NEW q \in Present, q # p
        PROVE  Underway(q)'
    <2> DEFINE k == [what |-> "REMOVEMACHINE", slot |-> f]
    <2>1. /\ k \in Packet /\ inbox'[q] = Append(inbox[q], k) /\ roster'[q] = roster[q]
          /\ machines' = Learn(machines, k)
      BY <1>1, <1>2, <1>6 DEF Packet, Present, Learn
    <2> HIDE DEF k
    <2>2. Turn(machines, machines')
      BY <1>1, <1>2, NeitherTable DEF Turn
    <2>3. QED
      BY <1>2, <1>6, <2>1, <2>2, ToldOfChange
  <1>7. ASSUME NEW q \in Peers, q \notin Present'
        PROVE  inbox'[q] = <<>> /\ roster'[q] = NoRoster
    <2>1. CASE q = p
      BY <1>2, <2>1
    <2>2. CASE q # p
      BY <1>2, <1>4, <1>7, <2>2 DEF Follows
    <2>3. QED
      BY <2>1, <2>2
  <1>8. QED
    BY <1>4, <1>5, <1>6, <1>7 DEF Follows

(* A client takes in a packet: one step of what it sees, and the rest of   *)
(* the packets lead on from there.                                         *)
LEMMA ReceiveLearns ==
  ASSUME Inv, Follows, NEW p \in Peers, Receive(p)
  PROVE  Follows' /\ Turn(roster[p], roster'[p]) /\ \A q \in Peers : q # p => roster'[q] = roster[q]
  <1>1. /\ inbox[p] \in Seq(Packet) /\ inbox[p] # <<>> /\ roster[p] \in Table
        /\ machines' = machines
        /\ inbox' = [inbox EXCEPT ![p] = Tail(@)]
        /\ roster' = [roster EXCEPT ![p] = Learn(@, Head(inbox[p]))]
        /\ inbox \in [Peers -> Seq(Packet)] /\ roster \in [Peers -> Table]
    BY DEF Receive, Inv, TypeOK, tableVars
  <1>2. Present' = Present /\ p \in Present
    BY <1>1 DEF Present, Follows
  <1>3. Leads(inbox[p], roster[p], machines, Table, Turns)
    BY <1>2 DEF Follows, Underway
  <1>4. PICK next \in Table :
          /\ <<roster[p], Head(inbox[p]), next>> \in Turns
          /\ Leads(Tail(inbox[p]), next, machines, Table, Turns)
    BY <1>1, <1>3, LeadsTaken
  <1>5. next = Learn(roster[p], Head(inbox[p])) /\ Turn(roster[p], next)
    BY <1>4 DEF Turns
  <1>6. roster'[p] = next /\ inbox'[p] = Tail(inbox[p])
    BY <1>1, <1>5
  <1>7. Underway(p)'
    BY <1>1, <1>4, <1>6 DEF Underway, Leads
  <1>8. ASSUME NEW q \in Peers, q # p
        PROVE  inbox'[q] = inbox[q] /\ roster'[q] = roster[q] /\ (Underway(q) => Underway(q)')
    <2>1. inbox'[q] = inbox[q] /\ roster'[q] = roster[q]
      BY <1>1, <1>8
    <2>2. QED
      BY <1>1, <2>1 DEF Underway, Leads
  <1>9. Follows'
    BY <1>1, <1>2, <1>7, <1>8 DEF Follows
  <1>10. QED
    BY <1>5, <1>6, <1>8, <1>9

(* What a step makes of what the clients see.                              *)
LEMMA FollowsStep ==
  ASSUME Inv, Inv', Follows, [Next]_vars
  PROVE  /\ Follows'
         /\ \A q \in Peers : \/ roster'[q] = roster[q] \/ roster'[q] = NoRoster
                             \/ Turn(roster[q], roster'[q])
  <1> DEFINE Goal == /\ Follows'
                     /\ \A q \in Peers : \/ roster'[q] = roster[q] \/ roster'[q] = NoRoster
                                         \/ Turn(roster[q], roster'[q])
  <1>1. ASSUME UNCHANGED <<machines, inbox, roster>>
        PROVE  Goal
    BY <1>1 DEF Follows, Underway, Leads, Present
  <1>2. ASSUME NEW p \in Peers, NEW reason, OnPlayerDisconnect(p, reason)
        PROVE  Goal
    <2>1. CASE MachineGone(p) /\ p \in Present
      <3>1. roster' = [roster EXCEPT ![p] = NoRoster] /\ roster \in [Peers -> Table]
        BY <2>1 DEF MachineGone, Inv, TypeOK
      <3>2. QED
        BY <2>1, <3>1, GoneTells
    <2>2. QED
      BY <1>1, <1>2, <2>1 DEF OnPlayerDisconnect, tableVars
  <1>3. ASSUME NEW p \in Peers, NEW faults \in SUBSET Faults, NEW n \in Names,
               Initial(p, faults, n)
        PROVE  Goal
    <2>1. CASE Verdict(faults, n) = "ACCEPTED"
      <3>1. Accept(p, n) /\ p \notin Present
        BY <1>3, <2>1 DEF Initial
      <3>2. ~NoRoom
        <4>1. faults # {} => FirstFault(faults) # "ACCEPTED"
          BY FaultFound DEF Faults, Checks
        <4>2. QED
          BY <2>1, <4>1 DEF Verdict
      <3>3. roster' = roster
        BY <3>1 DEF Accept
      <3>4. QED
        BY <3>1, <3>2, <3>3, AcceptTells
    <2>2. CASE Verdict(faults, n) # "ACCEPTED"
      BY <1>1, <1>3, <2>2 DEF Initial, Refuse, tableVars
    <2>3. QED
      BY <2>1, <2>2
  <1>4. ASSUME NEW p \in Peers,
               \/ Join(p) \/ Connect(p)
               \/ \E on \in BOOLEAN : SetStreaming(p, on)
        PROVE  Goal
    BY <1>1, <1>4 DEF Join, Connect, SetStreaming, tableVars
  <1>5. ASSUME NEW p \in Peers,
               Lose(p) \/ Close(p) \/ \E reason \in Reasons \ {"NICKNAMEINUSE"} : Kick(p, reason)
        PROVE  Goal
    BY <1>2, <1>5 DEF Lose, Close, Kick
  <1>6. ASSUME NEW p \in Peers, Receive(p)
        PROVE  Goal
    BY <1>6, ReceiveLearns
  <1>7. CASE UNCHANGED vars
    BY <1>1, <1>7 DEF vars, tableVars
  <1>8. QED
    BY <1>3, <1>4, <1>5, <1>6, <1>7 DEF Next

LEMMA FollowsInit == Init => Follows
  <1> SUFFICES ASSUME Init PROVE Follows
    OBVIOUS
  <1>1. Present = {}
    BY SessionAssumption DEF Init, Present
  <1>2. ConsoleSlot \in Slots
    BY SessionAssumption DEF Slots, ConsoleSlot
  <1>3. QED
    BY <1>1, <1>2 DEF Init, Follows

LEMMA AlwaysFollows == Spec => []Follows
  <1>1. Inv /\ Inv' /\ Follows /\ [Next]_vars => Follows'
    BY FollowsStep
  <1>2. QED
    BY <1>1, FollowsInit, Inductive, PTL DEF Spec

(* A client that has taken in everything knows exactly the machines there  *)
(* are, for any number of clients and any length of their queues.          *)
THEOREM RostersAgree == Spec => []RosterAgrees
  <1>1. Inv /\ Follows => RosterAgrees
    <2> SUFFICES ASSUME Inv, Follows, NEW p \in Present, inbox[p] = <<>>
                 PROVE  roster[p] = machines
      BY DEF RosterAgrees
    <2>1. Leads(<<>>, roster[p], machines, Table, Turns) /\ roster[p] \in Table
      BY DEF Follows, Underway, Present, Inv, TypeOK
    <2>2. QED
      BY <2>1, LeadsNowhere
  <1>2. QED
    BY <1>1, Inductive, AlwaysFollows, PTL

(* However far behind a client is, what it sees are single players coming  *)
(* in and going out of a table that never shows anybody twice: a packet is *)
(* about the table the client then has, although the server's has long     *)
(* changed again.                                                          *)
LEMMA TurnIsRoster ==
  ASSUME NEW p \in Peers, Inv, Inv', Turn(roster[p], roster'[p])
  PROVE  Seen(p)!Next
  <1>0. roster[p] \in Table /\ roster'[p] \in Table
    BY DEF Inv, TypeOK
  <1>1. CASE roster[p] = NoRoster /\ Complete(roster'[p])
    BY <1>0, <1>1 DEF Complete, Seen!Next, Seen!Begin, Seen!Whole, Seen!Slots, Slots, ConsoleSlot, Table
  <1>2. ASSUME NEW i \in Slots, NEW q \in Peers, roster[p] # NoRoster, roster[p][i] = Nobody,
               \A j \in Slots : roster[p][j] # q, roster'[p] = [roster[p] EXCEPT ![i] = q]
        PROVE  Seen(p)!Next
    BY <1>2 DEF Seen!Next, Seen!Appear, Seen!Slots, Slots
  <1>3. ASSUME NEW i \in Slots, roster[p] # NoRoster, roster[p][i] \in Peers,
               roster'[p] = [roster[p] EXCEPT ![i] = Nobody]
        PROVE  Seen(p)!Next
    BY <1>3 DEF Seen!Next, Seen!Disappear, Seen!Slots, Slots
  <1>4. QED
    BY <1>1, <1>2, <1>3 DEF Turn

(* On its way through its queue, too, every client sees players come and   *)
(* go one at a time at indices nobody has, and nobody twice.               *)
THEOREM RostersImplemented == Spec => ImplementsRosters
  <1>1. Inv /\ Inv' /\ Follows /\ [Next]_vars =>
          [\A p \in Peers : [Seen(p)!Next]_(roster[p])]_roster
    <2> SUFFICES ASSUME Inv, Inv', Follows, [Next]_vars, NEW p \in Peers
                 PROVE  Seen(p)!Next \/ roster'[p] = roster[p]
      OBVIOUS
    <2>1. roster'[p] = NoRoster => Seen(p)!Next
      BY DEF Seen!Next, Seen!Forget
    <2>2. QED
      BY <2>1, FollowsStep, TurnIsRoster
  <1>2. QED
    BY <1>1, Inductive, AlwaysFollows, PTL DEF Spec, ImplementsRosters

(* Put as an implementation: what any one client sees behaves as Roster.   *)
THEOREM EveryClientSeesARoster == Spec => \A p \in Peers : Seen(p)!Spec
  <1> SUFFICES ASSUME NEW p \in Peers
               PROVE  Spec => Seen(p)!Spec
    OBVIOUS
  <1>1. Init => Seen(p)!Init
    BY DEF Init, Seen!Init
  <1>2. Inv /\ Inv' /\ Follows /\ [Next]_vars => [Seen(p)!Next]_(roster[p])
    <2> SUFFICES ASSUME Inv, Inv', Follows, [Next]_vars
                 PROVE  Seen(p)!Next \/ roster'[p] = roster[p]
      OBVIOUS
    <2>1. roster'[p] = NoRoster => Seen(p)!Next
      BY DEF Seen!Next, Seen!Forget
    <2>2. QED
      BY <2>1, FollowsStep, TurnIsRoster
  <1>3. QED
    BY <1>1, <1>2, Inductive, AlwaysFollows, PTL DEF Spec, Seen!Spec

-----------------------------------------------------------------------------
(* The table of machines that the other parts are written against.         *)

LEMMA InitialIsMachines ==
  ASSUME Inv, NEW p \in Peers, NEW faults \in SUBSET Faults, NEW n \in Names,
         Initial(p, faults, n)
  PROVE  M!Enter(p) \/ UNCHANGED <<machines, clients>>
  <1>1. CASE Verdict(faults, n) = "ACCEPTED"
    <2>1. faults = {}
      <3>1. "ACCEPTED" \notin Faults
        BY DEF Faults, Checks
      <3>2. QED
        BY <1>1, <3>1, FaultFound DEF Verdict
    <2>2. ~NoRoom
      BY <1>1, <2>1 DEF Verdict
    <2>3. clients < MaxClients /\ FreeSlots # {}
      BY <2>2, SessionAssumption DEF NoRoom, Inv, TypeOK
    <2>4. p \notin Present /\ Accept(p, n)
      BY <1>1 DEF Initial
    <2>5. QED
      BY <2>3, <2>4 DEF Accept, M!Enter, M!Present, Present, M!FreeSlots, FreeSlots,
                        M!FirstFree, FirstFree, M!Slots, Slots
  <1>2. CASE Verdict(faults, n) # "ACCEPTED"
    BY <1>2 DEF Initial, Refuse, tableVars
  <1>3. QED
    BY <1>1, <1>2

LEMMA GoneIsMachines ==
  ASSUME NEW p \in Peers, NEW reason, OnPlayerDisconnect(p, reason)
  PROVE  M!Exit(p) \/ UNCHANGED <<machines, clients>>
  <1>1. CASE reason # "NICKNAMEINUSE" /\ p \in Present
    BY <1>1 DEF OnPlayerDisconnect, MachineGone, M!Exit, M!Present, Present, M!Slots, Slots,
                M!SlotOf, SlotOf
  <1>2. CASE ~(reason # "NICKNAMEINUSE" /\ p \in Present)
    BY <1>2 DEF OnPlayerDisconnect, tableVars
  <1>3. QED
    BY <1>1, <1>2

(* Handshakes, kicks and lost connections implement the module Machines:   *)
(* what Listing shows of any table that behaves so holds of the server's.  *)
THEOREM MachinesImplemented == Spec => ImplementsMachines
  <1>1. Init => M!Init
    BY DEF Init, M!Init, M!Slots, Slots, ConsoleSlot
  <1>2. Inv /\ [Next]_vars => [M!Next]_<<machines, clients>>
    <2> SUFFICES ASSUME Inv, [Next]_vars
                 PROVE  M!Next \/ UNCHANGED <<machines, clients>>
      OBVIOUS
    <2>1. ASSUME NEW p \in Peers, NEW faults \in SUBSET Faults, NEW n \in Names,
                 Initial(p, faults, n)
          PROVE  M!Next \/ UNCHANGED <<machines, clients>>
      BY <2>1, InitialIsMachines DEF M!Next
    <2>2. ASSUME NEW p \in Peers, NEW reason, OnPlayerDisconnect(p, reason)
          PROVE  M!Next \/ UNCHANGED <<machines, clients>>
      BY <2>2, GoneIsMachines DEF M!Next
    <2>3. ASSUME NEW p \in Peers,
                 Lose(p) \/ Close(p) \/ \E reason \in Reasons \ {"NICKNAMEINUSE"} : Kick(p, reason)
          PROVE  M!Next \/ UNCHANGED <<machines, clients>>
      BY <2>2, <2>3 DEF Lose, Close, Kick
    <2>4. ASSUME NEW p \in Peers,
                 Join(p) \/ Connect(p) \/ Receive(p) \/ \E on \in BOOLEAN : SetStreaming(p, on)
          PROVE  UNCHANGED <<machines, clients>>
      BY <2>4 DEF Join, Connect, Receive, SetStreaming, tableVars
    <2>5. CASE UNCHANGED vars
      BY <2>5 DEF vars, tableVars
    <2>6. QED
      BY <2>1, <2>3, <2>4, <2>5 DEF Next
  <1>3. QED
    BY <1>1, <1>2, Inductive, PTL DEF Spec, ImplementsMachines, M!Spec

-----------------------------------------------------------------------------
(* Sessions and bans.                                                      *)

LEMMA FaultsAreFaults ==
  ASSUME NEW p \in Peers, NEW others \in SUBSET OtherFaults, NEW v
  PROVE  others \cup BanOf(p) \cup AgeOf(v) \in SUBSET Faults
  BY AdmissionAssumption DEF BanOf, AgeOf, Faults, Checks

LEMMA AdmissionIsSession ==
  ASSUME [AdmissionNext]_admissionVars
  PROVE  [Next]_vars
  <1>1. ASSUME NEW p \in Peers, NEW others \in SUBSET OtherFaults, NEW v \in Versions,
               NEW n \in Names, Handshake(p, others, v, n)
        PROVE  Next
    BY <1>1, FaultsAreFaults DEF Handshake, Next
  <1>2. SessionGoesOn => Next
    BY DEF SessionGoesOn, Next
  <1>3. BansGoOn => UNCHANGED vars
    BY DEF BansGoOn
  <1>4. UNCHANGED admissionVars => UNCHANGED vars
    BY DEF admissionVars
  <1>5. QED
    BY <1>1, <1>2, <1>3, <1>4 DEF AdmissionNext

(* With hosts banned and unbanned at any time and lookups that change the  *)
(* list, the sessions behave as Session says; so all that is proved of     *)
(* Session holds of them.                                                  *)
THEOREM SessionsRefined == AdmissionSpec => Spec
  <1>1. AdmissionInit => Init
    BY DEF AdmissionInit
  <1>2. [AdmissionNext]_admissionVars => [Next]_vars
    BY AdmissionIsSession
  <1>3. QED
    BY <1>1, <1>2, PTL DEF AdmissionSpec, Spec

(* What an entry says of the time that is left, and what it may be once    *)
(* the ban has ended: a count that has gone by, if nobody has looked.      *)
EntryTells(h) ==
  /\ left[h] = Forever => entries[h] = 0
  /\ left[h] \in Nat \ {0} => entries[h] = ticks + left[h] /\ h \in unseen
  /\ left[h] = 0 => entries[h] = NoEntry \/ (entries[h] \in 1..ticks /\ h \in unseen)

BansInv == BansTypeOK /\ \A h \in Hosts : EntryTells(h)

LEMMA BansInvExact == BansInv => BansExact
  <1> SUFFICES ASSUME BansInv, NEW h \in Hosts, left[h] \notin {Unclear, Relapsed}
               PROVE  Banned(h) <=> left[h] # 0
    BY DEF BansExact
  <1> USE DEF BansInv, EntryTells, BansTypeOK
  <1>1. CASE left[h] = Forever
    BY <1>1, BansAssumption DEF Banned
  <1>2. CASE left[h] \in Nat \ {0}
    BY <1>2, BansAssumption DEF Banned
  <1>3. CASE left[h] = 0
    BY <1>3, BansAssumption DEF Banned
  <1>4. QED
    BY <1>1, <1>2, <1>3

LEMMA IsBannedKeeps ==
  ASSUME BansInv, NEW h \in Hosts, IsBanned(h)
  PROVE  BansInv'
  <1> USE DEF BansInv, BansTypeOK, EntryTells
  <1>1. CASE Banned(h)
    <2>1. left[h] # 0
      BY <1>1, BansInvExact, BansAssumption DEF BansExact
    <2>2. UNCHANGED banVars
      BY <1>1, <2>1 DEF IsBanned, LookedUp, banVars
    <2>3. QED
      BY <2>2 DEF banVars
  <1>2. CASE ~Banned(h)
    <2>1. entries' = [entries EXCEPT ![h] = NoEntry] /\ ticks' = ticks /\ left' = left
          /\ unseen' \in {unseen, unseen \ {h}}
      BY <1>2 DEF IsBanned, LookedUp
    <2>2. left[h] \notin {Unclear, Relapsed} => left[h] = 0
      BY <1>2, BansInvExact DEF BansExact
    <2>3. BansTypeOK'
      BY <2>1
    <2>4. EntryTells(h)'
      BY <2>1, <2>2, BansAssumption
    <2>5. \A k \in Hosts \ {h} : EntryTells(k)'
      BY <2>1
    <2>6. QED
      BY <2>3, <2>4, <2>5
  <1>3. QED
    BY <1>1, <1>2

LEMMA BanKeeps ==
  ASSUME BansInv, NEW h \in Hosts, NEW ms \in Durations, BanIP(h, ms)
  PROVE  BansInv'
  <1> USE DEF BansInv, BansTypeOK
  <1>1. ms \in 0..(TickMod - 1) /\ ticks \in 0..(TickMod - 1) /\ TickMod \in Nat \ {0}
    BY BansAssumption
  <1>2. Expiry(ms) \in Expiries
    BY <1>1 DEF Expiry, Expiries
  <1>3. BansTypeOK'
    BY <1>1, <1>2, BansAssumption DEF BanIP
  <1>4. entries'[h] = Expiry(ms) /\ ticks' = ticks /\ (ms # 0 => h \in unseen')
        /\ left'[h] = IF ms = 0 THEN Forever ELSE IF ticks + ms >= TickMod THEN Unclear ELSE ms
    BY DEF BanIP
  <1>5. EntryTells(h)'
    <2>1. CASE ms = 0
      BY <1>1, <1>4, <2>1, BansAssumption DEF EntryTells, Expiry
    <2>2. CASE ms # 0 /\ ticks + ms >= TickMod
      BY <1>1, <1>4, <2>2, BansAssumption DEF EntryTells, Expiry
    <2>3. CASE ms # 0 /\ ~(ticks + ms >= TickMod)
      <3>1. (ticks + ms) % TickMod = ticks + ms
        BY <1>1, <2>3
      <3>2. entries'[h] = ticks + ms /\ left'[h] = ms
        BY <1>4, <2>3, <3>1 DEF Expiry
      <3>3. QED
        BY <1>1, <1>4, <2>3, <3>2, BansAssumption DEF EntryTells
    <2>4. QED
      BY <2>1, <2>2, <2>3
  <1>6. \A k \in Hosts \ {h} : EntryTells(k)'
    BY DEF BanIP, EntryTells
  <1>7. QED
    BY <1>3, <1>5, <1>6

LEMMA TickKeeps ==
  ASSUME BansInv, Tick
  PROVE  BansInv'
  <1> USE DEF BansInv, BansTypeOK
  <1>1. ticks \in 0..(TickMod - 1) /\ TickMod \in Nat \ {0}
    BY BansAssumption
  <1>2. ticks' = IF ticks = TickMod - 1 THEN 0 ELSE ticks + 1
    BY <1>1 DEF Tick
  <1>3. entries' = entries /\ left' = [h \in Hosts |-> Later(h)] /\ unseen' = unseen
    BY DEF Tick
  <1>4. BansTypeOK'
    <2>1. \A h \in Hosts : Later(h) \in Nat \cup {Forever, Unclear, Relapsed}
      BY DEF Later
    <2>2. QED
      BY <1>1, <1>2, <1>3, <2>1
  <1>5. ASSUME NEW h \in Hosts
        PROVE  EntryTells(h)'
    <2>1. EntryTells(h) /\ left'[h] = Later(h) /\ entries'[h] = entries[h]
      BY <1>3
    <2>2. CASE left[h] \in Nat \ {0}
      <3>1. entries[h] = ticks + left[h] /\ h \in unseen /\ entries[h] <= TickMod - 1
        BY <1>1, <2>1, <2>2, BansAssumption DEF EntryTells, Expiries
      <3>2. ticks' = ticks + 1 /\ left'[h] = left[h] - 1
        BY <1>1, <1>2, <2>1, <2>2, <3>1 DEF Later
      <3>3. QED
        BY <1>1, <1>3, <2>1, <2>2, <3>1, <3>2, BansAssumption DEF EntryTells
    <2>3. CASE left[h] = 0 /\ ticks = TickMod - 1
      <3>1. CASE h \in unseen
        <4>1. left'[h] = Relapsed
          BY <2>1, <2>3, <3>1 DEF Later, Relapses
        <4>2. QED
          BY <4>1, BansAssumption DEF EntryTells
      <3>2. CASE h \notin unseen
        <4>1. left'[h] = 0 /\ entries[h] = NoEntry
          BY <2>1, <2>3, <3>2, BansAssumption DEF Later, Relapses, EntryTells
        <4>2. QED
          BY <2>1, <4>1, BansAssumption DEF EntryTells
      <3>3. QED
        BY <3>1, <3>2
    <2>4. CASE left[h] = 0 /\ ticks # TickMod - 1
      <3>1. left'[h] = 0 /\ ticks' = ticks + 1
        BY <1>2, <2>1, <2>4 DEF Later, Relapses
      <3>2. QED
        BY <1>1, <1>3, <2>1, <2>4, <3>1, BansAssumption DEF EntryTells
    <2>5. CASE left[h] \in {Forever, Unclear, Relapsed}
      <3>1. left'[h] = left[h]
        BY <2>1, <2>5, BansAssumption DEF Later, Relapses
      <3>2. QED
        BY <2>1, <2>5, <3>1, BansAssumption DEF EntryTells
    <2>6. QED
      BY <2>2, <2>3, <2>4, <2>5
  <1>6. QED
    BY <1>4, <1>5

LEMMA BansStep ==
  ASSUME BansInv, [AdmissionNext]_admissionVars
  PROVE  BansInv'
  <1>1. CASE UNCHANGED banVars
    BY <1>1 DEF banVars, BansInv, BansTypeOK, EntryTells
  <1>2. ASSUME NEW h \in Hosts, Remove(h)
        PROVE  BansInv'
    <2>1. BansTypeOK'
      BY <1>2 DEF Remove, BansInv, BansTypeOK
    <2>2. EntryTells(h)'
      BY <1>2, BansAssumption DEF Remove, BansInv, BansTypeOK, EntryTells
    <2>3. \A k \in Hosts \ {h} : EntryTells(k)'
      BY <1>2 DEF Remove, BansInv, EntryTells
    <2>4. QED
      BY <2>1, <2>2, <2>3 DEF BansInv
  <1>3. CASE Clear
    BY <1>3, BansAssumption DEF Clear, BansInv, BansTypeOK, EntryTells
  <1>4. CASE BansNext
    BY <1>2, <1>3, <1>4, IsBannedKeeps, BanKeeps, TickKeeps DEF BansNext
  <1>5. ASSUME NEW p \in Peers, NEW others, NEW v, NEW n, Handshake(p, others, v, n)
        PROVE  BansInv'
    <2>1. HostOf[p] \in Hosts
      BY AdmissionAssumption
    <2>2. QED
      BY <1>1, <1>5, <2>1, IsBannedKeeps DEF Handshake
  <1>6. QED
    BY <1>1, <1>4, <1>5 DEF AdmissionNext, SessionGoesOn, BansGoOn, admissionVars

LEMMA BansInductive == AdmissionSpec => []BansInv
  <1>1. AdmissionInit => BansInv
    BY BansAssumption DEF AdmissionInit, BansInit, BansInv, BansTypeOK, EntryTells
  <1>2. BansInv /\ [AdmissionNext]_admissionVars => BansInv'
    BY BansStep
  <1>3. QED
    BY <1>1, <1>2, PTL DEF AdmissionSpec

(* Expiries fit 32 bits, and the table of machines keeps its type.         *)
THEOREM AdmissionTypeCorrect == AdmissionSpec => []AdmissionTypeOK
  <1>1. BansInv => BansTypeOK
    BY DEF BansInv
  <1>2. QED
    BY <1>1, BansInductive, SessionsRefined, TypeCorrect, PTL DEF AdmissionTypeOK

(* A host is banned exactly while the ban a script asked for runs, unless  *)
(* the count has gone round under the ban or over what nobody has looked   *)
(* at of it since it ended.                                                *)
THEOREM BansAreExact == AdmissionSpec => []BansExact
  BY BansInductive, BansInvExact, PTL

(* Nobody comes in from a host whose ban runs.                             *)
THEOREM BannedHostsStayOut == AdmissionSpec => BannedStayOut
  <1> DEFINE Out == \A p \in Peers : p \in Present' \ Present => ~Running(HostOf[p])
  <1>1. ASSUME BansInv, AdmissionNext, NEW p \in Peers, p \in Present' \ Present
        PROVE  ~Running(HostOf[p])
    <2>1. ASSUME UNCHANGED machines
          PROVE  FALSE
      BY <1>1, <2>1 DEF Present
    <2>2. ASSUME NEW q \in Peers, NEW reason, OnPlayerDisconnect(q, reason)
          PROVE  FALSE
      <3>1. CASE machines' = [machines EXCEPT ![SlotOf(q)] = Nobody]
        BY <1>1, <3>1, SessionAssumption DEF Present
      <3>2. QED
        BY <2>1, <2>2, <3>1 DEF OnPlayerDisconnect, MachineGone, tableVars
    <2>3. ~SessionGoesOn
      BY <2>1, <2>2 DEF SessionGoesOn, Join, SetStreaming, Kick, Connect, Lose, Close, Receive,
                        tableVars
    <2>4. ~BansGoOn
      BY <2>1 DEF BansGoOn, vars, tableVars
    <2>5. PICK q \in Peers, others \in SUBSET OtherFaults, v \in Versions, n \in Names :
            Handshake(q, others, v, n)
      BY <1>1, <2>3, <2>4 DEF AdmissionNext
    <2>6. PICK faults \in SUBSET Faults :
            Initial(q, faults, n) /\ (Banned(HostOf[q]) => "BANNED" \in faults)
      BY <2>5, FaultsAreFaults DEF Handshake, BanOf
    <2>7. Verdict(faults, n) = "ACCEPTED" /\ Accept(q, n)
      BY <2>1, <2>6 DEF Initial, Refuse, tableVars
    <2>8. faults = {}
      BY <2>7, FaultFound DEF Verdict, Faults, Checks
    <2>9. q = p
      BY <1>1, <2>7 DEF Accept, Present
    <2>10. HostOf[p] \in Hosts /\ ~Banned(HostOf[p])
      BY <2>6, <2>8, <2>9, AdmissionAssumption
    <2>11. QED
      BY <1>1, <2>10, BansInvExact, BansAssumption DEF BansExact, Running
  <1>2. BansInv /\ [AdmissionNext]_admissionVars => [Out]_admissionVars
    BY <1>1
  <1>3. QED
    BY <1>2, BansInductive, PTL DEF AdmissionSpec, BannedStayOut

(* Whatever the configuration has of it, the oldest version is a version.  *)
LEMMA MinVersionRead == MinVersion \in Version
  <1>1. ASSUME NEW i \in 1..4
        PROVE  /\ i <= Len(MinClientVersion) => MinClientVersion[i] \in Nat
               /\ <<1, 0, 0, 0>>[i] \in Nat
    <2>1. i \in {1, 2, 3, 4}
      OBVIOUS
    <2>2. <<1, 0, 0, 0>>[i] \in Nat
      BY <2>1
    <2>3. i <= Len(MinClientVersion) => i \in 1..Len(MinClientVersion)
      BY AdmissionAssumption
    <2>4. QED
      BY <2>2, <2>3, AdmissionAssumption
  <1>2. QED
    BY <1>1 DEF MinVersion, Version

(* The nested comparison of PACKET_INITIAL lets in exactly the versions    *)
(* that are not earlier than the oldest one allowed.                       *)
THEOREM VersionsInOrder ==
  ASSUME NEW v \in Version
  PROVE  IsVersionAllowed(v) <=> ~Earlier(v, MinVersion)
  <1>1. MinVersion \in [1..4 -> Nat] /\ v \in [1..4 -> Nat]
    BY MinVersionRead DEF Version
  <1>2. Earlier(v, MinVersion) <=>
          \/ v[1] < MinVersion[1]
          \/ v[1] = MinVersion[1] /\ v[2] < MinVersion[2]
          \/ v[1] = MinVersion[1] /\ v[2] = MinVersion[2] /\ v[3] < MinVersion[3]
          \/ /\ v[1] = MinVersion[1] /\ v[2] = MinVersion[2] /\ v[3] = MinVersion[3]
             /\ v[4] < MinVersion[4]
    <2>1. 1..4 = {1, 2, 3, 4} /\ 1..(1 - 1) = {} /\ 1..(2 - 1) = {1} /\ 1..(3 - 1) = {1, 2}
          /\ 1..(4 - 1) = {1, 2, 3}
      OBVIOUS
    <2>2. QED
      BY <1>1, <2>1 DEF Earlier
  <1>3. QED
    BY <1>1, <1>2 DEF IsVersionAllowed
=============================================================================
