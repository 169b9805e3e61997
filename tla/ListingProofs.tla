--------------------------- MODULE ListingProofs ---------------------------
(***************************************************************************)
(* For any table of machines, any waits and any lengths of frames: the     *)
(* announcer is never stuck, keeps its distance between two attempts, and  *)
(* the listing shows the server once it has taken in what was sent.        *)
(***************************************************************************)
EXTENDS ServerQuery, FiniteSetTheorems, CommonProofs

Inv == TypeOK /\ NeverStuck /\ Owed

-----------------------------------------------------------------------------
(* The parts of the announcer keep the type of its record.                 *)
AnnType == [state : States, old : States, retry : 0..LongRetry, conn : Connections]

LEMMA ChangeStateKeeps ==
  ASSUME NEW a \in AnnType, NEW s \in States
  PROVE  /\ ChangeState(a, s) \in AnnType
         /\ ChangeState(a, s).state = s
         /\ ChangeState(a, s).retry = a.retry
         /\ ChangeState(a, s).conn = a.conn
  BY DEF ChangeState, AnnType

LEMMA ConnKeeps ==
  ASSUME NEW a \in AnnType, NEW c \in Connections
  PROVE  /\ [a EXCEPT !.conn = c] \in AnnType
         /\ [a EXCEPT !.conn = c].state = a.state
         /\ [a EXCEPT !.conn = c].retry = a.retry
         /\ [a EXCEPT !.conn = c].conn = c
  BY DEF AnnType

(* Pulse calls UpdateNetwork only while a connection is made or stands.    *)
LEMMA UpdateKeeps ==
  ASSUME NEW a \in AnnType, a.state \in {"CONNECTING", "CONNECTED"}
  PROVE  /\ UpdateNetwork(a) \in AnnType
         /\ UpdateNetwork(a).retry = a.retry
         /\ a.conn = "ready" => UpdateNetwork(a).state = "CONNECTED" /\ UpdateNetwork(a).conn = "up"
         /\ a.conn = "broken" =>
              UpdateNetwork(a).state = "DISCONNECTED" /\ UpdateNetwork(a).conn = "closed"
         /\ a.conn \notin {"ready", "broken"} => UpdateNetwork(a) = a
  <1>1. CASE a.conn = "ready"
    <2> DEFINE b == [a EXCEPT !.conn = "up"]
    <2>1. b \in AnnType /\ b.retry = a.retry /\ b.conn = "up"
      BY ConnKeeps DEF Connections
    <2>2. UpdateNetwork(a) = ChangeState(b, "CONNECTED")
      BY <1>1 DEF UpdateNetwork
    <2> HIDE DEF b
    <2>3. QED
      BY <1>1, <2>1, <2>2, ChangeStateKeeps DEF States
  <1>2. CASE a.conn = "broken"
    <2> DEFINE b == [a EXCEPT !.conn = "closed"]
    <2>1. b \in AnnType /\ b.retry = a.retry /\ b.conn = "closed" /\ b.state = a.state
      BY ConnKeeps DEF Connections
    <2>2. UpdateNetwork(a) = ConnectionLost(b)
      BY <1>2 DEF UpdateNetwork
    <2> HIDE DEF b
    <2>3. UpdateNetwork(a) = ChangeState(b, "DISCONNECTED")
      BY <2>1, <2>2 DEF ConnectionLost
    <2>4. QED
      BY <1>2, <2>1, <2>3, ChangeStateKeeps DEF States
  <1>3. CASE a.conn \notin {"ready", "broken"}
    BY <1>3 DEF UpdateNetwork
  <1>4. QED
    BY <1>1, <1>2, <1>3

-----------------------------------------------------------------------------
(* Pulse.                                                                  *)

PulseGoal ==
  /\ ann' \in AnnType
  /\ NeverStuck'
  /\ Owed'
  /\ since' \in 0..LongRetry
  /\ due' \in 0..LongRetry
  /\ sent' \in Seq(Frame)
  /\ ann'.retry > ann.retry => since >= due

LEMMA TimeKeeps ==
  ASSUME Inv, NEW dt \in 1..MaxDelta, TimeGoesBy(dt)
  PROVE  /\ since' \in 0..LongRetry /\ due' = due /\ due \in 0..LongRetry
         /\ since <= since'
         /\ since' = since + dt \/ since' = LongRetry
  <1>1. since \in 0..LongRetry /\ due \in 0..LongRetry /\ LongRetry \in Nat /\ dt \in Nat
    BY ListingAssumption DEF Inv, TypeOK
  <1>2. QED
    BY <1>1 DEF TimeGoesBy, Older

LEMMA PulseKeeps ==
  ASSUME Inv, NEW dt \in 1..MaxDelta, Pulse(dt)
  PROVE  PulseGoal
  <1>0. /\ ann \in AnnType /\ sent \in Seq(Frame) /\ NeverStuck /\ Owed
        /\ since \in 0..LongRetry /\ due \in 0..LongRetry
        /\ Retry \in Nat /\ LongRetry \in Nat /\ Retry <= LongRetry /\ dt \in Nat /\ dt >= 1
        /\ MaxDelta \in Nat
    BY ListingAssumption DEF Inv, TypeOK, AnnType
  <1>1. ann.retry \in 0..LongRetry /\ ann.conn \in Connections
    BY <1>0 DEF AnnType
  <1>2. CASE PulseDisconnected(dt)
    <2> DEFINE b == [ann EXCEPT !.conn = "none"]
    <2>1. b \in AnnType /\ b.retry = ann.retry /\ b.conn = "none"
      BY <1>0, ConnKeeps DEF Connections
    <2>2. ann' = ChangeState(b, "NONE")
      BY <1>2 DEF PulseDisconnected, StopServer
    <2> HIDE DEF b
    <2>3. ann' \in AnnType /\ ann'.state = "NONE" /\ ann'.conn = "none" /\ ann'.retry = ann.retry
      BY <2>1, <2>2, ChangeStateKeeps DEF States
    <2>4. TimeGoesBy(dt) /\ sent' = sent
      BY <1>2 DEF PulseDisconnected
    <2>5. QED
      BY <1>0, <1>1, <2>3, <2>4, TimeKeeps DEF PulseGoal, NeverStuck, Owed
  <1>3. CASE PulseWaiting(dt)
    <2>1. /\ ann.state = "NONE" /\ ann.retry > 0
          /\ ann' = [ann EXCEPT !.retry = LessTime(ann, dt)]
          /\ TimeGoesBy(dt) /\ sent' = sent
      BY <1>3 DEF PulseWaiting
    <2>2. /\ LessTime(ann, dt) \in 0..LongRetry
          /\ LessTime(ann, dt) <= ann.retry
          /\ LessTime(ann, dt) + dt >= ann.retry
      BY <1>0, <1>1 DEF LessTime
    <2>3. /\ ann' \in AnnType /\ ann'.state = ann.state /\ ann'.conn = ann.conn
          /\ ann'.retry = LessTime(ann, dt)
      BY <1>0, <2>1, <2>2 DEF AnnType
    <2>4. Owed'
      <3>1. due <= since + ann.retry
        BY <1>0 DEF Owed
      <3>2. QED
        BY <1>0, <1>1, <2>1, <2>2, <2>3, <3>1, TimeKeeps DEF Owed
    <2>5. QED
      BY <1>0, <1>1, <2>1, <2>2, <2>3, <2>4, TimeKeeps DEF PulseGoal, NeverStuck
  <1>4. CASE PulseStarting
    <2> DEFINE b == [ann EXCEPT !.conn = "none"]
    <2>1. b \in AnnType /\ b.state = ann.state
      BY <1>0, ConnKeeps DEF Connections
    <2>2. StopServer(ann) = b /\ ann.state = "NONE" /\ ann.retry = 0 /\ since' = 0 /\ sent' = sent
      BY <1>1, <1>4 DEF PulseStarting, StopServer
    <2>3. since >= due
      BY <1>0, <2>2 DEF Owed
    <2> HIDE DEF b
    <2>4. CASE ann' = StartDone(b) /\ due' = Retry
      <3> DEFINE d == [b EXCEPT !.retry = Retry, !.conn = "pending"]
      <3>0. "pending" \in Connections /\ Retry \in 0..LongRetry
        BY <1>0 DEF Connections
      <3>1. d \in AnnType /\ d.retry = Retry /\ d.conn = "pending"
        BY <2>1, <3>0 DEF AnnType
      <3>2. ann' = ChangeState(d, "CONNECTING")
        BY <2>4 DEF StartDone
      <3> HIDE DEF d
      <3>3. /\ ann' \in AnnType /\ ann'.state = "CONNECTING" /\ ann'.conn = "pending"
            /\ ann'.retry = Retry
        BY <3>1, <3>2, ChangeStateKeeps DEF States
      <3>4. QED
        BY <1>0, <2>2, <2>3, <2>4, <3>3 DEF PulseGoal, NeverStuck, Owed
    <2>5. ASSUME NEW conn \in {"none", "closed"}, ann' = StartFailed(b, conn), due' = LongRetry
          PROVE  PulseGoal
      <3>0. conn \in Connections /\ LongRetry \in 0..LongRetry
        BY <1>0 DEF Connections
      <3>a. ann' = [b EXCEPT !.retry = LongRetry, !.conn = conn]
        BY <2>5 DEF StartFailed
      <3>1. /\ ann' \in AnnType /\ ann'.state = "NONE" /\ ann'.conn = conn
            /\ ann'.retry = LongRetry
        BY <2>1, <2>2, <3>0, <3>a DEF AnnType
      <3>2. QED
        BY <1>0, <2>2, <2>3, <2>5, <3>1 DEF PulseGoal, NeverStuck, Owed
    <2>6. QED
      BY <1>4, <2>2, <2>4, <2>5 DEF PulseStarting
  <1>5. CASE PulseConnection(dt)
    <2>1. /\ ann.state \in {"CONNECTING", "CONNECTED"} /\ ann' = UpdateNetwork(ann)
          /\ TimeGoesBy(dt)
          /\ sent' = IF ann.conn = "ready" THEN Append(sent, Snapshot) ELSE sent
      BY <1>5 DEF PulseConnection
    <2>2. Snapshot \in Frame
      BY DEF Snapshot, Frame, Inv, TypeOK
    <2>3. sent' \in Seq(Frame)
      BY <1>0, <2>1, <2>2
    <2>4. /\ ann' \in AnnType /\ ann'.retry = ann.retry
          /\ ann.conn = "ready" => ann'.state = "CONNECTED" /\ ann'.conn = "up"
          /\ ann.conn = "broken" => ann'.state = "DISCONNECTED" /\ ann'.conn = "closed"
          /\ ann.conn \notin {"ready", "broken"} => ann' = ann
      BY <1>0, <2>1, UpdateKeeps
    <2>5. NeverStuck'
      BY <1>0, <2>1, <2>4 DEF NeverStuck
    <2>6. Owed'
      BY <1>0, <1>1, <2>1, <2>4, TimeKeeps DEF Owed
    <2>7. QED
      BY <1>0, <1>1, <2>1, <2>3, <2>4, <2>5, <2>6, TimeKeeps DEF PulseGoal
  <1>6. QED
    BY <1>2, <1>3, <1>4, <1>5 DEF Pulse

-----------------------------------------------------------------------------
(* The rest of the server, the network and the listing.                    *)

LEMMA SlotsFound ==
  /\ FreeSlots # {} => FirstFree \in Slots
  /\ \A p \in Present : SlotOf(p) \in Slots
  <1>1. ASSUME FreeSlots # {}
        PROVE  FirstFree \in Slots
    <2>1. FreeSlots \subseteq Nat /\ FreeSlots \subseteq Slots
      BY ListingAssumption DEF FreeSlots, Slots
    <2>2. \E i \in FreeSlots : \A j \in FreeSlots : i <= j
      BY <1>1, <2>1, LeastExists
    <2>3. QED
      BY <2>1, <2>2 DEF FirstFree
  <1>2. ASSUME NEW p \in Present
        PROVE  SlotOf(p) \in Slots
    BY <1>2 DEF Present, SlotOf
  <1>3. QED
    BY <1>1, <1>2

LEMMA SendKeeps ==
  ASSUME sent \in Seq(Frame), NEW frame \in Frame, SendPacket(frame)
  PROVE  sent' \in Seq(Frame)
  <1>1. sent' = sent \/ sent' = Append(sent, frame)
    BY DEF SendPacket
  <1>2. QED
    BY <1>1

LEMMA TakenInKeeps ==
  ASSUME NEW frame \in Frame, NEW entry \in Entry \cup {NotListed}
  PROVE  TakenIn(entry, frame) \in Entry \cup {NotListed}
  <1>1. CASE frame.what = "JOIN"
    BY <1>1 DEF TakenIn, Frame, Entry
  <1>2. CASE frame.what # "JOIN" /\ entry = NotListed
    BY <1>2 DEF TakenIn
  <1>3. CASE frame.what # "JOIN" /\ entry # NotListed
    <2>1. entry \in Entry
      BY <1>3
    <2>2. CASE frame.what = "PLAYERADD"
      <3>1. [entry.all EXCEPT ![frame.slot] = frame.who] \in Table
        BY <2>1, <2>2 DEF Entry, Frame, Table
      <3>2. QED
        BY <1>3, <2>1, <2>2, <3>1 DEF TakenIn, Changed, Entry
    <2>3. CASE frame.what = "PLAYERREMOVE"
      <3>1. [entry.all EXCEPT ![frame.slot] = Nobody] \in Table
        BY <2>1, <2>3 DEF Entry, Frame, Table
      <3>2. QED
        BY <1>3, <2>1, <2>3, <3>1 DEF TakenIn, Changed, Entry
    <2>4. CASE frame.what = "SETNAME"
      <3>1. frame.title \in Titles
        BY <2>4 DEF Frame
      <3>2. QED
        BY <1>3, <2>1, <2>4, <3>1 DEF TakenIn, Changed, Entry
    <2>5. QED
      BY <1>3, <2>2, <2>3, <2>4 DEF Frame
  <1>4. QED
    BY <1>1, <1>2, <1>3

(* A step of the rest of the server reports something and leaves the       *)
(* announcer alone.                                                        *)
LEMMA ReportKeeps ==
  ASSUME Inv,
         \/ \E p \in Peers : PlayerIn(p) \/ PlayerOut(p)
         \/ \E t \in Titles : SetServerName(t)
  PROVE  Inv' /\ ann' = ann
  <1>1. CASE \E p \in Peers : PlayerIn(p)
    <2>1. PICK p \in Peers : PlayerIn(p)
      BY <1>1
    <2>2. FirstFree \in Slots
      BY <2>1, SlotsFound DEF PlayerIn, Enter
    <2>3. [what |-> "PLAYERADD", slot |-> FirstFree, who |-> p] \in Frame
      BY <2>1, <2>2 DEF Frame
    <2>4. sent' \in Seq(Frame)
      BY <2>1, <2>3, SendKeeps DEF PlayerIn, PlayerAdd, Inv, TypeOK
    <2>5. machines' \in Table /\ clients' \in Int
      BY <2>1, <2>2 DEF PlayerIn, Enter, Inv, TypeOK, Table
    <2>6. QED
      BY <2>1, <2>4, <2>5 DEF PlayerIn, Inv, TypeOK, NeverStuck, Owed
  <1>2. CASE \E p \in Peers : PlayerOut(p)
    <2>1. PICK p \in Peers : PlayerOut(p)
      BY <1>2
    <2>2. SlotOf(p) \in Slots
      BY <2>1, SlotsFound DEF PlayerOut, Exit
    <2>3. [what |-> "PLAYERREMOVE", slot |-> SlotOf(p)] \in Frame
      BY <2>2 DEF Frame
    <2>4. sent' \in Seq(Frame)
      BY <2>1, <2>3, SendKeeps DEF PlayerOut, PlayerRemove, Inv, TypeOK
    <2>5. machines' \in Table /\ clients' \in Int
      BY <2>1, <2>2 DEF PlayerOut, Exit, Inv, TypeOK, Table
    <2>6. QED
      BY <2>1, <2>4, <2>5 DEF PlayerOut, Inv, TypeOK, NeverStuck, Owed
  <1>3. CASE \E t \in Titles : SetServerName(t)
    <2>1. PICK t \in Titles : SetServerName(t)
      BY <1>3
    <2>2. [what |-> "SETNAME", title |-> t] \in Frame
      BY DEF Frame
    <2>3. sent' \in Seq(Frame)
      BY <2>1, <2>2, SendKeeps DEF SetServerName, Inv, TypeOK
    <2>4. QED
      BY <2>1, <2>3 DEF SetServerName, Inv, TypeOK, NeverStuck, Owed
  <1>4. QED
    BY <1>1, <1>2, <1>3

LEMMA NetworkKeeps ==
  ASSUME Inv, Resolve \/ Break \/ NetworkChanges \/ Take
  PROVE  Inv' /\ ann'.retry = ann.retry
  <1>0. ann \in AnnType /\ sent \in Seq(Frame) /\ <<>> \in Seq(Frame) /\ NeverStuck
    BY DEF Inv, TypeOK, AnnType
  <1>1. ASSUME NEW c \in {"ready", "broken"}, ann.conn \in {"pending", "ready", "up"},
               ann.conn = "pending" \/ c = "broken",
               ann' = [ann EXCEPT !.conn = c]
        PROVE  ann' \in AnnType /\ ann'.retry = ann.retry /\ NeverStuck'
    <2>1. c \in Connections
      BY <1>1 DEF Connections
    <2>2. ann' \in AnnType /\ ann'.state = ann.state /\ ann'.retry = ann.retry /\ ann'.conn = c
      BY <1>0, <1>1, <2>1, ConnKeeps
    <2>3. QED
      BY <1>0, <1>1, <2>2 DEF NeverStuck, AnnType, States
  <1>2. CASE Resolve
    <2>1. PICK c \in {"ready", "broken"} : ann' = [ann EXCEPT !.conn = c]
      BY <1>2 DEF Resolve
    <2>2. ann' \in AnnType /\ ann'.retry = ann.retry /\ NeverStuck'
      BY <1>1, <1>2, <2>1 DEF Resolve
    <2>3. QED
      BY <1>0, <1>2, <2>2 DEF Resolve, tableVars, Inv, TypeOK, AnnType, Owed
  <1>3. CASE Break
    <2>1. ann' \in AnnType /\ ann'.retry = ann.retry /\ NeverStuck'
      BY <1>1, <1>3 DEF Break
    <2>2. QED
      BY <1>0, <1>3, <2>1 DEF Break, tableVars, Inv, TypeOK, AnnType, Owed
  <1>4. CASE NetworkChanges
    BY <1>4 DEF NetworkChanges, tableVars, Inv, TypeOK, NeverStuck, Owed
  <1>5. CASE Take
    <2>1. Head(sent) \in Frame /\ Tail(sent) \in Seq(Frame)
      BY <1>0, <1>5 DEF Take
    <2>2. TakenIn(listed, Head(sent)) \in Entry \cup {NotListed}
      BY <2>1, TakenInKeeps DEF Inv, TypeOK
    <2>3. QED
      BY <1>5, <2>1, <2>2 DEF Take, tableVars, Inv, TypeOK, NeverStuck, Owed
  <1>6. QED
    BY <1>2, <1>3, <1>4, <1>5

-----------------------------------------------------------------------------
(* The table of machines, which the announcer only reports: whatever the   *)
(* listing does, it is that of Machines.                                   *)

TableInv ==
  /\ machines \in Table
  /\ machines[MaxMachines - 1] = Console
  /\ \A i, j \in Slots : machines[i] \in Peers /\ machines[i] = machines[j] => i = j
  /\ IsFiniteSet(Present)
  /\ clients = Cardinality(Present)

LEMMA TableInit ==
  ASSUME Init
  PROVE  TableInv
  <1>1. Present = {}
    BY ListingAssumption DEF Init, Present
  <1>2. machines \in Table /\ machines[MaxMachines - 1] = Console
    BY ListingAssumption DEF Init, Table, Slots
  <1>3. QED
    BY <1>1, <1>2, FS_EmptySet, ListingAssumption DEF Init, TableInv

LEMMA EnterKeeps ==
  ASSUME TableInv, NEW p \in Peers, Enter(p)
  PROVE  /\ TableInv'
         /\ \E f \in Slots : /\ f = FirstFree /\ machines[f] = Nobody
                             /\ \A i \in Slots : machines[i] # p
                             /\ machines' = [machines EXCEPT ![f] = p]
  <1>1. PICK f \in Slots : f = FirstFree /\ machines[f] = Nobody
    <2>1. FreeSlots # {} /\ FreeSlots \subseteq Nat
      BY ListingAssumption DEF Enter, FreeSlots, Slots
    <2>2. \E i \in FreeSlots : \A j \in FreeSlots : i <= j
      BY <2>1, LeastExists
    <2>3. QED
      BY <2>2 DEF FirstFree, FreeSlots
  <1>2. machines' = [machines EXCEPT ![f] = p] /\ machines \in Table /\ clients' = clients + 1
    BY <1>1 DEF Enter, TableInv
  <1>3. \A i \in Slots : machines[i] # p
    BY DEF Enter, Present
  <1>4. \A i \in Slots : machines'[i] = IF i = f THEN p ELSE machines[i]
    BY <1>2 DEF Table
  <1>5. Present' = Present \cup {p} /\ p \notin Present
    BY <1>1, <1>4, ListingAssumption DEF Present, Enter
  <1>6. IsFiniteSet(Present') /\ clients' = Cardinality(Present')
    BY <1>2, <1>5, FS_AddElement DEF TableInv
  <1>7. machines' \in Table
    BY <1>2 DEF Table
  <1>8. machines'[MaxMachines - 1] = Console
    BY <1>1, <1>4, ListingAssumption DEF TableInv, Slots
  <1>9. \A i, j \in Slots : machines'[i] \in Peers /\ machines'[i] = machines'[j] => i = j
    BY <1>3, <1>4 DEF TableInv
  <1>10. QED
    BY <1>1, <1>2, <1>3, <1>6, <1>7, <1>8, <1>9 DEF TableInv

LEMMA ExitKeeps ==
  ASSUME TableInv, NEW p \in Peers, Exit(p)
  PROVE  /\ TableInv'
         /\ \E f \in Slots : /\ f = SlotOf(p) /\ machines[f] = p
                             /\ machines' = [machines EXCEPT ![f] = Nobody]
  <1>1. PICK f \in Slots : f = SlotOf(p) /\ machines[f] = p
    BY DEF Exit, Present, SlotOf
  <1>2. machines' = [machines EXCEPT ![f] = Nobody] /\ machines \in Table /\ clients' = clients - 1
    BY <1>1 DEF Exit, TableInv
  <1>3. \A i \in Slots : machines'[i] = IF i = f THEN Nobody ELSE machines[i]
    BY <1>2 DEF Table
  <1>4. Present' = Present \ {p} /\ p \in Present
    BY <1>1, <1>3, ListingAssumption DEF Present, TableInv
  <1>5. IsFiniteSet(Present') /\ clients' = Cardinality(Present')
    BY <1>2, <1>4, FS_RemoveElement DEF TableInv
  <1>6. machines' \in Table
    BY <1>2 DEF Table
  <1>7. machines'[MaxMachines - 1] = Console
    BY <1>1, <1>3, ListingAssumption DEF TableInv, Slots
  <1>8. \A i, j \in Slots : machines'[i] \in Peers /\ machines'[i] = machines'[j] => i = j
    BY <1>3, ListingAssumption DEF TableInv
  <1>9. QED
    BY <1>1, <1>2, <1>5, <1>6, <1>7, <1>8 DEF TableInv

(* Of any table that behaves as Machines says, the server's among them:    *)
(* nobody is in it twice, the console keeps its place, and the count of    *)
(* clients is the number of players in it.                                 *)
THEOREM MachinesExact == Spec => []TableInv
  <1>1. TableInv /\ [Next]_<<machines, clients>> => TableInv'
    <2> SUFFICES ASSUME TableInv, [Next]_<<machines, clients>>
                 PROVE  TableInv'
      OBVIOUS
    <2>1. CASE UNCHANGED <<machines, clients>>
      BY <2>1 DEF TableInv, Present
    <2>2. QED
      BY <2>1, EnterKeeps, ExitKeeps DEF Next
  <1>2. QED
    BY <1>1, TableInit, PTL DEF Spec

(* The announcer, the listing and the network leave the table to Machines. *)
THEOREM ListingIsMachines == ListingSpec => Spec
  <1>1. ListingInit => Init
    BY DEF ListingInit
  <1>2. [ListingNext]_vars => [Next]_<<machines, clients>>
    <2>1. ASSUME ListingNext
          PROVE  Next \/ UNCHANGED <<machines, clients>>
      BY <2>1 DEF ListingNext, Pulse, PlayerIn, PlayerOut, SetServerName, Resolve, Break,
                  NetworkChanges, Take, tableVars, Next
    <2>2. UNCHANGED vars => UNCHANGED <<machines, clients>>
      BY DEF vars, tableVars
    <2>3. QED
      BY <2>1, <2>2
  <1>3. QED
    BY <1>1, <1>2, PTL DEF ListingSpec, Spec

-----------------------------------------------------------------------------
(* What the listing shows.  What is under way leads from the entry to what *)
(* the server is while the connection stands, and to nothing at all before *)
(* that, because reports that overtake the snapshot are not taken in; and  *)
(* each frame makes sense to an entry that has taken in the ones before.   *)

Current == [all |-> machines, title |-> title]

TableOf(e) == IF e = NotListed THEN NotListed ELSE e.all

Complete(t) ==
  /\ t \in Table
  /\ t[MaxMachines - 1] = Console
  /\ \A i, j \in Slots : t[i] \in Peers /\ t[i] = t[j] => i = j

(* One step of what is seen: nothing, the table, one player in, or one out.*)
Turn(t, u) ==
  \/ u = t
  \/ t = NotListed /\ Complete(u)
  \/ /\ t # NotListed
     /\ \E i \in Slots, p \in Peers :
          t[i] = Nobody /\ (\A j \in Slots : t[j] # p) /\ u = [t EXCEPT ![i] = p]
  \/ t # NotListed /\ \E i \in Slots : t[i] \in Peers /\ u = [t EXCEPT ![i] = Nobody]

Entries == Entry \cup {NotListed}
Turns ==
  {s \in Entries \X Frame \X Entries :
     s[3] = TakenIn(s[1], s[2]) /\ Turn(TableOf(s[1]), TableOf(s[3]))}

Still == {s \in Turns : s[1] = NotListed /\ s[3] = NotListed}

Shows ==
  IF ann.conn = "up" THEN Leads(sent, listed, Current, Entries, Turns)
  ELSE listed = NotListed /\ Leads(sent, NotListed, NotListed, Entries, Still)

LEMMA CurrentEntry ==
  ASSUME Inv, TableInv
  PROVE  /\ Current \in Entry /\ Current # NotListed
         /\ TableOf(Current) = machines /\ Complete(machines) /\ machines # NotListed
  <1>1. Current \in Entry /\ machines \in Table
    BY DEF Inv, TypeOK, Current, Entry
  <1>2. Current # NotListed /\ machines # NotListed
    BY <1>1, ListingAssumption DEF Entry
  <1>3. QED
    BY <1>1, <1>2 DEF TableInv, Complete, TableOf, Current

(* A report to a listing that has no entry changes nothing.                *)
LEMMA UnlistedStays ==
  ASSUME NEW k \in Frame, k.what # "JOIN"
  PROVE  <<NotListed, k, NotListed>> \in Still
  BY DEF Still, Turns, Turn, TakenIn, Entries

(* The snapshot is what makes an entry.                                    *)
LEMMA SnapshotLists ==
  ASSUME Inv, TableInv
  PROVE  Snapshot \in Frame /\ <<NotListed, Snapshot, Current>> \in Turns
  <1>1. Snapshot \in Frame /\ TakenIn(NotListed, Snapshot) = Current
    BY DEF Snapshot, Frame, TakenIn, Current, Inv, TypeOK
  <1>2. Turn(TableOf(NotListed), TableOf(Current))
    BY CurrentEntry DEF Turn, TableOf
  <1> DEFINE s == <<NotListed, Snapshot, Current>>
  <1>3. s \in Entries \X Frame \X Entries /\ s[1] = NotListed /\ s[2] = Snapshot /\ s[3] = Current
    BY <1>1, CurrentEntry DEF Entries
  <1> HIDE DEF s
  <1>4. s \in Turns
    BY <1>1, <1>2, <1>3 DEF Turns
  <1>5. QED
    BY <1>1, <1>4 DEF s

LEMMA PulseShows ==
  ASSUME Inv, TableInv, Shows, NEW dt \in 1..MaxDelta, Pulse(dt)
  PROVE  Shows'
  <1>0. /\ ann \in AnnType /\ NeverStuck /\ sent \in Seq(Frame)
        /\ Current' = Current /\ listed' = listed
    BY DEF Inv, TypeOK, AnnType, Pulse, tableVars, Current
  <1>1. ASSUME ann.conn # "up", ann'.conn # "up", sent' = sent
        PROVE  Shows'
    BY <1>0, <1>1 DEF Shows, Leads
  <1>2. CASE PulseDisconnected(dt)
    <2> DEFINE b == [ann EXCEPT !.conn = "none"]
    <2>1. b \in AnnType /\ b.conn = "none"
      BY <1>0, ConnKeeps DEF Connections
    <2>2. ann' = ChangeState(b, "NONE") /\ sent' = sent /\ ann.conn # "up"
      BY <1>0, <1>2 DEF PulseDisconnected, StopServer, NeverStuck
    <2> HIDE DEF b
    <2>3. ann'.conn = "none"
      BY <2>1, <2>2, ChangeStateKeeps DEF States
    <2>4. QED
      BY <1>1, <2>2, <2>3
  <1>3. CASE PulseWaiting(dt)
    <2>1. ann'.conn = ann.conn /\ ann.conn # "up" /\ sent' = sent
      BY <1>0, <1>3 DEF PulseWaiting, NeverStuck, AnnType
    <2>2. QED
      BY <1>1, <2>1
  <1>4. CASE PulseStarting
    <2> DEFINE b == [ann EXCEPT !.conn = "none"]
    <2>1. b \in AnnType /\ StopServer(ann) = b /\ ann.conn # "up" /\ sent' = sent
      BY <1>0, <1>4, ConnKeeps DEF Connections, StopServer, PulseStarting, NeverStuck
    <2> HIDE DEF b
    <2>2. ASSUME NEW conn \in {"none", "closed"}, ann' = StartFailed(b, conn)
          PROVE  ann'.conn # "up"
      BY <2>1, <2>2 DEF StartFailed, AnnType
    <2>3. ASSUME ann' = StartDone(b)
          PROVE  ann'.conn # "up"
      <3> DEFINE d == [b EXCEPT !.retry = Retry, !.conn = "pending"]
      <3>0. "pending" \in Connections /\ Retry \in 0..LongRetry
        BY ListingAssumption DEF Connections
      <3>1. d \in AnnType /\ d.conn = "pending" /\ ann' = ChangeState(d, "CONNECTING")
        BY <2>1, <2>3, <3>0 DEF AnnType, StartDone
      <3> HIDE DEF d
      <3>2. QED
        BY <3>1, ChangeStateKeeps DEF States
    <2>4. QED
      BY <1>1, <1>4, <2>1, <2>2, <2>3 DEF PulseStarting
  <1>5. CASE PulseConnection(dt)
    <2>1. /\ ann' = UpdateNetwork(ann) /\ ann.state \in {"CONNECTING", "CONNECTED"}
          /\ sent' = IF ann.conn = "ready" THEN Append(sent, Snapshot) ELSE sent
      BY <1>5 DEF PulseConnection
    <2>2. CASE ann.conn = "ready"
      <3>1. ann'.conn = "up"
        BY <1>0, <2>1, <2>2, UpdateKeeps
      <3>2. Leads(sent, listed, NotListed, Entries, Turns)
        BY <2>2, LeadsAlso DEF Shows, Still
      <3>3. Leads(Append(sent, Snapshot), listed, Current, Entries, Turns)
        BY <1>0, <3>2, SnapshotLists, CurrentEntry, LeadsAppended DEF Entries
      <3>4. QED
        BY <1>0, <2>1, <2>2, <3>1, <3>3 DEF Shows, Leads
    <2>3. CASE ann.conn = "up"
      <3>1. ann' = ann /\ sent' = sent
        BY <1>0, <2>1, <2>3, UpdateKeeps
      <3>2. QED
        BY <1>0, <2>3, <3>1 DEF Shows, Leads
    <2>4. CASE ann.conn \notin {"ready", "up"}
      BY <1>0, <1>1, <2>1, <2>4, UpdateKeeps
    <2>5. QED
      BY <2>2, <2>3, <2>4
  <1>6. QED
    BY <1>2, <1>3, <1>4, <1>5 DEF Pulse

(* A report: the change of the server is the change it makes to an entry.  *)
LEMMA ReportShows ==
  ASSUME Inv, Inv', TableInv, TableInv', Shows, NEW k \in Frame, k.what # "JOIN", SendPacket(k),
         ann' = ann, listed' = listed,
         Current' = TakenIn(Current, k), Turn(machines, machines')
  PROVE  Shows'
  <1>0. sent \in Seq(Frame)
    BY DEF Inv, TypeOK
  <1>1. CASE ann.conn = "up"
    <2>1. sent' = Append(sent, k)
      BY <1>1 DEF SendPacket
    <2>2. Current' \in Entries /\ Current \in Entries /\ TableOf(Current') = machines'
      <3>1. Current \in Entry
        BY CurrentEntry
      <3>2. Current' \in Entry /\ Current' # NotListed
        BY ListingAssumption DEF Inv, TypeOK, Current, Entry
      <3>3. QED
        BY <3>1, <3>2 DEF Entries, TableOf, Current
    <2> DEFINE s == <<Current, k, Current'>>
    <2>3. s \in Entries \X Frame \X Entries /\ s[1] = Current /\ s[2] = k /\ s[3] = Current'
      BY <2>2
    <2> HIDE DEF s
    <2>4. s \in Turns
      BY <2>2, <2>3, CurrentEntry DEF Turns
    <2>5. Leads(Append(sent, k), listed, Current', Entries, Turns)
      BY <1>0, <1>1, <2>2, <2>4, LeadsAppended DEF Shows, s
    <2>6. QED
      BY <1>1, <2>1, <2>5 DEF Shows, Leads
  <1>2. CASE ann.conn # "up"
    <2>1. listed = NotListed /\ Leads(sent, NotListed, NotListed, Entries, Still)
      BY <1>2 DEF Shows
    <2>2. Leads(Append(sent, k), NotListed, NotListed, Entries, Still)
      BY <1>0, <2>1, UnlistedStays, LeadsAppended DEF Entries
    <2>3. sent' = sent \/ sent' = Append(sent, k)
      BY DEF SendPacket
    <2>4. QED
      BY <1>2, <2>1, <2>2, <2>3 DEF Shows, Leads
  <1>3. QED
    BY <1>1, <1>2

LEMMA RestShows ==
  ASSUME Inv, Inv', TableInv, Shows,
         \/ \E p \in Peers : PlayerIn(p) \/ PlayerOut(p)
         \/ \E t \in Titles : SetServerName(t)
  PROVE  Shows'
  <1>0. machines \in Table /\ title \in Titles /\ Current \in Entry /\ Current # NotListed
    BY CurrentEntry DEF Inv, TypeOK
  <1>1. ASSUME NEW p \in Peers, PlayerIn(p)
        PROVE  Shows'
    <2>1. Enter(p) /\ PlayerAdd(FirstFree, p) /\ ann' = ann /\ listed' = listed /\ title' = title
      BY <1>1 DEF PlayerIn
    <2>2. PICK f \in Slots : /\ f = FirstFree /\ machines[f] = Nobody
                             /\ \A i \in Slots : machines[i] # p
                             /\ machines' = [machines EXCEPT ![f] = p]
      BY <2>1, EnterKeeps
    <2> DEFINE k == [what |-> "PLAYERADD", slot |-> f, who |-> p]
    <2>3. k \in Frame /\ k.what # "JOIN" /\ SendPacket(k)
      BY <2>1, <2>2 DEF Frame, PlayerAdd
    <2>4. Current' = TakenIn(Current, k)
      BY <1>0, <2>1, <2>2 DEF TakenIn, Changed, Current
    <2>5. Turn(machines, machines')
      BY <2>2, CurrentEntry DEF Turn
    <2> HIDE DEF k
    <2>6. QED
      BY <2>1, <2>3, <2>4, <2>5, EnterKeeps, ReportShows
  <1>2. ASSUME NEW p \in Peers, PlayerOut(p)
        PROVE  Shows'
    <2>1. Exit(p) /\ PlayerRemove(SlotOf(p)) /\ ann' = ann /\ listed' = listed /\ title' = title
      BY <1>2 DEF PlayerOut
    <2>2. PICK f \in Slots : /\ f = SlotOf(p) /\ machines[f] = p
                             /\ machines' = [machines EXCEPT ![f] = Nobody]
      BY <2>1, ExitKeeps
    <2> DEFINE k == [what |-> "PLAYERREMOVE", slot |-> f]
    <2>3. k \in Frame /\ k.what # "JOIN" /\ SendPacket(k)
      BY <2>1, <2>2 DEF Frame, PlayerRemove
    <2>4. Current' = TakenIn(Current, k)
      BY <1>0, <2>1, <2>2 DEF TakenIn, Changed, Current
    <2>5. Turn(machines, machines')
      BY <2>2, CurrentEntry DEF Turn
    <2> HIDE DEF k
    <2>6. QED
      BY <2>1, <2>3, <2>4, <2>5, ExitKeeps, ReportShows
  <1>3. ASSUME NEW t \in Titles, SetServerName(t)
        PROVE  Shows'
    <2> DEFINE k == [what |-> "SETNAME", title |-> t]
    <2>1. /\ SendPacket(k) /\ ann' = ann /\ listed' = listed /\ title' = t
          /\ machines' = machines /\ clients' = clients
      BY <1>3 DEF SetServerName
    <2>2. k \in Frame /\ k.what # "JOIN"
      BY DEF Frame
    <2>3. Current' = TakenIn(Current, k)
      BY <1>0, <2>1 DEF TakenIn, Changed, Current
    <2>4. Turn(machines, machines') /\ TableInv'
      BY <2>1 DEF Turn, TableInv, Present
    <2> HIDE DEF k
    <2>5. QED
      BY <2>1, <2>2, <2>3, <2>4, ReportShows
  <1>4. QED
    BY <1>1, <1>2, <1>3

(* The listing takes in a frame.                                           *)
LEMMA TakeShows ==
  ASSUME Inv, Shows, Take
  PROVE  Shows' /\ Turn(TableOf(listed), TableOf(listed'))
  <1>1. /\ sent \in Seq(Frame) /\ sent # <<>>
        /\ sent' = Tail(sent) /\ listed' = TakenIn(listed, Head(sent))
        /\ ann' = ann /\ machines' = machines /\ title' = title
    BY DEF Take, Inv, TypeOK, tableVars
  <1>2. Current' = Current
    BY <1>1 DEF Current
  <1>3. CASE ann.conn = "up"
    <2>1. PICK next \in Entries :
            /\ <<listed, Head(sent), next>> \in Turns
            /\ Leads(Tail(sent), next, Current, Entries, Turns)
      BY <1>1, <1>3, LeadsTaken DEF Shows
    <2>2. next = TakenIn(listed, Head(sent)) /\ Turn(TableOf(listed), TableOf(next))
      BY <2>1 DEF Turns
    <2>3. QED
      BY <1>1, <1>2, <1>3, <2>1, <2>2 DEF Shows, Leads
  <1>4. CASE ann.conn # "up"
    <2>1. listed = NotListed /\ Leads(sent, NotListed, NotListed, Entries, Still)
      BY <1>4 DEF Shows
    <2>2. PICK next \in Entries :
            /\ <<NotListed, Head(sent), next>> \in Still
            /\ Leads(Tail(sent), next, NotListed, Entries, Still)
      BY <1>1, <2>1, LeadsTaken
    <2>3. next = NotListed /\ next = TakenIn(listed, Head(sent))
      BY <2>1, <2>2 DEF Still, Turns
    <2>4. QED
      BY <1>1, <1>4, <2>1, <2>2, <2>3 DEF Shows, Leads, Turn
  <1>5. QED
    BY <1>3, <1>4

LEMMA NetworkShows ==
  ASSUME Inv, Shows, Resolve \/ Break \/ NetworkChanges
  PROVE  Shows' /\ (listed' = listed \/ listed' = NotListed)
  <1>1. Leads(<<>>, NotListed, NotListed, Entries, Still)
    BY LeadsNowhere DEF Entries
  <1>2. CASE Resolve \/ Break
    <2>1. ann \in AnnType /\ \E c \in {"ready", "broken"} : ann' = [ann EXCEPT !.conn = c]
      BY <1>2 DEF Resolve, Break, Inv, TypeOK, AnnType
    <2>2. ann'.conn # "up"
      BY <2>1 DEF AnnType
    <2>3. CASE Resolve
      <3>1. listed' = listed /\ sent' \in {sent, <<>>} /\ ann.conn # "up"
        BY <2>3 DEF Resolve
      <3>2. QED
        BY <1>1, <2>2, <3>1 DEF Shows, Leads
    <2>4. CASE Break
      <3>1. listed' = NotListed /\ sent' = <<>>
        BY <2>4 DEF Break
      <3>2. QED
        BY <1>1, <2>2, <3>1 DEF Shows, Leads
    <2>5. QED
      BY <1>2, <2>3, <2>4
  <1>3. CASE NetworkChanges
    BY <1>3 DEF NetworkChanges, tableVars, Shows, Leads, Current
  <1>4. QED
    BY <1>2, <1>3

LEMMA ShownStep ==
  ASSUME Inv, Inv', TableInv, Shows, [ListingNext]_vars
  PROVE  Shows' /\ (listed' = NotListed \/ Turn(TableOf(listed), TableOf(listed')))
  <1>1. CASE UNCHANGED vars
    BY <1>1 DEF vars, tableVars, listingVars, Shows, Leads, Current, Turn
  <1>2. ASSUME NEW dt \in 1..MaxDelta, Pulse(dt)
        PROVE  Shows' /\ listed' = listed
    BY <1>2, PulseShows DEF Pulse
  <1>3. ASSUME \/ \E p \in Peers : PlayerIn(p) \/ PlayerOut(p)
               \/ \E t \in Titles : SetServerName(t)
        PROVE  Shows' /\ listed' = listed
    BY <1>3, RestShows DEF PlayerIn, PlayerOut, SetServerName
  <1>4. QED
    BY <1>1, <1>2, <1>3, TakeShows, NetworkShows DEF ListingNext, Turn

-----------------------------------------------------------------------------
LEMMA InitInv == ListingInit => Inv
  <1> SUFFICES ASSUME ListingInit PROVE Inv
    OBVIOUS
  <1>1. machines \in Table /\ clients \in Int
    BY ListingAssumption DEF ListingInit, Init, Table, Slots
  <1>2. ann \in [state : States, old : States, retry : 0..LongRetry, conn : Connections]
    BY ListingAssumption DEF ListingInit, States, Connections
  <1>3. QED
    BY <1>1, <1>2, ListingAssumption DEF ListingInit, Inv, TypeOK, NeverStuck, Owed

LEMMA InvStep ==
  ASSUME Inv, [ListingNext]_vars
  PROVE  Inv' /\ (ann'.retry > ann.retry => since >= due)
  <1>0. ann.retry \in Nat
    BY ListingAssumption DEF Inv, TypeOK
  <1>1. ASSUME NEW dt \in 1..MaxDelta, Pulse(dt)
        PROVE  Inv' /\ (ann'.retry > ann.retry => since >= due)
    <2>1. PulseGoal
      BY <1>1, PulseKeeps
    <2>2. QED
      BY <1>1, <2>1 DEF PulseGoal, Pulse, tableVars, Inv, TypeOK, AnnType
  <1>2. CASE \/ \E p \in Peers : PlayerIn(p) \/ PlayerOut(p)
             \/ \E t \in Titles : SetServerName(t)
    BY <1>0, <1>2, ReportKeeps
  <1>3. CASE Resolve \/ Break \/ NetworkChanges \/ Take
    BY <1>0, <1>3, NetworkKeeps
  <1>4. CASE UNCHANGED vars
    BY <1>0, <1>4 DEF vars, tableVars, listingVars, Inv, TypeOK, NeverStuck, Owed
  <1>5. QED
    BY <1>1, <1>2, <1>3, <1>4 DEF ListingNext

LEMMA Inductive == ListingSpec => []Inv
  BY InitInv, InvStep, PTL DEF ListingSpec

(* Announcer, connection, frames and the listing's entry keep their types. *)
THEOREM TypeCorrect == ListingSpec => []TypeOK
  <1>1. Inv => TypeOK
    BY DEF Inv
  <1>2. QED
    BY <1>1, Inductive, PTL

(* The state of the announcer and its connection fit together, so that a   *)
(* Pulse can always go on.                                                 *)
THEOREM AnnouncerNeverStuck == ListingSpec => []NeverStuck
  <1>1. Inv => NeverStuck
    BY DEF Inv
  <1>2. QED
    BY <1>1, Inductive, PTL

(* Attempts to connect keep their distance, whatever the network does and  *)
(* however long the frames are.                                            *)
THEOREM AnnouncerPatient == ListingSpec => Patient
  <1>1. Inv /\ [ListingNext]_vars => [ann'.retry > ann.retry => since >= due]_vars
    BY InvStep
  <1>2. QED
    BY <1>1, Inductive, PTL DEF ListingSpec, Patient

LEMMA TableAlways == ListingSpec => []TableInv
  BY ListingIsMachines, MachinesExact, PTL

LEMMA ShowsInit == ListingInit => Shows
  <1>1. Leads(<<>>, NotListed, NotListed, Entries, Still)
    BY LeadsNowhere DEF Entries
  <1>2. QED
    BY <1>1 DEF ListingInit, Shows

LEMMA ShowsAlways == ListingSpec => []Shows
  <1>1. Inv /\ Inv' /\ TableInv /\ Shows /\ [ListingNext]_vars => Shows'
    BY ShownStep
  <1>2. QED
    BY <1>1, ShowsInit, Inductive, TableAlways, PTL DEF ListingSpec

(* Once the listing has taken in what was sent over a connection that      *)
(* stands, it shows the machines and the name the server has.              *)
THEOREM ListingShowsServer == ListingSpec => []ListingAgrees
  <1>1. Inv /\ Shows => ListingAgrees
    <2> SUFFICES ASSUME Inv, Shows, ann.conn = "up", sent = <<>>
                 PROVE  listed = [all |-> machines, title |-> title]
      BY DEF ListingAgrees
    <2>1. Leads(<<>>, listed, Current, Entries, Turns) /\ listed \in Entries
      BY DEF Shows, Inv, TypeOK, Entries
    <2>2. QED
      BY <2>1, LeadsNowhere DEF Current
  <1>2. QED
    BY <1>1, Inductive, ShowsAlways, PTL

(* Whatever becomes of the connection and of what was sent over it, the    *)
(* listing shows a table as Roster describes it: nobody twice, one player  *)
(* in or out at a time, or nothing at all.                                 *)
LEMMA TurnIsRoster ==
  ASSUME Inv, listed' = NotListed \/ Turn(TableOf(listed), TableOf(listed'))
  PROVE  Seen!Next \/ TableOf(listed') = TableOf(listed)
  <1>1. ASSUME listed' = NotListed
        PROVE  Seen!Next
    BY <1>1 DEF Seen!Next, Seen!Forget
  <1>2. ASSUME TableOf(listed) = NotListed, Complete(TableOf(listed'))
        PROVE  Seen!Next
    BY <1>2 DEF Complete, Table, TableOf, Seen!Next, Seen!Begin, Seen!Whole, Seen!Slots, Slots
  <1>3. ASSUME NEW i \in Slots, NEW p \in Peers, TableOf(listed) # NotListed,
               TableOf(listed)[i] = Nobody, \A j \in Slots : TableOf(listed)[j] # p,
               TableOf(listed') = [TableOf(listed) EXCEPT ![i] = p]
        PROVE  Seen!Next
    BY <1>3 DEF TableOf, Seen!Next, Seen!Appear, Seen!Slots, Slots
  <1>4. ASSUME NEW i \in Slots, TableOf(listed) # NotListed, TableOf(listed)[i] \in Peers,
               TableOf(listed') = [TableOf(listed) EXCEPT ![i] = Nobody]
        PROVE  Seen!Next
    BY <1>4 DEF TableOf, Seen!Next, Seen!Disappear, Seen!Slots, Slots
  <1>5. QED
    BY <1>1, <1>2, <1>3, <1>4 DEF Turn

(* The listing shows nothing or a whole table, into which players come and *)
(* out of which they go one at a time, whatever connections break and      *)
(* whatever is under way when they do.                                     *)
THEOREM RosterImplemented == ListingSpec => ImplementsRoster
  <1>1. ListingInit => Seen!Init
    BY DEF ListingInit, Seen!Init
  <1>2. Inv /\ Inv' /\ TableInv /\ Shows /\ [ListingNext]_vars =>
          [Seen!Next]_(IF listed = NotListed THEN NotListed ELSE listed.all)
    <2> SUFFICES ASSUME Inv, Inv', TableInv, Shows, [ListingNext]_vars
                 PROVE  Seen!Next \/ TableOf(listed') = TableOf(listed)
      BY DEF TableOf
    <2>1. QED
      BY ShownStep, TurnIsRoster
  <1>3. QED
    BY <1>1, <1>2, Inductive, TableAlways, ShowsAlways, PTL
    DEF ListingSpec, ImplementsRoster, Seen!Spec

(* The answers to queries take nothing from what the announcer does: with  *)
(* them, it is still the listing's specification that the server follows,  *)
(* and what is proved of that holds here.                                  *)
THEOREM QueryIsListing == QuerySpec => ListingSpec
  <1>1. QueryInit => ListingInit
    BY DEF QueryInit
  <1>2. ASSUME [QueryNext]_queryVars
        PROVE  [ListingNext]_vars
    BY <1>2 DEF QueryNext, queryVars, BeginFrame, UpdateResponse, InBetween, ListingNext
  <1>3. QED
    BY <1>1, <1>2, PTL DEF QuerySpec, ListingSpec

-----------------------------------------------------------------------------
(* Queries.                                                                *)

(* The entries of the answer are those of the table, one for each.         *)
EntriesOf(I) == {<<i, machines[i]>> : i \in I}

LEMMA EntriesCount ==
  ASSUME NEW I, IsFiniteSet(I)
  PROVE  Cardinality(EntriesOf(I)) = Cardinality(I)
  <1> DEFINE f == [i \in I |-> <<i, machines[i]>>]
  <1>1. f \in [I -> EntriesOf(I)]
    BY DEF EntriesOf
  <1>2. \A i, j \in I : f[i] = f[j] => i = j
    OBVIOUS
  <1>3. \A e \in EntriesOf(I) : \E i \in I : f[i] = e
    BY DEF EntriesOf
  <1> HIDE DEF f
  <1>4. f \in Bijection(I, EntriesOf(I))
    BY <1>1, <1>2, <1>3 DEF Bijection, Injection, Surjection, IsInjective
  <1>5. QED
    BY <1>4, FS_Bijection DEF ExistsBijection

(* Players and their indices correspond.                                   *)
LEMMA EnteredCount ==
  ASSUME TableInv
  PROVE  /\ Entered \in SUBSET (0..MaxMachines) /\ IsFiniteSet(Entered)
         /\ Cardinality(Present) = Cardinality(Entered)
         /\ Cardinality(Entered) < MaxMachines
  <1>1. Entered \in SUBSET (0..(MaxMachines - 2))
    BY ListingAssumption DEF Entered, Slots, TableInv
  <1>2. /\ IsFiniteSet(0..(MaxMachines - 2))
        /\ Cardinality(0..(MaxMachines - 2)) \in Nat
        /\ Cardinality(0..(MaxMachines - 2)) < MaxMachines
    <2>1. MaxMachines - 2 \in Int /\ 0 \in Int /\ MaxMachines \in Nat /\ MaxMachines > 0
      BY ListingAssumption
    <2>2. /\ IsFiniteSet(0..(MaxMachines - 2))
          /\ Cardinality(0..(MaxMachines - 2)) =
               IF 0 > MaxMachines - 2 THEN 0 ELSE (MaxMachines - 2) - 0 + 1
      BY <2>1, FS_Interval
    <2>3. QED
      BY <2>1, <2>2
  <1>3. IsFiniteSet(Entered) /\ Cardinality(Entered) <= Cardinality(0..(MaxMachines - 2))
    BY <1>1, <1>2, FS_Subset, Zenon
  <1>4. Cardinality(Entered) \in Nat
    BY <1>3, FS_CardinalityType
  <1>5. Cardinality(Present) = Cardinality(Entered)
    <2> DEFINE f == [i \in Entered |-> machines[i]]
    <2>1. f \in [Entered -> Present]
      BY DEF Entered, Present
    <2>2. \A i, j \in Entered : f[i] = f[j] => i = j
      BY DEF Entered, TableInv
    <2>3. \A p \in Present : \E i \in Entered : f[i] = p
      BY DEF Entered, Present
    <2> HIDE DEF f
    <2>4. f \in Bijection(Entered, Present)
      BY <2>1, <2>2, <2>3 DEF Bijection, Injection, Surjection, IsInjective
    <2>5. QED
      BY <1>3, <2>4, FS_Bijection DEF ExistsBijection
  <1>6. QED
    BY <1>1, <1>2, <1>3, <1>4, <1>5, ListingAssumption

(* Whenever it is written, the answer to queries is the truth: the byte    *)
(* that counts the clients has room for them all, and the entries are all  *)
(* the players, or as many of them as an answer can hold.                  *)
THEOREM AnswersAreTruthful == QuerySpec => []AnswerTruthful
  <1>1. TableInv => AnswerTruthful
    <2> SUFFICES ASSUME TableInv PROVE Truthful(Answer)
      BY DEF AnswerTruthful
    <2>1. Answer.count = Cardinality(Present)
      <3>1. clients = Cardinality(Entered) /\ clients \in Nat /\ clients < MaxMachines
        BY EnteredCount, FS_CardinalityType DEF TableInv
      <3>2. clients % Byte = clients
        BY <3>1, ListingAssumption, QueryAssumption
      <3>3. QED
        BY <3>2 DEF Answer, TableInv
    <2>2. Shown = EntriesOf(FirstOf(Entered, MaxShown))
      BY DEF Shown, EntriesOf, FirstOf, Before
    <2>3. IsFiniteSet(FirstOf(Entered, MaxShown)) /\ FirstOf(Entered, MaxShown) \subseteq Entered
      <3>1. FirstOf(Entered, MaxShown) \in SUBSET Entered
        BY DEF FirstOf
      <3>2. QED
        BY <3>1, EnteredCount, FS_Subset
    <2>4. Shown = EntriesOf(Entered) \/ Cardinality(Shown) = MaxShown
      BY <2>2, <2>3, EnteredCount, EntriesCount, FirstOfAllOrFull, ListingAssumption, QueryAssumption
    <2>5. Shown \subseteq EntriesOf(Entered)
      BY <2>2, <2>3 DEF EntriesOf
    <2>6. QED
      BY <2>1, <2>4, <2>5 DEF Truthful, Answer, EntriesOf
  <1>2. QED
    BY <1>1, QueryIsListing, TableAlways, PTL
=============================================================================
