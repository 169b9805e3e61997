-------------------------- MODULE AttributesProofs --------------------------
(***************************************************************************)
(* For any clients and values: the copies keep their types, and the skin   *)
(* of a ped and the settings of the server are the same for everybody that *)
(* has taken in what was sent.                                             *)
(***************************************************************************)
EXTENDS Attributes, SequenceTheorems, TLAPS

(* What no sync packet carries is in no sync packet.                       *)
NotSynced == ~Synced => up = {} /\ \A c \in Clients : down[c] = {}

(* Clients report weapons only.                                            *)
OnlyWeapons == kind # "weapon" => reports = [c \in Clients |-> <<>>]

Inv == TypeOK /\ NotSynced /\ OnlyWeapons /\ AllTold

-----------------------------------------------------------------------------
(* Sequences: what the head and the end of a queue are after a step.       *)
LEMMA Appended ==
  ASSUME NEW s \in Seq(Values), NEW x \in Values
  PROVE  /\ Append(s, x) \in Seq(Values) /\ Append(s, x) # <<>>
         /\ Append(s, x)[Len(Append(s, x))] = x
  OBVIOUS

(* What is one more than nothing.                                          *)
LEMMA LastOne ==
  ASSUME NEW n \in Nat \ {0}, NEW m, m = n - 1, m = 0
  PROVE  n = 1
  OBVIOUS

LEMMA Shortened ==
  ASSUME NEW s \in Seq(Values), s # <<>>
  PROVE  /\ Head(s) \in Values /\ Tail(s) \in Seq(Values)
         /\ Tail(s) = <<>> => Head(s) = s[Len(s)]
         /\ Tail(s) # <<>> => Tail(s)[Len(Tail(s))] = s[Len(s)]
  <1>1. Head(s) \in Values /\ Tail(s) \in Seq(Values) /\ Head(s) = s[1]
    OBVIOUS
  <1>2. Len(s) \in Nat \ {0} /\ Len(Tail(s)) = Len(s) - 1
    OBVIOUS
  <1>3. \A i \in 1..Len(Tail(s)) : Tail(s)[i] = s[i + 1]
    BY <1>2
  <1>4. ASSUME Tail(s) = <<>> PROVE Head(s) = s[Len(s)]
    <2>1. Len(Tail(s)) = 0
      BY <1>4, EmptySeq, Zenon
    <2>2. Len(s) = 1
      BY <1>2, <2>1, LastOne, Zenon
    <2>3. QED
      BY <1>1, <2>2
  <1>5. ASSUME Tail(s) # <<>> PROVE Tail(s)[Len(Tail(s))] = s[Len(s)]
    <2>1. Len(Tail(s)) \in 1..Len(Tail(s)) /\ Len(Tail(s)) + 1 = Len(s)
      BY <1>1, <1>2, <1>5
    <2>2. QED
      BY <1>3, <2>1
  <1>6. QED
    BY <1>1, <1>4, <1>5

(* Of one queue: its end, or the copy of who has read it all.              *)
Ends(s, v, x) == IF s = <<>> THEN v = x ELSE s[Len(s)] = x

LEMMA ToldByEnds ==
  AllTold <=> (Broadcast => \A c \in has : Ends(sets[c], view[c], value))
  BY DEF AllTold, Ends

-----------------------------------------------------------------------------
LEMMA InitInv ==
  Init => Inv
  <1> SUFFICES ASSUME Init PROVE Inv
    OBVIOUS
  <1>1. TypeOK
    BY AttributesAssumption DEF Init, TypeOK, Kinds
  <1>2. NotSynced /\ OnlyWeapons /\ AllTold
    BY DEF Init, NotSynced, OnlyWeapons, AllTold
  <1>3. QED
    BY <1>1, <1>2 DEF Inv

LEMMA ScriptSetInv ==
  ASSUME Inv, NEW x \in Values, ScriptSet(x)
  PROVE  Inv'
  <1> USE DEF Inv
  <1>1. TypeOK'
    <2>1. changes' \in 0..MaxChanges
      BY AttributesAssumption DEF TypeOK, ScriptSet, Change
    <2>2. sets' \in [Clients -> Seq(Values)]
      BY Appended DEF TypeOK, ScriptSet
    <2>3. wish' \in Values \cup {Unset}
      BY DEF ScriptSet
    <2>4. QED
      BY <2>1, <2>2, <2>3 DEF TypeOK, ScriptSet
  <1>2. NotSynced' /\ OnlyWeapons'
    BY DEF NotSynced, Synced, ScriptSet, Broadcast, OnlyWeapons
  <1>3. AllTold'
    <2> SUFFICES ASSUME Broadcast, NEW c \in has
                 PROVE  Ends(sets'[c], view'[c], value')
      BY ToldByEnds DEF ScriptSet, AllTold, Broadcast, Ends
    <2>1. c \in Clients /\ sets[c] \in Seq(Values)
      BY DEF TypeOK
    <2>2. sets'[c] = Append(sets[c], x) /\ value' = x
      BY <2>1 DEF ScriptSet, Sends
    <2>3. QED
      BY <2>1, <2>2, Appended DEF Ends
  <1>4. QED
    BY <1>1, <1>2, <1>3

LEMMA SyncsInv ==
  ASSUME Inv,
         \/ \E x \in Values : ReceiveSync(x)
         \/ SendAllSync \/ SendSync \/ Lose
  PROVE  Inv'
  <1> USE DEF Inv
  <1>1. ASSUME NEW x \in Values, ReceiveSync(x) PROVE Inv'
    <2>1. Synced
      BY <1>1 DEF ReceiveSync, NotSynced
    <2>2. TypeOK'
      BY <1>1 DEF ReceiveSync, TypeOK
    <2>3. NotSynced' /\ OnlyWeapons' /\ AllTold'
      BY <1>1, <2>1 DEF ReceiveSync, NotSynced, AllTold, Synced, Broadcast, OnlyWeapons
    <2>4. QED
      BY <2>2, <2>3
  <1>2. CASE SendAllSync
    <2>1. TypeOK'
      BY <1>2 DEF SendAllSync, TypeOK
    <2>2. NotSynced' /\ OnlyWeapons' /\ AllTold'
      BY <1>2 DEF SendAllSync, NotSynced, AllTold, Synced, Broadcast, OnlyWeapons
    <2>3. QED
      BY <2>1, <2>2
  <1>3. CASE SendSync
    <2>1. view[syncer] \in Values
      BY <1>3 DEF SendSync, TypeOK
    <2>2. TypeOK'
      BY <1>3, <2>1 DEF SendSync, TypeOK
    <2>3. NotSynced' /\ OnlyWeapons' /\ AllTold'
      BY <1>3 DEF SendSync, NotSynced, AllTold, Synced, Broadcast, OnlyWeapons
    <2>4. QED
      BY <2>2, <2>3
  <1>4. CASE Lose
    <2>1. TypeOK'
      BY <1>4 DEF Lose, TypeOK
    <2>2. NotSynced' /\ OnlyWeapons' /\ AllTold'
      BY <1>4 DEF Lose, NotSynced, AllTold, Synced, Broadcast, TypeOK, OnlyWeapons
    <2>3. QED
      BY <2>1, <2>2
  <1>5. QED
    BY <1>1, <1>2, <1>3, <1>4

LEMMA ClientsInv ==
  ASSUME Inv,
         \/ \E x \in Values : GameChanges(x)
         \/ \E c \in Clients : TakeSet(c) \/ ChangeWeapon(c)
         \/ \E c \in Clients, x \in Values : TakeSync(c, x)
  PROVE  Inv'
  <1> USE DEF Inv
  <1>1. ASSUME NEW x \in Values, GameChanges(x) PROVE Inv'
    <2>1. changes' \in 0..MaxChanges
      BY <1>1, AttributesAssumption DEF TypeOK, GameChanges, Change
    <2>2. reports' \in [Clients -> Seq(Values)]
      <3>1. syncer \in Clients
        BY <1>1 DEF GameChanges, TypeOK
      <3>2. Append(reports[syncer], x) \in Seq(Values)
        BY <3>1, Appended DEF TypeOK
      <3>3. QED
        BY <1>1, <3>1, <3>2 DEF GameChanges, TypeOK
    <2>3. view' \in [Clients -> Values \cup {NoCopy}]
      BY <1>1 DEF GameChanges, TypeOK
    <2>4. TypeOK'
      BY <1>1, <2>1, <2>2, <2>3 DEF GameChanges, TypeOK
    <2>5. NotSynced' /\ OnlyWeapons' /\ AllTold'
      BY <1>1 DEF GameChanges, NotSynced, AllTold, Synced, Broadcast, OnlyWeapons
    <2>6. QED
      BY <2>4, <2>5
  <1>2. ASSUME NEW d \in Clients, TakeSet(d) PROVE Inv'
    <2>1. sets[d] \in Seq(Values) /\ sets[d] # <<>>
      BY <1>2 DEF TakeSet, TypeOK
    <2>2. Head(sets[d]) \in Values /\ Tail(sets[d]) \in Seq(Values)
      BY <2>1, Shortened
    <2>3. TypeOK'
      BY <1>2, <2>2 DEF TakeSet, TypeOK
    <2>4. NotSynced' /\ OnlyWeapons'
      BY <1>2 DEF TakeSet, NotSynced, Synced, OnlyWeapons
    <2>5. AllTold'
      <3> SUFFICES ASSUME Broadcast, NEW c \in has
                   PROVE  Ends(sets'[c], view'[c], value')
        BY <1>2 DEF TakeSet, AllTold, Broadcast, Ends
      <3>1. Ends(sets[c], view[c], value) /\ value' = value
        BY <1>2, ToldByEnds DEF TakeSet
      <3>2. CASE c # d
        BY <1>2, <3>1, <3>2 DEF TakeSet, TypeOK
      <3>3. CASE c = d
        <4>1. sets'[d] = Tail(sets[d]) /\ view'[d] = Head(sets[d])
          BY <1>2 DEF TakeSet, TypeOK
        <4>2. sets[d][Len(sets[d])] = value
          BY <2>1, <3>1, <3>3 DEF Ends
        <4>3. QED
          BY <2>1, <3>1, <3>3, <4>1, <4>2, Shortened DEF Ends
      <3>4. QED
        BY <3>2, <3>3
    <2>6. QED
      BY <2>3, <2>4, <2>5
  <1>3. ASSUME NEW d \in Clients, NEW x \in Values, TakeSync(d, x) PROVE Inv'
    <2>1. Synced
      BY <1>3 DEF TakeSync, NotSynced
    <2>2. TypeOK'
      BY <1>3 DEF TakeSync, TypeOK
    <2>3. NotSynced' /\ OnlyWeapons' /\ AllTold'
      BY <1>3, <2>1 DEF TakeSync, NotSynced, AllTold, Synced, Broadcast, OnlyWeapons
    <2>4. QED
      BY <2>2, <2>3
  <1>4. ASSUME NEW d \in Clients, ChangeWeapon(d) PROVE Inv'
    <2>1. reports[d] \in Seq(Values) /\ reports[d] # <<>>
      BY <1>4 DEF ChangeWeapon, TypeOK
    <2>2. Head(reports[d]) \in Values /\ Tail(reports[d]) \in Seq(Values)
      BY <2>1, Shortened
    <2>3. reports' \in [Clients -> Seq(Values)]
      BY <1>4, <2>2 DEF ChangeWeapon, TypeOK
    <2>4. sets' \in [Clients -> Seq(Values)] /\ value' \in Values
      <3>1. CASE d = syncer
        <4> DEFINE x == Head(reports[d])
        <4>1. /\ value' = x
              /\ sets' = [e \in Clients |-> IF e \in has \ {d} THEN Append(sets[e], x) ELSE sets[e]]
          BY <1>4, <3>1 DEF ChangeWeapon
        <4>2. x \in Values
          BY <2>2
        <4> HIDE DEF x
        <4>3. \A e \in Clients : Append(sets[e], x) \in Seq(Values)
          BY <4>2, Appended DEF TypeOK
        <4>4. QED
          BY <4>1, <4>2, <4>3 DEF TypeOK
      <3>2. CASE d # syncer
        BY <1>4, <3>2 DEF ChangeWeapon, TypeOK
      <3>3. QED
        BY <3>1, <3>2
    <2>5. TypeOK'
      BY <1>4, <2>3, <2>4 DEF ChangeWeapon, TypeOK
    <2>6. kind = "weapon"
      BY <2>1 DEF OnlyWeapons
    <2>7. NotSynced' /\ AllTold' /\ OnlyWeapons'
      BY <1>4, <2>6 DEF ChangeWeapon, NotSynced, Synced, AllTold, Broadcast, OnlyWeapons
    <2>8. QED
      BY <2>5, <2>7
  <1>5. QED
    BY <1>1, <1>2, <1>3, <1>4

LEMMA StreamingInv ==
  ASSUME Inv,
         \/ FindSyncer
         \/ \E c \in Clients : StreamIn(c) \/ Resend(c) \/ StreamOut(c) \/ SetSyncer(c)
  PROVE  Inv'
  <1> USE DEF Inv
  <1>1. CASE FindSyncer
    <2>1. TypeOK'
      BY <1>1 DEF FindSyncer, TypeOK
    <2>2. NotSynced' /\ OnlyWeapons' /\ AllTold'
      BY <1>1 DEF FindSyncer, NotSynced, AllTold, Synced, Broadcast, OnlyWeapons
    <2>3. QED
      BY <2>1, <2>2
  <1>2. ASSUME NEW d \in Clients, Change PROVE changes' \in 0..MaxChanges
    BY <1>2, AttributesAssumption DEF TypeOK, Change
  <1>3. ASSUME NEW d \in Clients, StreamIn(d) PROVE Inv'
    <2>1. <<value>> \in Seq(Values)
      BY DEF TypeOK
    <2>2. changes' \in 0..MaxChanges
      BY <1>2, <1>3 DEF StreamIn
    <2>3. TypeOK'
      BY <1>3, <2>1, <2>2 DEF StreamIn, Created, TypeOK
    <2>4. NotSynced' /\ OnlyWeapons'
      BY <1>3 DEF StreamIn, NotSynced, Synced, OnlyWeapons
    <2>5. AllTold'
      <3> SUFFICES ASSUME Broadcast, NEW c \in has \cup {d}
                   PROVE  Ends(sets'[c], view'[c], value')
        BY <1>3 DEF StreamIn, AllTold, Broadcast, Ends
      <3>1. CASE c = d
        BY <1>3, <3>1 DEF StreamIn, Created, TypeOK, Ends
      <3>2. CASE c # d
        BY <1>3, <3>2, ToldByEnds DEF StreamIn, TypeOK
      <3>3. QED
        BY <3>1, <3>2
    <2>6. QED
      BY <2>3, <2>4, <2>5
  <1>4. ASSUME NEW d \in Clients, StreamOut(d) PROVE Inv'
    <2>1. changes' \in 0..MaxChanges
      BY <1>2, <1>4 DEF StreamOut
    <2>2. TypeOK'
      <3>1. <<>> \in Seq(Values) /\ d \in Clients
        OBVIOUS
      <3>2. reports' \in [Clients -> Seq(Values)]
        BY <1>4, <3>1 DEF StreamOut, TypeOK
      <3>3. QED
        BY <1>4, <2>1, <3>1, <3>2 DEF StreamOut, TypeOK
    <2>3. NotSynced' /\ OnlyWeapons'
      BY <1>4 DEF StreamOut, NotSynced, Synced, TypeOK, OnlyWeapons
    <2>4. AllTold'
      BY <1>4 DEF StreamOut, AllTold, Broadcast, TypeOK
    <2>5. QED
      BY <2>2, <2>3, <2>4
  <1>5. ASSUME NEW d \in Clients, SetSyncer(d) PROVE Inv'
    <2>1. changes' \in 0..MaxChanges
      BY <1>2, <1>5 DEF SetSyncer
    <2>2. TypeOK'
      BY <1>5, <2>1 DEF SetSyncer, TypeOK
    <2>3. NotSynced' /\ OnlyWeapons' /\ AllTold'
      BY <1>5 DEF SetSyncer, NotSynced, AllTold, Synced, Broadcast, OnlyWeapons
    <2>4. QED
      BY <2>2, <2>3
  <1>6. ASSUME NEW d \in Clients, Resend(d) PROVE Inv'
    <2>1. changes' \in 0..MaxChanges
      BY <1>2, <1>6 DEF Resend
    <2>2. sets[d] \in Seq(Values) /\ value \in Values
      BY DEF TypeOK
    <2>3. TypeOK'
      BY <1>6, <2>1, <2>2, Appended DEF Resend, TypeOK
    <2>4. NotSynced' /\ OnlyWeapons'
      BY <1>6 DEF Resend, NotSynced, Synced, OnlyWeapons
    <2>5. AllTold'
      <3> SUFFICES ASSUME Broadcast, NEW c \in has
                   PROVE  Ends(sets'[c], view'[c], value')
        BY <1>6 DEF Resend, AllTold, Broadcast, Ends
      <3>1. CASE c = d
        <4>1. sets'[c] = Append(sets[d], value) /\ value' = value
          BY <1>6, <3>1 DEF Resend, TypeOK
        <4>2. QED
          BY <2>2, <4>1, Appended DEF Ends
      <3>2. CASE c # d
        BY <1>6, <3>2, ToldByEnds DEF Resend, TypeOK
      <3>3. QED
        BY <3>1, <3>2
    <2>6. QED
      BY <1>6, <2>3, <2>4, <2>5 DEF Resend, OnlyWeapons
  <1>7. QED
    BY <1>1, <1>3, <1>4, <1>5, <1>6

LEMMA Inductive ==
  Inv /\ [Next]_vars => Inv'
  <1> SUFFICES ASSUME Inv, [Next]_vars PROVE Inv'
    OBVIOUS
  <1>1. CASE Next
    BY <1>1, ScriptSetInv, SyncsInv, ClientsInv, StreamingInv DEF Next
  <1>2. CASE UNCHANGED vars
    BY <1>2 DEF Inv, TypeOK, NotSynced, Synced, AllTold, Broadcast, OnlyWeapons, vars
  <1>3. QED
    BY <1>1, <1>2

LEMMA Invariant ==
  Spec => []Inv
  BY InitInv, Inductive, PTL DEF Spec

(* The copies of an attribute and the packets that carry it keep their     *)
(* types: whatever overtakes what, nobody's copy is sent that is none.     *)
THEOREM TypeCorrect ==
  Spec => []TypeOK
  <1>1. Inv => TypeOK
    BY DEF Inv
  <1>2. QED
    BY <1>1, Invariant, PTL

(* The skin of a ped and the settings of the server are the server's for   *)
(* everybody that has taken in the packets sent to it                      *)
(* (CServerHuman::SetModel, WriteCreatePacket, SendGameMode, SendMapName,  *)
(* SendCVars and the resources).                                           *)
THEOREM EverybodyTold ==
  Spec => []AllTold
  <1>1. Inv => AllTold
    BY DEF Inv
  <1>2. QED
    BY <1>1, Invariant, PTL

-----------------------------------------------------------------------------
(* Values that ought to stand.  Who reports has what it reports on, and a  *)
(* value is remembered of what scripts set and is sent only.               *)

SyncerHas == syncer # NoClient => syncer \in has

SetInv == SyncerHas /\ SetHeard /\ (wish # Unset => kind \notin {"local", "weapon"})

(* The step of a script that sets a value while the reports are in step.   *)
LEMMA ScriptSetHeard ==
  ASSUME Inv, SetInv, NEW x \in Values, ScriptSet(x)
  PROVE  SetInv'
  <1> USE DEF Inv
  <1>0. SyncerHas'
    BY DEF SetInv, SyncerHas, ScriptSet
  <1>1. CASE ~(Settled /\ kind \notin {"model", "local"})
    <2>1. wish' = Unset
      BY <1>1 DEF ScriptSet
    <2>2. QED
      BY <1>0, <2>1 DEF SetInv, SetHeard
  <1>2. CASE Settled /\ kind \notin {"model", "local"}
    <2>1. /\ wish' = x /\ value' = x /\ kind' = kind /\ syncer' = syncer /\ view' = view /\ up' = up
          /\ kind # "weapon"
      BY <1>2 DEF ScriptSet, Scriptable
    <2>2. CASE ~Synced
      BY <1>0, <1>2, <2>1, <2>2 DEF SetInv, SetHeard, Synced
    <2>3. CASE Synced
      <3>1. /\ syncer # NoClient /\ syncer \in Clients /\ syncer \in has
            /\ view[syncer] = value /\ sets[syncer] = <<>> /\ up \subseteq {value} /\ value \in Values
        BY <1>2, <2>3 DEF Settled, HasSyncer, Synced, TypeOK, SetInv, SyncerHas
      <3>2. sets'[syncer] = IF Sends(x) THEN <<x>> ELSE <<>>
        <4>1. sets'[syncer] = IF Sends(x) THEN Append(<<>>, x) ELSE <<>>
          BY <3>1, Zenon DEF ScriptSet
        <4>2. Append(<<>>, x) = <<x>>
          OBVIOUS
        <4>3. QED
          BY <4>1, <4>2
      <3>3. ~Sends(x) => value = x
        BY <1>2, <2>1, <2>3 DEF Sends, Synced
      <3>4. {value', view'[syncer]} \cup up' \subseteq {value, x}
        BY <2>1, <3>1
      <3>5. Heard'
        BY <2>1, <3>1, <3>2, <3>3, <3>4 DEF Heard
      <3>6. QED
        BY <1>0, <1>2, <2>1, <3>5 DEF SetInv, SetHeard
    <2>4. QED
      BY <2>2, <2>3
  <1>3. QED
    BY <1>1, <1>2

(* What a step that keeps the value in mind has to keep.                   *)
LEMMA HeardKept ==
  ASSUME Inv, SetInv, SyncerHas', kind' = kind, wish' = wish, syncer' = syncer,
         ~Synced => value' = value,
         ASSUME Synced, wish # Unset, syncer \in has
         PROVE  /\ \/ sets'[syncer] = <<wish>>
                   \/ sets'[syncer] = <<>> /\ view'[syncer] = wish
                /\ {value', view'[syncer]} \cup up' \subseteq {value, view[syncer], wish} \cup up
  PROVE  SetInv'
  <1>1. CASE wish = Unset
    BY <1>1 DEF SetInv, SetHeard
  <1>2. CASE wish # Unset /\ ~Synced
    BY <1>2 DEF SetInv, SetHeard, Synced
  <1>3. CASE wish # Unset /\ Synced
    <2>1. Heard
      BY <1>3 DEF SetInv, SetHeard
    <2>2. PICK old \in Values : {value, view[syncer]} \cup up \subseteq {old, wish}
      BY <2>1 DEF Heard
    <2>3. syncer \in has
      BY <2>1 DEF SetInv, SyncerHas, Heard
    <2>4. {value', view'[syncer]} \cup up' \subseteq {old, wish}
      BY <1>3, <2>2, <2>3
    <2>5. Heard'
      BY <1>3, <2>1, <2>3, <2>4 DEF Heard
    <2>6. QED
      BY <1>3, <2>5 DEF SetInv, SetHeard, Synced
  <1>4. QED
    BY <1>1, <1>2, <1>3

(* The value is no longer one that ought to stand.                         *)
LEMMA Forgotten ==
  ASSUME SyncerHas', wish' = Unset
  PROVE  SetInv'
  BY DEF SetInv, SetHeard

LEMMA SyncsHeard ==
  ASSUME Inv, SetInv,
         \/ \E x \in Values : ReceiveSync(x)
         \/ SendAllSync \/ SendSync \/ Lose
  PROVE  SetInv'
  <1> USE DEF Inv
  <1>1. ASSUME NEW x \in Values, ReceiveSync(x) PROVE SetInv'
    <2>1. Synced
      BY <1>1 DEF ReceiveSync, NotSynced
    <2>2. SyncerHas'
      BY <1>1 DEF SetInv, SyncerHas, ReceiveSync
    <2>3. Synced /\ wish # Unset => Heard
      BY DEF SetInv, SetHeard
    <2>4. QED
      BY <1>1, <2>1, <2>2, <2>3, HeardKept DEF ReceiveSync, Heard
  <1>2. CASE SendAllSync
    BY <1>2, HeardKept DEF SendAllSync, SetInv, SyncerHas, SetHeard, Heard
  <1>3. CASE SendSync
    BY <1>3, HeardKept DEF SendSync, SetInv, SyncerHas, SetHeard, Heard
  <1>4. CASE Lose
    BY <1>4, HeardKept DEF Lose, SetInv, SyncerHas, SetHeard, Heard
  <1>5. QED
    BY <1>1, <1>2, <1>3, <1>4

LEMMA ClientsHeard ==
  ASSUME Inv, SetInv,
         \/ \E x \in Values : GameChanges(x)
         \/ \E c \in Clients : TakeSet(c) \/ ChangeWeapon(c)
         \/ \E c \in Clients, x \in Values : TakeSync(c, x)
  PROVE  SetInv'
  <1> USE DEF Inv
  <1>1. ASSUME NEW x \in Values, GameChanges(x) PROVE SetInv'
    BY <1>1, Forgotten DEF GameChanges, SetInv, SyncerHas
  <1>2. ASSUME NEW d \in Clients, TakeSet(d) PROVE SetInv'
    <2>1. SyncerHas'
      BY <1>2 DEF TakeSet, SetInv, SyncerHas
    <2>2. ASSUME Synced, wish # Unset, syncer \in has
          PROVE  /\ \/ sets'[syncer] = <<wish>>
                    \/ sets'[syncer] = <<>> /\ view'[syncer] = wish
                 /\ {value', view'[syncer]} \cup up' \subseteq {value, view[syncer], wish} \cup up
      <3>1. Heard /\ syncer \in Clients
        BY <2>2 DEF SetInv, SetHeard, TypeOK
      <3>2. CASE d # syncer
        BY <1>2, <3>1, <3>2 DEF TakeSet, TypeOK, Heard
      <3>3. CASE d = syncer
        <4>1. sets[d] = <<wish>>
          BY <1>2, <3>1, <3>3 DEF TakeSet, Heard
        <4>2. Head(<<wish>>) = wish /\ Tail(<<wish>>) = <<>>
          OBVIOUS
        <4>3. QED
          BY <1>2, <3>1, <3>3, <4>1, <4>2 DEF TakeSet, TypeOK
      <3>4. QED
        BY <3>2, <3>3
    <2>3. QED
      BY <1>2, <2>1, <2>2, HeardKept DEF TakeSet
  <1>3. ASSUME NEW d \in Clients, ChangeWeapon(d) PROVE SetInv'
    <2>1. reports[d] # <<>>
      BY <1>3 DEF ChangeWeapon
    <2>2. kind = "weapon"
      BY <2>1 DEF OnlyWeapons
    <2>3. wish = Unset /\ wish' = wish /\ SyncerHas'
      BY <1>3, <2>2 DEF SetInv, ChangeWeapon, SyncerHas
    <2>4. QED
      BY <2>3, Forgotten
  <1>4. ASSUME NEW d \in Clients, NEW x \in Values, TakeSync(d, x) PROVE SetInv'
    <2>1. SyncerHas'
      BY <1>4 DEF TakeSync, SetInv, SyncerHas
    <2>2. view'[syncer] = view[syncer] \/ syncer \notin Clients
      BY <1>4 DEF TakeSync, TypeOK
    <2>3. syncer \in has => syncer \in Clients
      BY DEF TypeOK
    <2>4. Synced /\ wish # Unset => Heard
      BY DEF SetInv, SetHeard
    <2>5. QED
      BY <1>4, <2>1, <2>2, <2>3, <2>4, HeardKept DEF TakeSync, Heard
  <1>5. QED
    BY <1>1, <1>2, <1>3, <1>4

LEMMA StreamingHeard ==
  ASSUME Inv, SetInv,
         \/ FindSyncer
         \/ \E c \in Clients : StreamIn(c) \/ Resend(c) \/ StreamOut(c) \/ SetSyncer(c)
  PROVE  SetInv'
  <1> USE DEF Inv
  <1>1. CASE FindSyncer
    BY <1>1, Forgotten DEF FindSyncer, SyncerHas
  <1>2. ASSUME NEW d \in Clients, SetSyncer(d) PROVE SetInv'
    BY <1>2, Forgotten DEF SetSyncer, SyncerHas
  <1>3. ASSUME NEW d \in Clients, StreamIn(d) PROVE SetInv'
    <2>1. SyncerHas' /\ (syncer \in has => sets'[syncer] = sets[syncer])
      BY <1>3 DEF StreamIn, SetInv, SyncerHas, TypeOK
    <2>2. Synced /\ wish # Unset => Heard
      BY DEF SetInv, SetHeard
    <2>3. QED
      BY <1>3, <2>1, <2>2, HeardKept DEF StreamIn, Heard
  <1>4. ASSUME NEW d \in Clients, Resend(d) PROVE SetInv'
    <2>1. SyncerHas' /\ ~Synced
      BY <1>4 DEF Resend, SetInv, SyncerHas, Synced
    <2>2. QED
      BY <1>4, <2>1, HeardKept DEF Resend
  <1>5. ASSUME NEW d \in Clients, StreamOut(d) PROVE SetInv'
    <2>1. CASE d = syncer
      BY <1>5, <2>1, Forgotten DEF StreamOut, SyncerHas
    <2>2. CASE d # syncer
      <3>1. SyncerHas' /\ (syncer \in has => sets'[syncer] = sets[syncer] /\ view'[syncer] = view[syncer])
        BY <1>5, <2>2 DEF StreamOut, SetInv, SyncerHas, TypeOK
      <3>2. Synced /\ wish # Unset => Heard
        BY DEF SetInv, SetHeard
      <3>3. QED
        BY <1>5, <2>2, <3>1, <3>2, HeardKept DEF StreamOut, Heard
    <2>3. QED
      BY <2>1, <2>2
  <1>6. QED
    BY <1>1, <1>2, <1>3, <1>4, <1>5

LEMMA SetInvariant ==
  Spec => [](Inv /\ SetInv)
  <1>1. Init => SetInv
    BY DEF Init, SetInv, SyncerHas, SetHeard
  <1>2. ASSUME Inv, SetInv, [Next]_vars
        PROVE  SetInv'
    <2>1. CASE Next
      BY <1>2, <2>1, ScriptSetHeard, SyncsHeard, ClientsHeard, StreamingHeard DEF Next
    <2>2. CASE UNCHANGED vars
      BY <1>2, <2>2 DEF vars, SetInv, SyncerHas, SetHeard, Heard, Synced
    <2>3. QED
      BY <1>2, <2>1, <2>2
  <1>3. QED
    BY <1>1, <1>2, Invariant, PTL DEF Spec

(* A script's value is neither lost on the way to the syncer nor mixed up  *)
(* with more than what was there before it: whatever is lost, repeated or  *)
(* overtaken, and whoever else comes and goes, the last the syncer heard   *)
(* is the value, and the server has it or the one before.                  *)
THEOREM SetsAreHeard ==
  Spec => []SetHeard
  <1>1. Inv /\ SetInv => SetHeard
    BY DEF SetInv
  <1>2. QED
    BY <1>1, SetInvariant, PTL

(* Once it has gone round, it stays.                                       *)
THEOREM SetsStay ==
  Spec => StaysSet
  <1>1. Inv /\ SetInv /\ [Next]_vars =>
          [wish # Unset /\ Settled /\ value = wish /\ wish' = wish /\ (\A x \in Values : ~ScriptSet(x))
             => Settled' /\ value' = wish]_vars
    <2> SUFFICES ASSUME Inv, SetInv, Next,
                        wish # Unset, Settled, value = wish, wish' = wish,
                        \A x \in Values : ~ScriptSet(x)
                 PROVE  Settled' /\ value' = wish
      OBVIOUS
    <2>0. TypeOK /\ NotSynced /\ OnlyWeapons /\ SyncerHas /\ kind # "weapon" /\ syncer \in Clients \cup {NoClient}
      BY DEF Inv, SetInv, TypeOK
    <2>1. ASSUME NEW x \in Values, GameChanges(x)
          PROVE  FALSE
      BY <2>1 DEF GameChanges
    <2>2. ASSUME NEW x \in Values, ReceiveSync(x)
          PROVE  Settled' /\ value' = wish
      <3>1. Synced
        BY <2>0, <2>2 DEF ReceiveSync, NotSynced
      <3>2. QED
        BY <2>2, <3>1 DEF ReceiveSync, Settled, HasSyncer, Synced
    <2>3. ASSUME SendAllSync \/ SendSync \/ Lose
          PROVE  Settled' /\ value' = wish
      BY <2>3 DEF SendAllSync, SendSync, Lose, Settled, HasSyncer, Synced
    <2>4. ASSUME NEW c \in Clients, TakeSet(c)
          PROVE  Settled' /\ value' = wish
      BY <2>0, <2>4 DEF TakeSet, Settled, HasSyncer, Synced, TypeOK
    <2>5. ASSUME NEW c \in Clients, ChangeWeapon(c)
          PROVE  FALSE
      BY <2>0, <2>5 DEF ChangeWeapon, OnlyWeapons
    <2>6. ASSUME NEW c \in Clients, NEW x \in Values, TakeSync(c, x)
          PROVE  Settled' /\ value' = wish
      <3>1. view'[syncer] = view[syncer] \/ syncer \notin Clients
        BY <2>0, <2>6 DEF TakeSync, TypeOK
      <3>2. QED
        BY <2>0, <2>6, <3>1 DEF TakeSync, Settled, HasSyncer, Synced
    <2>7. ASSUME FindSyncer \/ \E c \in Clients : SetSyncer(c)
          PROVE  FALSE
      BY <2>7 DEF FindSyncer, SetSyncer
    <2>8. ASSUME NEW c \in Clients, StreamIn(c)
          PROVE  Settled' /\ value' = wish
      BY <2>0, <2>8 DEF StreamIn, Settled, HasSyncer, Synced, SyncerHas, TypeOK
    <2>9. ASSUME NEW c \in Clients, Resend(c)
          PROVE  Settled' /\ value' = wish
      BY <2>9 DEF Resend, Settled, HasSyncer, Synced
    <2>10. ASSUME NEW c \in Clients, StreamOut(c)
           PROVE  Settled' /\ value' = wish
      BY <2>0, <2>10 DEF StreamOut, Settled, HasSyncer, Synced, TypeOK
    <2>11. QED
      BY <2>1, <2>2, <2>3, <2>4, <2>5, <2>6, <2>7, <2>8, <2>9, <2>10 DEF Next
  <1>2. QED
    BY <1>1, SetInvariant, PTL DEF Spec, StaysSet

-----------------------------------------------------------------------------
(* Agreement that lasts.                                                   *)

(* Nothing but x is in a queue.                                            *)
Only(q, x) == \A i \in 1..Len(q) : q[i] = x

LEMMA OnlyAppended ==
  ASSUME NEW S, NEW q \in Seq(S), NEW x \in S, Only(q, x)
  PROVE  Only(Append(q, x), x) /\ Append(q, x) # <<>>
  BY DEF Only

LEMMA OnlyTaken ==
  ASSUME NEW S, NEW q \in Seq(S), NEW x \in S, Only(q, x), q # <<>>
  PROVE  Head(q) = x /\ Only(Tail(q), x)
  BY DEF Only

LEMMA OnlyEmpty ==
  ASSUME NEW x
  PROVE  Only(<<>>, x) /\ Only(<<x>>, x)
  BY DEF Only

(* What one client has and is sent, in a calm state.                       *)
CalmAt(c) ==
  /\ down[c] \subseteq {value} /\ view[c] \in {value, NoCopy}
  /\ Only(sets[c], value) /\ Only(reports[c], value)
  /\ c \in has /\ sets[c] = <<>> => view[c] = value

LEMMA CalmByClient ==
  ASSUME TypeOK, TypeOK'
  PROVE  /\ Calm <=> up \subseteq {value} /\ \A c \in Clients : CalmAt(c)
         /\ Calm' <=> up' \subseteq {value'} /\ \A c \in Clients : CalmAt(c)'
  BY DEF Calm, CalmAt, Only, TypeOK

(* A script or a game that sets the value that is there already.           *)
LEMMA CalmScripts ==
  ASSUME TypeOK, TypeOK', Calm, ScriptSet(value)
  PROVE  Calm'
  <1>1. value' = value /\ value \in Values
    BY DEF ScriptSet, TypeOK
  <1>2. ASSUME NEW c \in Clients
        PROVE  CalmAt(c)'
    <2>1. CalmAt(c) /\ sets[c] \in Seq(Values)
      BY CalmByClient DEF TypeOK
    <2>2. Only(Append(sets[c], value), value) /\ Append(sets[c], value) # <<>>
      BY <1>1, <2>1, OnlyAppended DEF CalmAt
    <2>3. sets'[c] \in {sets[c], Append(sets[c], value)}
      BY DEF ScriptSet
    <2>4. QED
      BY <1>1, <2>1, <2>2, <2>3 DEF ScriptSet, CalmAt
  <1>3. QED
    BY <1>1, <1>2, CalmByClient DEF ScriptSet

LEMMA CalmGames ==
  ASSUME TypeOK, TypeOK', SyncerHas, Calm, GameChanges(value)
  PROVE  Calm'
  <1>1. value' = value /\ value \in Values
    BY DEF GameChanges, TypeOK
  <1>2. ASSUME NEW c \in Clients
        PROVE  CalmAt(c)'
    <2>1. CalmAt(c) /\ reports[c] \in Seq(Values)
      BY CalmByClient DEF TypeOK
    <2>2. Only(Append(reports[c], value), value)
      BY <1>1, <2>1, OnlyAppended DEF CalmAt
    <2>3. reports'[c] \in {reports[c], Append(reports[c], value)} /\ view'[c] \in {view[c], value}
      BY DEF GameChanges, TypeOK
    <2>4. QED
      BY <1>1, <2>1, <2>2, <2>3 DEF GameChanges, CalmAt
  <1>3. QED
    BY <1>1, <1>2, CalmByClient DEF GameChanges

LEMMA CalmSyncs ==
  ASSUME TypeOK, TypeOK', SyncerHas, Calm,
         \/ \E x \in Values : ReceiveSync(x)
         \/ SendAllSync \/ SendSync \/ Lose \/ FindSyncer
         \/ \E c \in Clients : SetSyncer(c)
         \/ \E c \in Clients, x \in Values : TakeSync(c, x)
  PROVE  Calm'
  <1>0. up \subseteq {value} /\ \A c \in Clients : CalmAt(c)
    BY CalmByClient
  <1>1. ASSUME NEW x \in Values, ReceiveSync(x) PROVE Calm'
    BY <1>0, <1>1, CalmByClient DEF ReceiveSync, CalmAt
  <1>2. CASE SendAllSync
    BY <1>0, <1>2, CalmByClient DEF SendAllSync, CalmAt
  <1>3. CASE SendSync
    <2>1. view[syncer] = value
      BY <1>0, <1>3 DEF SendSync, CalmAt, TypeOK
    <2>2. QED
      BY <1>0, <1>3, <2>1, CalmByClient DEF SendSync, CalmAt
  <1>4. CASE Lose
    <2>1. up' \subseteq up /\ \A c \in Clients : down'[c] \subseteq down[c]
      BY <1>4 DEF Lose, TypeOK
    <2>2. QED
      BY <1>0, <1>4, <2>1, CalmByClient DEF Lose, CalmAt
  <1>5. CASE FindSyncer \/ \E c \in Clients : SetSyncer(c)
    BY <1>0, <1>5, CalmByClient DEF FindSyncer, SetSyncer, CalmAt
  <1>6. ASSUME NEW d \in Clients, NEW x \in Values, TakeSync(d, x) PROVE Calm'
    <2>1. x = value
      BY <1>0, <1>6 DEF TakeSync, CalmAt
    <2>2. ASSUME NEW c \in Clients PROVE CalmAt(c)'
      <3>1. down'[c] \subseteq down[c] /\ (view'[c] = view[c] \/ view'[c] = value)
        BY <1>6, <2>1 DEF TakeSync, TypeOK
      <3>2. QED
        BY <1>0, <1>6, <3>1 DEF TakeSync, CalmAt
    <2>3. QED
      BY <1>0, <1>6, <2>2, CalmByClient DEF TakeSync
  <1>7. QED
    BY <1>1, <1>2, <1>3, <1>4, <1>5, <1>6

LEMMA CalmQueues ==
  ASSUME TypeOK, TypeOK', Calm,
         \E c \in Clients : TakeSet(c) \/ ChangeWeapon(c)
  PROVE  Calm'
  <1>0. value \in Values /\ up \subseteq {value} /\ \A c \in Clients : CalmAt(c)
    BY CalmByClient DEF TypeOK
  <1>1. ASSUME NEW d \in Clients, TakeSet(d) PROVE Calm'
    <2>1. Head(sets[d]) = value /\ Only(Tail(sets[d]), value)
      BY <1>0, <1>1, OnlyTaken DEF TakeSet, CalmAt, TypeOK
    <2>2. ASSUME NEW c \in Clients PROVE CalmAt(c)'
      <3>1. CASE c = d
        <4>1. view'[c] = value /\ sets'[c] = Tail(sets[d])
          BY <1>1, <2>1, <3>1 DEF TakeSet, TypeOK
        <4>2. QED
          BY <1>0, <1>1, <2>1, <4>1 DEF TakeSet, CalmAt
      <3>2. CASE c # d
        <4>1. view'[c] = view[c] /\ sets'[c] = sets[c]
          BY <1>1, <3>2 DEF TakeSet, TypeOK
        <4>2. QED
          BY <1>0, <1>1, <4>1 DEF TakeSet, CalmAt
      <3>3. QED
        BY <3>1, <3>2
    <2>3. QED
      BY <1>0, <1>1, <2>2, CalmByClient DEF TakeSet
  <1>2. ASSUME NEW d \in Clients, ChangeWeapon(d) PROVE Calm'
    <2>1. Head(reports[d]) = value /\ Only(Tail(reports[d]), value)
      BY <1>0, <1>2, OnlyTaken DEF ChangeWeapon, CalmAt, TypeOK
    <2>2. value' = value
      BY <1>2, <2>1 DEF ChangeWeapon
    <2>3. ASSUME NEW c \in Clients PROVE CalmAt(c)'
      <3>1. Only(Append(sets[c], value), value) /\ Append(sets[c], value) # <<>>
        BY <1>0, OnlyAppended DEF CalmAt, TypeOK
      <3>2. sets'[c] \in {sets[c], Append(sets[c], value)}
        BY <1>2, <2>1 DEF ChangeWeapon
      <3>3. reports'[c] = reports[c] \/ reports'[c] = Tail(reports[d])
        BY <1>2 DEF ChangeWeapon, TypeOK
      <3>4. QED
        BY <1>0, <1>2, <2>1, <2>2, <3>1, <3>2, <3>3 DEF ChangeWeapon, CalmAt
    <2>4. QED
      BY <1>0, <1>2, <2>2, <2>3, CalmByClient DEF ChangeWeapon
  <1>3. QED
    BY <1>1, <1>2

LEMMA CalmStreaming ==
  ASSUME TypeOK, TypeOK', Calm,
         \E c \in Clients : StreamIn(c) \/ Resend(c) \/ StreamOut(c)
  PROVE  Calm'
  <1>0. value \in Values /\ up \subseteq {value} /\ \A c \in Clients : CalmAt(c)
    BY CalmByClient DEF TypeOK
  <1>1. ASSUME NEW d \in Clients, StreamIn(d) PROVE Calm'
    <2>1. ASSUME NEW c \in Clients PROVE CalmAt(c)'
      <3>1. Only(<<value>>, value) /\ <<value>> # <<>>
        BY OnlyEmpty
      <3>2. sets'[c] = (IF c = d THEN <<value>> ELSE sets[c]) /\ (c # d => (c \in has' <=> c \in has))
        BY <1>1 DEF StreamIn, Created, TypeOK
      <3>3. QED
        BY <1>0, <1>1, <3>1, <3>2 DEF StreamIn, CalmAt
    <2>2. QED
      BY <1>0, <1>1, <2>1, CalmByClient DEF StreamIn
  <1>2. ASSUME NEW d \in Clients, Resend(d) PROVE Calm'
    <2>1. ASSUME NEW c \in Clients PROVE CalmAt(c)'
      <3>1. Only(Append(sets[c], value), value) /\ Append(sets[c], value) # <<>>
        BY <1>0, OnlyAppended DEF CalmAt, TypeOK
      <3>2. sets'[c] \in {sets[c], Append(sets[c], value)}
        BY <1>2 DEF Resend, TypeOK
      <3>3. QED
        BY <1>0, <1>2, <3>1, <3>2 DEF Resend, CalmAt
    <2>2. QED
      BY <1>0, <1>2, <2>1, CalmByClient DEF Resend
  <1>3. ASSUME NEW d \in Clients, StreamOut(d) PROVE Calm'
    <2>1. ASSUME NEW c \in Clients PROVE CalmAt(c)'
      <3>1. Only(<<>>, value)
        BY OnlyEmpty
      <3>2. CASE c = d
        <4>1. view'[c] = NoCopy /\ sets'[c] = <<>> /\ down'[c] = {} /\ c \notin has'
              /\ (reports'[c] = reports[c] \/ reports'[c] = <<>>)
          BY <1>3, <3>2 DEF StreamOut, TypeOK
        <4>2. QED
          BY <1>0, <1>3, <3>1, <4>1 DEF StreamOut, CalmAt
      <3>3. CASE c # d
        <4>1. view'[c] = view[c] /\ sets'[c] = sets[c] /\ down'[c] = down[c] /\ reports'[c] = reports[c]
              /\ (c \in has' <=> c \in has)
          BY <1>3, <3>3 DEF StreamOut, TypeOK
        <4>2. QED
          BY <1>0, <1>3, <4>1 DEF StreamOut, CalmAt
      <3>4. QED
        BY <3>2, <3>3
    <2>2. QED
      BY <1>0, <1>3, <2>1, CalmByClient DEF StreamOut
  <1>4. QED
    BY <1>1, <1>2, <1>3

(* Once everybody agrees, it takes a new value to change that: the safety  *)
(* half of Converges.                                                      *)
THEOREM AgreementStays ==
  Spec => CalmStays
  <1>1. Inv /\ Inv' /\ SetInv /\ [Next]_vars =>
          [Calm /\ (\A x \in Values \ {value} : ~ScriptSet(x) /\ ~GameChanges(x)) => Calm']_vars
    <2> SUFFICES ASSUME Inv, Inv', SetInv, Next, Calm,
                        \A x \in Values \ {value} : ~ScriptSet(x) /\ ~GameChanges(x)
                 PROVE  Calm'
      OBVIOUS
    <2>1. TypeOK /\ TypeOK' /\ SyncerHas
      BY DEF Inv, SetInv
    <2>2. (\E x \in Values : ScriptSet(x) \/ GameChanges(x)) => ScriptSet(value) \/ GameChanges(value)
      OBVIOUS
    <2>3. QED
      BY <2>1, <2>2, CalmScripts, CalmGames, CalmSyncs, CalmQueues, CalmStreaming DEF Next
  <1>2. QED
    BY <1>1, SetInvariant, PTL DEF Spec, CalmStays
=============================================================================
