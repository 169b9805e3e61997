-------------------------------- MODULE Bans --------------------------------
(***************************************************************************)
(* The list of banned hosts (CBanList) and the scripts' functions on it:   *)
(* server.banIP, unbanIP, unbanAllIPs and isIPBanned.  A ban has the tick  *)
(* count at which it ends, or 0 when it never does; whoever looks a host   *)
(* up removes the ban that has ended.  The tick count is a 32-bit number   *)
(* that goes round.                                                        *)
(*                                                                         *)
(* A host is the address without the port.  Load is left out, because      *)
(* nothing calls it.                                                       *)
(***************************************************************************)
EXTENDS Integers

CONSTANTS Hosts,      \* addresses
          TickMod,    \* 2^32
          Durations,  \* what scripts ban for, in ticks; 0 is for ever
          NoEntry,
          Forever,    \* what is left of a ban without end
          Unclear,    \* the count has gone round under a ban
          Relapsed    \* it has gone round after a ban, and the ban is in the list still

ASSUME BansAssumption ==
  /\ TickMod \in Nat \ {0}
  /\ Durations \subseteq 0..(TickMod - 1)
  /\ NoEntry \notin Nat
  /\ {Forever, Unclear, Relapsed} \cap Nat = {}
  /\ Forever # Unclear /\ Forever # Relapsed /\ Unclear # Relapsed

VARIABLES ticks,    \* OS::GetTicks
          entries,  \* m_Entries: the expiry of a host's ban
          left,     \* history: what is left of the ban a script asked for
          unseen    \* history: the hosts whose last ban is for a time, and which
                    \* nobody has looked up since it ended

banVars == <<ticks, entries, left, unseen>>

Expiries == 0..(TickMod - 1)

BansTypeOK ==
  /\ ticks \in 0..(TickMod - 1)
  /\ entries \in [Hosts -> Expiries \cup {NoEntry}]
  /\ left \in [Hosts -> Nat \cup {Forever, Unclear, Relapsed}]
  /\ unseen \subseteq Hosts

-----------------------------------------------------------------------------
(* What IsBanned returns. *)
Banned(h) == entries[h] # NoEntry /\ (entries[h] = 0 \/ ticks < entries[h])

(* The host is looked up. *)
LookedUp(h) == unseen' = IF left[h] = 0 THEN unseen \ {h} ELSE unseen

(* Fault: the entry of a ban that has ended stays. *)
IsBannedKeeping(h) == LookedUp(h) /\ UNCHANGED <<ticks, entries, left>>

(* IsBanned: the entry of a ban that has ended is erased. *)
IsBanned(h) ==
  /\ entries' = IF Banned(h) THEN entries ELSE [entries EXCEPT ![h] = NoEntry]
  /\ LookedUp(h)
  /\ UNCHANGED <<ticks, left>>

(* Fault: the expiry is stored without going round with the count. *)
ExpiryWide(ms) == IF ms = 0 THEN 0 ELSE ticks + ms

Expiry(ms) == IF ms = 0 THEN 0 ELSE (ticks + ms) % TickMod

(* A new ban takes the place of the old one, longer or shorter. *)
BanIP(h, ms) ==
  /\ entries' = [entries EXCEPT ![h] = Expiry(ms)]
  /\ left' = [left EXCEPT ![h] = IF ms = 0 THEN Forever
                                 ELSE IF ticks + ms >= TickMod THEN Unclear
                                 ELSE ms]
  /\ unseen' = IF ms = 0 THEN unseen \ {h} ELSE unseen \cup {h}
  /\ UNCHANGED ticks

Remove(h) ==
  /\ entries' = [entries EXCEPT ![h] = NoEntry]
  /\ left' = [left EXCEPT ![h] = 0]
  /\ unseen' = unseen \ {h}
  /\ UNCHANGED ticks

Clear ==
  /\ entries' = [h \in Hosts |-> NoEntry]
  /\ left' = [h \in Hosts |-> 0]
  /\ unseen' = {}
  /\ UNCHANGED ticks

(* A ban that has ended is taken up again when the count goes round, if    *)
(* its entry has lain there all the time.                                  *)
Relapses(h) == left[h] = 0 /\ h \in unseen /\ ticks = TickMod - 1

Later(h) ==
  IF left[h] \in Nat \ {0} THEN left[h] - 1
  ELSE IF Relapses(h) THEN Relapsed
  ELSE left[h]

Tick ==
  /\ ticks' = (ticks + 1) % TickMod
  /\ left' = [h \in Hosts |-> Later(h)]
  /\ UNCHANGED <<entries, unseen>>

-----------------------------------------------------------------------------
BansInit ==
  /\ ticks \in 0..(TickMod - 1)
  /\ entries = [h \in Hosts |-> NoEntry]
  /\ left = [h \in Hosts |-> 0]
  /\ unseen = {}

BansNext ==
  \/ \E h \in Hosts : IsBanned(h) \/ Remove(h)
  \/ \E h \in Hosts, ms \in Durations : BanIP(h, ms)
  \/ Clear \/ Tick

-----------------------------------------------------------------------------
(* IsBanned says of a host what scripts asked for, no tick longer and none *)
(* shorter, whoever looked the host up before and whichever bans came on   *)
(* top of each other, in all cases but two, until the next ban, unbanIP or *)
(* unbanAllIPs for that host: the count goes round between the beginning   *)
(* of the ban and its end; or it goes round after the end, and nobody has  *)
(* looked the host up in between (BanList.cpp:59 compares the count with   *)
(* the old expiry and bans the host again).                                *)
BansExact ==
  \A h \in Hosts : left[h] \notin {Unclear, Relapsed} => (Banned(h) <=> left[h] # 0)
=============================================================================
