----------------------------- MODULE Admission -----------------------------
(***************************************************************************)
(* Sessions and bans together: PACKET_INITIAL looks the client's host up   *)
(* in the list of bans and compares the client's version with the oldest   *)
(* one allowed, while scripts ban and unban hosts at any time.  A ban does *)
(* not disconnect who is there already.                                    *)
(*                                                                         *)
(* The checks that Session keeps abstract and that are not about bans or   *)
(* versions stay abstract.                                                 *)
(***************************************************************************)
EXTENDS Session, Bans

CONSTANTS HostOf,            \* the host of a peer: GetPeerIP, without the port
          MinClientVersion,  \* the numbers read from minclientversion; none if it is absent
          Versions,          \* what clients say of themselves
          OtherFaults        \* the checks that fail for other reasons

Version == [1..4 -> Nat]

ASSUME AdmissionAssumption ==
  /\ HostOf \in [Peers -> Hosts]
  /\ MinClientVersion \in Seq(Nat) /\ Len(MinClientVersion) <= 4
  /\ Versions \subseteq Version
  /\ OtherFaults \subseteq Faults \ {"BANNED"}

admissionVars == <<vars, banVars>>

(* m_uiMinMajorVersion and so on: what is not in the configuration keeps   *)
(* its default.                                                            *)
MinVersion ==
  [i \in 1..4 |-> IF i <= Len(MinClientVersion) THEN MinClientVersion[i]
                  ELSE <<1, 0, 0, 0>>[i]]

(* Major, minor, patch, build. *)
IsVersionAllowed(v) ==
  \/ v[1] > MinVersion[1]
  \/ /\ v[1] = MinVersion[1]
     /\ \/ v[2] > MinVersion[2]
        \/ /\ v[2] = MinVersion[2]
           /\ \/ v[3] > MinVersion[3]
              \/ v[3] = MinVersion[3] /\ v[4] >= MinVersion[4]

-----------------------------------------------------------------------------
(* Fault: the peer is looked up, port and all. *)
BanOfPeer(p) == {}

BanOf(p) == IF Banned(HostOf[p]) THEN {"BANNED"} ELSE {}

AgeOf(v) == IF IsVersionAllowed(v) THEN {} ELSE {"UNSUPPORTEDCLIENT"}

(* The list is not looked at when the address cannot be told. *)
Handshake(p, others, v, n) ==
  /\ Initial(p, others \cup BanOf(p) \cup AgeOf(v), n)
  /\ IF "FAILED" \in others THEN UNCHANGED banVars ELSE IsBanned(HostOf[p])

(* What else happens to the sessions. *)
SessionGoesOn ==
  /\ \E p \in Peers :
       \/ Join(p)
       \/ \E on \in BOOLEAN : SetStreaming(p, on)
       \/ \E reason \in Reasons \ {"NICKNAMEINUSE"} : Kick(p, reason)
       \/ Connect(p) \/ Lose(p) \/ Close(p)
       \/ Receive(p)
  /\ UNCHANGED banVars

BansGoOn == BansNext /\ UNCHANGED vars

AdmissionInit == Init /\ BansInit

AdmissionNext ==
  \/ \E p \in Peers, others \in SUBSET OtherFaults, v \in Versions, n \in Names :
       Handshake(p, others, v, n)
  \/ SessionGoesOn
  \/ BansGoOn

AdmissionSpec == AdmissionInit /\ [][AdmissionNext]_admissionVars

-----------------------------------------------------------------------------
(* The type invariants of both parts: what scripts do to the list leaves   *)
(* expiries of 32 bits and a table of machines in order.                   *)
AdmissionTypeOK == TypeOK /\ BansTypeOK

Running(h) == left[h] \in (Nat \ {0}) \cup {Forever}

(* While the ban of a host runs, and the tick count does not go round      *)
(* under it, nobody comes in from there, on whichever port and as          *)
(* whichever peer, and whoever looked the host up before.                  *)
BannedStayOut ==
  [][\A p \in Peers : p \in Present' \ Present => ~Running(HostOf[p])]_admissionVars

(* A version is earlier than another if it is in the first of the four     *)
(* numbers in which they differ.                                           *)
Earlier(v, w) ==
  \E i \in 1..4 : v[i] < w[i] /\ \A j \in 1..(i - 1) : v[j] = w[j]
=============================================================================
