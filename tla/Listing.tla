------------------------------ MODULE Listing ------------------------------
(***************************************************************************)
(* The announcer (CMasterlistAnnouncer) that keeps the server listed: it   *)
(* connects, connects again after a while when the connection is lost or   *)
(* cannot be made, sends a snapshot of the server when it is connected and *)
(* every change of the players and of the server's name after that.  The   *)
(* table of machines it reports is the one of Machines.                    *)
(*                                                                         *)
(* The websocket is the library's (WebConnection).  What is modelled of    *)
(* it: Connect starts a connection or fails; UpdateNetwork calls back when *)
(* the connection stands or has gone; StopServer drops it; what is sent    *)
(* while it is being made is either lost or sent first.  The listing takes *)
(* in what it gets in order and forgets a server whose connection is gone. *)
(*                                                                         *)
(* A player's name goes with its entry and is left out, as are the log     *)
(* messages, the rest of the snapshot and the state MASTERLIST_DEAD, which *)
(* nothing sets.  The game mode is handled as the server's name is.        *)
(***************************************************************************)
EXTENDS Machines, Sequences

CONSTANTS Titles,     \* names of the server
          Retry,      \* 5.0f
          LongRetry,  \* 30.0f
          MaxDelta,   \* bound of the model: duration of a frame
          MaxSent,    \* bound of the model: frames under way
          NotListed

ASSUME ListingAssumption ==
  /\ MaxMachines \in Nat \ {0}
  /\ Nobody \notin Peers /\ Console \notin Peers /\ Nobody # Console
  /\ Retry \in Nat /\ LongRetry \in Nat /\ Retry <= LongRetry
  /\ MaxDelta \in Nat \ {0}
  /\ MaxSent \in Nat
  /\ NotListed \notin [all : Table, title : Titles] \cup Table

VARIABLES title,      \* m_szServerName
          ann,        \* the announcer: m_State, m_OldState, m_fRetryTime, and its connection
          sent,       \* frames under way to the listing
          listed,     \* what the listing shows of the server
          reachable,  \* the listing can be reached
          since,      \* time since the announcer last tried to connect
          due         \* time it owes between that attempt and the next

tableVars == <<machines, clients, title>>
listingVars == <<ann, sent, listed, reachable, since, due>>
vars == <<tableVars, listingVars>>

States == {"NONE", "CONNECTING", "CONNECTED", "DISCONNECTED"}

(* none: no connection; pending: being made; ready: made, and the announcer *)
(* not told yet; up; broken: gone, and the announcer not told yet; closed:  *)
(* gone, and its object is still there.                                     *)
Connections == {"none", "pending", "ready", "up", "broken", "closed"}

Entry == [all : Table, title : Titles]
Frame ==
  [what : {"JOIN"}, all : Table, title : Titles]
    \cup [what : {"PLAYERADD"}, slot : Slots, who : Peers]
    \cup [what : {"PLAYERREMOVE"}, slot : Slots]
    \cup [what : {"SETNAME"}, title : Titles]

TypeOK ==
  /\ machines \in Table
  /\ clients \in Int
  /\ title \in Titles
  /\ ann \in [state : States, old : States, retry : 0..LongRetry, conn : Connections]
  /\ sent \in Seq(Frame)
  /\ listed \in Entry \cup {NotListed}
  /\ reachable \in BOOLEAN
  /\ since \in 0..LongRetry
  /\ due \in 0..LongRetry

-----------------------------------------------------------------------------
(* The parts of CMasterlistAnnouncer, on the record of its members.        *)

ChangeState(a, s) ==
  IF a.state # s THEN [a EXCEPT !.old = a.state, !.state = s] ELSE a

(* Fault: a connection that is lost leaves the state as it is. *)
ConnectionLostUnnoticed(a) == a

(* OnPlayerDisconnect, when the connection is gone. *)
ConnectionLost(a) ==
  IF a.state # "NONE" THEN ChangeState(a, "DISCONNECTED") ELSE a

StopServer(a) == [a EXCEPT !.conn = "none"]

(* Fault: the time left is not kept from going below zero. *)
LessTimeUnclamped(a, dt) == a.retry - dt

(* The time left until the next attempt, never below zero. *)
LessTime(a, dt) == IF a.retry > dt THEN a.retry - dt ELSE 0

(* UpdateNetwork, which calls back for what has happened to the connection. *)
UpdateNetwork(a) ==
  CASE a.conn = "ready" -> ChangeState([a EXCEPT !.conn = "up"], "CONNECTED")
    [] a.conn = "broken" -> ConnectionLost([a EXCEPT !.conn = "closed"])
    [] OTHER -> a

(* OnPlayerConnect sends the snapshot of the server. *)
Snapshot == [what |-> "JOIN", all |-> machines, title |-> title]

(* Fault: the long wait is overwritten by the short one. *)
StartFailedShort(a, conn) == [a EXCEPT !.retry = Retry, !.conn = conn]

(* StartMasterlist returned false; nothing says whether the object of the  *)
(* connection is left behind.                                              *)
StartFailed(a, conn) == [a EXCEPT !.retry = LongRetry, !.conn = conn]

StartDone(a) == ChangeState([a EXCEPT !.retry = Retry, !.conn = "pending"], "CONNECTING")

-----------------------------------------------------------------------------
(* CMasterlistAnnouncer::Pulse, once a frame.                              *)

Older(dt) == IF since + dt < LongRetry THEN since + dt ELSE LongRetry

TimeGoesBy(dt) == since' = Older(dt) /\ due' = due

(* The connection was lost or could not be made: start over. *)
PulseDisconnected(dt) ==
  /\ ann.state = "DISCONNECTED"
  /\ ann' = ChangeState(StopServer(ann), "NONE")
  /\ TimeGoesBy(dt)
  /\ UNCHANGED sent

PulseWaiting(dt) ==
  /\ ann.state = "NONE" /\ ann.retry > 0
  /\ ann' = [ann EXCEPT !.retry = LessTime(ann, dt)]
  /\ TimeGoesBy(dt)
  /\ UNCHANGED sent

PulseStarting ==
  /\ ann.state = "NONE" /\ ann.retry <= 0
  /\ \/ ann' = StartDone(StopServer(ann)) /\ due' = Retry
     \/ /\ ~reachable
        /\ \E conn \in {"none", "closed"} : ann' = StartFailed(StopServer(ann), conn)
        /\ due' = LongRetry
  /\ since' = 0
  /\ UNCHANGED sent

PulseConnection(dt) ==
  /\ ann.state \in {"CONNECTING", "CONNECTED"}
  /\ ann' = UpdateNetwork(ann)
  /\ sent' = IF ann.conn = "ready" THEN Append(sent, Snapshot) ELSE sent
  /\ TimeGoesBy(dt)

Pulse(dt) ==
  /\ PulseDisconnected(dt) \/ PulseWaiting(dt) \/ PulseStarting \/ PulseConnection(dt)
  /\ UNCHANGED <<tableVars, listed, reachable>>

-----------------------------------------------------------------------------
(* What the rest of the server reports.                                    *)

(* SendPacket of the library. *)
SendPacket(frame) ==
  CASE ann.conn = "up" -> sent' = Append(sent, frame)
    [] ann.conn \in {"pending", "ready"} -> sent' \in {sent, Append(sent, frame)}
    [] OTHER -> UNCHANGED sent

Room == Len(sent) < MaxSent

PlayerAdd(i, p) == SendPacket([what |-> "PLAYERADD", slot |-> i, who |-> p])

(* Fault: the index has been reset, and the listing is told of one nobody has. *)
PlayerRemoveReset(i) == UNCHANGED sent

PlayerRemove(i) == SendPacket([what |-> "PLAYERREMOVE", slot |-> i])

(* PACKET_INITIAL, accepted. *)
PlayerIn(p) ==
  /\ Room
  /\ Enter(p)
  /\ PlayerAdd(FirstFree, p)
  /\ UNCHANGED <<title, ann, listed, reachable, since, due>>

(* CBaseServer::OnPlayerDisconnect: the index is reported before it is reset. *)
PlayerOut(p) ==
  /\ Room
  /\ Exit(p)
  /\ PlayerRemove(SlotOf(p))
  /\ UNCHANGED <<title, ann, listed, reachable, since, due>>

SetServerName(t) ==
  /\ Room
  /\ title' = t
  /\ SendPacket([what |-> "SETNAME", title |-> t])
  /\ UNCHANGED <<machines, clients, ann, listed, reachable, since, due>>

-----------------------------------------------------------------------------
(* The network and the listing.                                            *)

(* The connection stands, or cannot be made. *)
Resolve ==
  /\ ann.conn = "pending"
  /\ ann' = [ann EXCEPT !.conn = IF reachable THEN "ready" ELSE "broken"]
  /\ sent' = IF reachable THEN sent ELSE <<>>
  /\ UNCHANGED <<tableVars, listed, reachable, since, due>>

Break ==
  /\ ~reachable /\ ann.conn \in {"ready", "up"}
  /\ ann' = [ann EXCEPT !.conn = "broken"]
  /\ sent' = <<>>
  /\ listed' = NotListed
  /\ UNCHANGED <<tableVars, reachable, since, due>>

NetworkChanges ==
  /\ reachable' = ~reachable
  /\ UNCHANGED <<tableVars, ann, sent, listed, since, due>>

Changed(entry, frame) ==
  CASE frame.what = "PLAYERADD" -> [entry EXCEPT !.all[frame.slot] = frame.who]
    [] frame.what = "PLAYERREMOVE" -> [entry EXCEPT !.all[frame.slot] = Nobody]
    [] frame.what = "SETNAME" -> [entry EXCEPT !.title = frame.title]

TakenIn(entry, frame) ==
  IF frame.what = "JOIN" THEN [all |-> frame.all, title |-> frame.title]
  ELSE IF entry = NotListed THEN entry
  ELSE Changed(entry, frame)

Take ==
  /\ ann.conn \in {"ready", "up"} /\ sent # <<>>
  /\ listed' = TakenIn(listed, Head(sent))
  /\ sent' = Tail(sent)
  /\ UNCHANGED <<tableVars, ann, reachable, since, due>>

-----------------------------------------------------------------------------
ListingInit ==
  /\ Init
  /\ title \in Titles
  /\ ann = [state |-> "NONE", old |-> "NONE", retry |-> 0, conn |-> "none"]
  /\ sent = <<>>
  /\ listed = NotListed
  /\ reachable \in BOOLEAN
  /\ since = 0
  /\ due = 0

ListingNext ==
  \/ \E dt \in 1..MaxDelta : Pulse(dt)
  \/ \E p \in Peers : PlayerIn(p) \/ PlayerOut(p)
  \/ \E t \in Titles : SetServerName(t)
  \/ Resolve \/ Break \/ NetworkChanges \/ Take

ListingSpec == ListingInit /\ [][ListingNext]_vars

(* The main loop goes round (OnFrame), an attempt to connect comes to an   *)
(* end, and the listing reads what it gets.                                *)
FairListingSpec ==
  /\ ListingSpec
  /\ WF_vars(\E dt \in 1..MaxDelta : Pulse(dt))
  /\ WF_vars(Resolve)
  /\ WF_vars(Take)

-----------------------------------------------------------------------------
(* Once the listing has taken in what was sent over a connection that      *)
(* stands, it shows the server as it is, whatever came and went while the  *)
(* connection was being made.                                              *)
ListingAgrees ==
  ann.conn = "up" /\ sent = <<>> => listed = [all |-> machines, title |-> title]

(* Also while frames are under way and when the connection is lost and     *)
(* made again, the listing shows no player twice and nobody at the index   *)
(* of somebody it still shows.                                             *)
Seen == INSTANCE Roster WITH
  shown <- IF listed = NotListed THEN NotListed ELSE listed.all, Nothing <- NotListed
ImplementsRoster == Seen!Spec

(* The announcer never waits for a connection that nobody is making or     *)
(* that has gone without its being told, and takes one that stands for one *)
(* that stands.                                                            *)
NeverStuck ==
  /\ ann.state = "CONNECTING" => ann.conn \in {"pending", "ready", "broken"}
  /\ ann.state = "CONNECTED" => ann.conn \in {"up", "broken"}
  /\ ann.conn = "up" => ann.state = "CONNECTED"
  /\ ann.state \in {"NONE", "DISCONNECTED"} => ann.conn \in {"none", "closed"}

(* What is left of the wait, with the time gone by, is the wait.            *)
Owed == due <= since + ann.retry

(* The listing is not flooded: whatever the network does, two attempts to  *)
(* connect are Retry apart, and LongRetry after one that failed at once.   *)
Patient == [][ann'.retry > ann.retry => since >= due]_vars

(* A server whose listing can be reached from some time on is listed again *)
(* and stays so.                                                           *)
Relisted ==
  <>[]reachable => <>[](ann.state = "CONNECTED" /\ listed # NotListed)
=============================================================================
