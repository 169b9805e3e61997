---------------------------- MODULE ServerQuery ----------------------------
(***************************************************************************)
(* What the server browser gets from the server itself                     *)
(* (CUnleashedGameProtocolHandler), next to what the listing shows: at the *)
(* end of every frame the answer to queries is written anew, and a query   *)
(* that comes in at any time, on the network's thread, is answered with    *)
(* the last one, under a lock.                                             *)
(*                                                                         *)
(* A frame is the announcer's pulse and, at its end, UpdateResponse;       *)
(* packets, script handlers and queries come in between.  The rules and    *)
(* the settings in the answer are left out.                                *)
(***************************************************************************)
EXTENDS Listing

CONSTANTS MaxShown,   \* entries in CUGPResponse::m_rgPlayers
          Byte,       \* 2^8
          NoAnswer    \* the response before the first frame

ASSUME QueryAssumption ==
  /\ MaxShown \in Nat \ {0}
  /\ Byte \in Nat /\ Byte >= MaxMachines

VARIABLES response,   \* m_pResponse
          ending      \* the frame has had its pulse

queryVars == <<vars, response, ending>>

Entered == {i \in Slots : machines[i] \in Peers}

(* The first machines that are not the console, as many as there is room   *)
(* for, each with its index.                                               *)
Shown ==
  {<<i, machines[i]>> : i \in {k \in Entered : Cardinality({j \in Entered : j < k}) < MaxShown}}

Answer == [count |-> clients % Byte, players |-> Shown, title |-> title]

(* Fault: nothing is done for a server without clients. *)
UpdateResponseForClients ==
  /\ ending
  /\ response' = IF clients > 0 THEN Answer ELSE response
  /\ ending' = FALSE
  /\ UNCHANGED vars

UpdateResponse ==
  /\ ending
  /\ response' = Answer
  /\ ending' = FALSE
  /\ UNCHANGED vars

BeginFrame ==
  /\ ~ending
  /\ \E dt \in 1..MaxDelta : Pulse(dt)
  /\ ending' = TRUE
  /\ UNCHANGED response

InBetween(A) == A /\ UNCHANGED <<response, ending>>

QueryInit == ListingInit /\ response = NoAnswer /\ ending = FALSE

QueryNext ==
  \/ BeginFrame \/ UpdateResponse
  \/ \E p \in Peers : InBetween(PlayerIn(p)) \/ InBetween(PlayerOut(p))
  \/ \E t \in Titles : InBetween(SetServerName(t))
  \/ InBetween(Resolve) \/ InBetween(Break) \/ InBetween(NetworkChanges) \/ InBetween(Take)

QuerySpec == QueryInit /\ [][QueryNext]_queryVars

(* Frames follow one another, an attempt to connect comes to an end, and   *)
(* the listing reads what it gets.                                         *)
FairQuerySpec ==
  /\ QuerySpec
  /\ WF_queryVars(BeginFrame)
  /\ WF_queryVars(UpdateResponse)
  /\ WF_queryVars(InBetween(Resolve))
  /\ WF_queryVars(InBetween(Take))

-----------------------------------------------------------------------------
(* What the answer has to say: how many clients there are, which they are  *)
(* (or as many of them as fit), and what the server is called.             *)
Truthful(r) ==
  LET there == {<<i, machines[i]>> : i \in Entered}
  IN  /\ r.count = Cardinality(Present)
      /\ r.players \subseteq there
      /\ \/ r.players = there
         \/ Cardinality(r.players) = MaxShown
      /\ r.title = title

(* What UpdateResponse would write is true at any time: the number is a    *)
(* byte of m_CurrentClients, the entries come from the table.              *)
AnswerTruthful == Truthful(Answer)

(* Again and again the server browser is told the truth, also when the     *)
(* last client has left and whether or not the listing can be reached: the *)
(* number, which is a byte and m_CurrentClients, is that of the entries,   *)
(* and neither outlives a client by more than a frame.                     *)
QueryTruthful == []<>(response # NoAnswer /\ Truthful(response))
=============================================================================
