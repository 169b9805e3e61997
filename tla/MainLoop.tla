------------------------------ MODULE MainLoop ------------------------------
(***************************************************************************)
(* The main loop of a server that Startup has started: frame after frame   *)
(* (OnFrame) until it is told to exit, and in a frame, while there are     *)
(* clients, a round of streaming and a round of sync packets when their    *)
(* times have come (UpdateStreaming, SendAllSync).                         *)
(*                                                                         *)
(* Times are 32-bit counts of milliseconds that go round; the count starts *)
(* anywhere, because it is the computer's.  A frame reads it twice: on its *)
(* way in for the streaming, and after the streaming for the sync.  What   *)
(* the other parts do in a frame is in their own modules.                  *)
(***************************************************************************)
EXTENDS Startup

CONSTANTS TickMod,   \* 2^32
          MaxLag,    \* bound of the model: from a frame's start to its sync
          MaxDelay   \* bound of the model: from there to the next frame

ASSUME LoopAssumption ==
  /\ TickMod \in Nat \ {0}
  /\ MaxLag \in Nat
  /\ MaxDelay \in Nat \ {0}
  /\ MaxLag + MaxDelay < TickMod

VARIABLES ticks,        \* OS::GetTicks()
          nextStream,   \* m_uiNextStreamTicks
          nextSync,     \* m_uiNextSendSyncTicks
          playing,      \* m_CurrentClients > 0
          sinceStream,  \* time the clients have waited for a round of streaming
          sinceSync,    \* time they have waited for a round of sync
          round         \* a count of ticks has gone round since the start

loopVars == <<ticks, nextStream, nextSync, playing, sinceStream, sinceSync, round>>
vars == <<startVars, loopVars>>

Ticks == 0..(TickMod - 1)

TypeOK ==
  /\ StartupTypeOK
  /\ ticks \in Ticks /\ nextStream \in Ticks /\ nextSync \in Ticks
  /\ playing \in BOOLEAN
  /\ sinceStream \in Ticks /\ sinceSync \in Ticks
  /\ round \in BOOLEAN

-----------------------------------------------------------------------------
StreamDue == playing /\ ticks > nextStream
SyncDue(lag) ==
  playing /\ settings.method = "interval" /\ (ticks + lag) % TickMod > nextSync

NextStream == IF StreamDue THEN (ticks + settings.stream) % TickMod ELSE nextStream

(* Fault: the time of the next sync is put off in every frame. *)
NextSyncEveryFrame(lag) == ((ticks + lag) + settings.sync) % TickMod

NextSync(lag) ==
  IF SyncDue(lag) THEN ((ticks + lag) + settings.sync) % TickMod ELSE nextSync

(* How long the clients have waited when the next frame starts. *)
Wait(waited, done, before, after) ==
  IF ~playing THEN 0
  ELSE IF done THEN after
  ELSE IF waited + before + after < TickMod THEN waited + before + after
  ELSE TickMod - 1

GoesRound(lag, delay) ==
  \/ ticks + lag + delay >= TickMod
  \/ StreamDue /\ ticks + settings.stream >= TickMod
  \/ SyncDue(lag) /\ ticks + lag + settings.sync >= TickMod

(* Fault: only a frame that has clients to serve looks for the exit. *)
ExitSeenPlaying == exit /\ playing

ExitSeen == exit

(* CBaseServer::OnFrame, and the delay after it. *)
Frame(lag, delay) ==
  /\ phase = "running" /\ ~ExitSeen
  /\ ticks' = (ticks + lag + delay) % TickMod
  /\ nextStream' = NextStream
  /\ nextSync' = NextSync(lag)
  /\ sinceStream' = Wait(sinceStream, StreamDue, 0, lag + delay)
  /\ sinceSync' = Wait(sinceSync, SyncDue(lag), lag, delay)
  /\ round' = (round \/ GoesRound(lag, delay))
  /\ UNCHANGED <<startVars, playing>>

(* OnFrame returns false: MainLoop ends, and ShutDown follows. *)
LastFrame ==
  /\ phase = "running" /\ ExitSeen
  /\ phase' = "stopped"
  /\ UNCHANGED <<given, settings, exit, loopVars>>

(* The first client comes, or the last one goes. *)
ClientsChange ==
  /\ phase = "running"
  /\ playing' = ~playing
  /\ sinceStream' = 0 /\ sinceSync' = 0
  /\ UNCHANGED <<startVars, ticks, nextStream, nextSync, round>>

-----------------------------------------------------------------------------
Init ==
  /\ StartupInit
  /\ ticks \in Ticks
  /\ nextStream = 0 /\ nextSync = 0
  /\ playing = FALSE
  /\ sinceStream = 0 /\ sinceSync = 0
  /\ round = FALSE

Starting == StartupNext /\ UNCHANGED loopVars
AnyFrame == \E lag \in 0..MaxLag, delay \in 1..MaxDelay : Frame(lag, delay)

Next == Starting \/ AnyFrame \/ LastFrame \/ ClientsChange

Spec == Init /\ [][Next]_vars

(* The program goes on: neither its start nor its main loop waits for      *)
(* anybody.                                                                *)
FairSpec ==
  /\ Spec
  /\ WF_vars(UNCHANGED loopVars /\ (LoadConfig \/ ApplyCommandLine
       \/ \E network, rconResult, httpResult \in BOOLEAN :
            StartServer(network, rconResult, httpResult)))
  /\ WF_vars(AnyFrame)
  /\ WF_vars(LastFrame)

-----------------------------------------------------------------------------
(* Clients that play wait no longer than the interval and a frame for      *)
(* streaming and sync, until a count of ticks has gone round: whoever      *)
(* comes to an empty server included.                                      *)
OnTime ==
  ~round =>
    /\ sinceStream <= settings.stream + MaxLag + MaxDelay
    /\ settings.method = "interval" => sinceSync <= settings.sync + MaxLag + MaxDelay

(* A server told to exit stops, also when it was told while it started.    *)
ExitStops == exit ~> phase \in {"stopped", "failed"}

(* With syncinterval given, clients that play get sync packets every        *)
(* syncinterval, however long the computer has been on.                    *)
SyncEveryInterval ==
  playing /\ settings.method = "interval" => sinceSync <= settings.sync + MaxLag + MaxDelay
=============================================================================
