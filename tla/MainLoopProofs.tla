--------------------------- MODULE MainLoopProofs ---------------------------
(***************************************************************************)
(* For any configuration and any widths of the numbers: what runs without  *)
(* options has been checked, and until a count of ticks goes round the     *)
(* rounds of streaming and sync come in time.                              *)
(***************************************************************************)
EXTENDS MainLoop, TLAPS

(* What was accepted stays until an option is laid over it.                *)
Accepted ==
  phase \in {"overriding", "starting", "running", "stopped"} /\ NoOptions => Within(settings)

(* A round is due at most an interval after the last one: the time at      *)
(* which it is due and the wait so far are no further apart from now.      *)
Paced ==
  /\ phase \in {"loading", "overriding", "starting"} =>
       nextStream = 0 /\ nextSync = 0 /\ sinceStream = 0 /\ sinceSync = 0
  /\ ~round => /\ nextStream + sinceStream <= ticks + settings.stream
               /\ nextSync + sinceSync <= ticks + settings.sync

(* The first frame that is due serves: no wait outlives it.                *)
Served ==
  ~round =>
    /\ sinceStream <= settings.stream + MaxLag + MaxDelay
    /\ settings.method = "interval" => sinceSync <= settings.sync + MaxLag + MaxDelay

Inv == TypeOK /\ Accepted /\ Paced /\ Served

-----------------------------------------------------------------------------
(* Remainders lie within the modulus, and a number below it is its own.    *)
LEMMA Remainder ==
  ASSUME NEW n \in Int, NEW m \in Nat \ {0}
  PROVE  /\ n % m \in 0..(m - 1)
         /\ 0 <= n /\ n < m => n % m = n
  <1>1. n % m \in 0..(m - 1)
    BY Z3
  <1>2. ASSUME 0 <= n, n < m PROVE n % m = n
    BY <1>2, Z3
  <1>3. QED
    BY <1>1, <1>2

(* Whatever numbers are read, those stored have the width of their member. *)
LEMMA Narrow ==
  ASSUME NEW n \in Int
  PROVE  ToUint16(n) \in 0..(Uint16 - 1) /\ ToSize(n) \in 0..(SizeT - 1)
  BY Remainder, StartupAssumption DEF ToUint16, ToSize

LEMMA ParsedType ==
  ASSUME NEW c \in Config, NEW rcon \in BOOLEAN
  PROVE  Parsed(c, rcon) \in Settings
  <1>1. /\ c.max \in Int /\ c.httpPort \in Int /\ c.rconPort \in Int
        /\ c.sync \in Int /\ c.stream \in Int
        /\ c.http \in BOOLEAN /\ c.method \in Methods
    BY DEF Config
  <1>2. /\ ToSize(c.max) \in 0..(SizeT - 1)
        /\ ToUint16(c.httpPort) \in 0..(Uint16 - 1)
        /\ ToUint16(c.rconPort) \in 0..(Uint16 - 1)
        /\ ToUint16(c.sync) \in 0..(Uint16 - 1)
        /\ ToUint16(c.stream) \in 0..(Uint16 - 1)
    BY <1>1, Narrow
  <1>3. QED
    BY <1>1, <1>2 DEF Parsed, Settings

(* A configuration that is accepted is within the limits, whether or not   *)
(* the remote console is turned off for its password.                      *)
LEMMA AcceptedWithin ==
  ASSUME NEW c \in Config, Acceptable(c), NEW rcon \in {c.rcon, FALSE}
  PROVE  Within(Parsed(c, rcon))
  <1>1. c.rcon \in BOOLEAN
    BY DEF Config
  <1>2. Parsed(c, rcon) \in Settings /\ Parsed(c, c.rcon) \in Settings
    BY <1>1, ParsedType
  <1> DEFINE s == Parsed(c, c.rcon)
             t == Parsed(c, rcon)
  <1>3. /\ t.max = s.max /\ t.httpPort = s.httpPort /\ t.rconPort = s.rconPort
        /\ t.stream = s.stream /\ s.rcon = c.rcon /\ t.rcon = rcon
    BY DEF Parsed
  <1>4. s.max \in Int /\ s.stream \in Int
    BY <1>2 DEF Settings
  <1>5. /\ s.max >= 1 /\ s.max <= PlayerLimit
        /\ s.rcon => s.rconPort # s.httpPort
        /\ s.stream >= MinStream /\ s.stream <= MaxStream
    BY DEF Acceptable
  <1> HIDE DEF s, t
  <1>6. t.max \in 1..PlayerLimit /\ t.stream \in MinStream..MaxStream
    BY <1>3, <1>4, <1>5, StartupAssumption
  <1>7. t.rcon => t.rconPort # t.httpPort
    BY <1>3, <1>5, Zenon
  <1>8. Within(t)
    BY <1>6, <1>7 DEF Within
  <1>9. QED
    BY <1>8 DEF t

-----------------------------------------------------------------------------
LEMMA InitInv ==
  Init => Inv
  <1> SUFFICES ASSUME Init PROVE Inv
    OBVIOUS
  <1>1. StartupTypeOK
    <2>1. 0 \in 0..(SizeT - 1) /\ 0 \in 0..(Uint16 - 1)
      BY StartupAssumption
    <2>2. settings \in Settings
      BY <2>1, Zenon DEF Init, StartupInit, Settings, Methods
    <2>3. QED
      BY <2>2, Zenon DEF Init, StartupInit, StartupTypeOK, Phases
  <1>2. TypeOK
    <2>1. 0 \in Ticks
      BY LoopAssumption DEF Ticks
    <2>2. QED
      BY <1>1, <2>1, Zenon DEF Init, TypeOK
  <1>3. Accepted
    BY DEF Init, StartupInit, Accepted
  <1>4. settings.stream = 0 /\ settings.sync = 0
    BY DEF Init, StartupInit
  <1>5. Paced /\ Served
    BY <1>2, <1>4, LoopAssumption DEF Init, Paced, Served, TypeOK, Ticks
  <1>6. QED
    BY <1>2, <1>3, <1>5 DEF Inv

(* The steps of the start.                                                 *)
LEMMA LoadConfigInv ==
  ASSUME Inv, LoadConfig, UNCHANGED loopVars
  PROVE  Inv'
  <1> USE DEF loopVars
  <1>1. given.file \in Config /\ given \in Inputs
    BY StartupAssumption DEF Inv, TypeOK, StartupTypeOK
  <1>2. given.file.rcon \in BOOLEAN
    BY <1>1 DEF Config
  <1>3. nextStream = 0 /\ nextSync = 0 /\ sinceStream = 0 /\ sinceSync = 0
    BY DEF Inv, Paced, LoadConfig
  <1>4. CASE phase' = "failed" /\ UNCHANGED settings
    <2>1. TypeOK'
      BY <1>4 DEF Inv, TypeOK, StartupTypeOK, LoadConfig, Phases
    <2>2. Accepted' /\ Paced' /\ Served'
      BY <1>4 DEF Inv, Accepted, Paced, Served, LoadConfig, Within, NoOptions
    <2>3. QED
      BY <2>1, <2>2 DEF Inv
  <1>5. CASE /\ Acceptable(given.file) /\ phase' = "overriding"
             /\ \E rcon \in {given.file.rcon, FALSE} : settings' = Parsed(given.file, rcon)
    <2>1. PICK rcon \in {given.file.rcon, FALSE} : settings' = Parsed(given.file, rcon)
      BY <1>5
    <2>2. settings' \in Settings /\ Within(settings')
      BY <1>1, <1>2, <1>5, <2>1, ParsedType, AcceptedWithin
    <2>3. TypeOK'
      BY <1>5, <2>2 DEF Inv, TypeOK, StartupTypeOK, LoadConfig, Phases
    <2>4. Accepted'
      BY <2>2 DEF Accepted, Within
    <2>5. Paced' /\ Served'
      BY <1>3, <2>2, LoopAssumption, StartupAssumption DEF Inv, TypeOK, Paced, Served, Settings, Ticks
    <2>6. QED
      BY <2>3, <2>4, <2>5 DEF Inv
  <1>6. QED
    BY <1>4, <1>5 DEF LoadConfig

LEMMA ApplyCommandLineInv ==
  ASSUME Inv, ApplyCommandLine, UNCHANGED loopVars
  PROVE  Inv'
  <1> USE DEF loopVars
  <1>1. /\ given \in Inputs /\ settings \in Settings
        /\ {given.line.max, given.line.httpPort, given.line.rconPort} \subseteq Int \cup {NotGiven}
    BY StartupAssumption DEF Inv, TypeOK, StartupTypeOK
  <1>2. /\ settings.max \in 0..(SizeT - 1)
        /\ settings.httpPort \in 0..(Uint16 - 1) /\ settings.rconPort \in 0..(Uint16 - 1)
    BY <1>1 DEF Settings
  <1>3. /\ Or(given.line.max, settings.max) \in Int
        /\ Or(given.line.httpPort, settings.httpPort) \in Int
        /\ Or(given.line.rconPort, settings.rconPort) \in Int
    BY <1>1, <1>2 DEF Or
  <1> DEFINE max == ToSize(Or(given.line.max, settings.max))
             httpPort == ToUint16(Or(given.line.httpPort, settings.httpPort))
             rconPort == ToUint16(Or(given.line.rconPort, settings.rconPort))
  <1>4. /\ max \in 0..(SizeT - 1)
        /\ httpPort \in 0..(Uint16 - 1) /\ rconPort \in 0..(Uint16 - 1)
    BY <1>3, Narrow
  <1>5. NoOptions => max = settings.max /\ httpPort = settings.httpPort /\ rconPort = settings.rconPort
    <2> SUFFICES ASSUME NoOptions
                 PROVE  max = settings.max /\ httpPort = settings.httpPort /\ rconPort = settings.rconPort
      OBVIOUS
    <2>1. given.line.max = NotGiven /\ given.line.httpPort = NotGiven /\ given.line.rconPort = NotGiven
      BY DEF NoOptions
    <2>2. max = ToSize(settings.max)
      BY <2>1 DEF Or
    <2>3. httpPort = ToUint16(settings.httpPort) /\ rconPort = ToUint16(settings.rconPort)
      BY <2>1 DEF Or
    <2>4. ToSize(settings.max) = settings.max
      BY <1>2, StartupAssumption, Z3 DEF ToSize
    <2>5. ToUint16(settings.httpPort) = settings.httpPort /\ ToUint16(settings.rconPort) = settings.rconPort
      BY <1>2, StartupAssumption, Z3 DEF ToUint16
    <2>6. QED
      BY <2>2, <2>3, <2>4, <2>5
  <1>6. settings' = [settings EXCEPT !.max = max, !.httpPort = httpPort, !.rconPort = rconPort]
    BY DEF ApplyCommandLine
  <1> HIDE DEF max, httpPort, rconPort
  <1>7. settings' \in Settings /\ settings'.sync = settings.sync /\ settings'.stream = settings.stream
    BY <1>1, <1>4, <1>6 DEF Settings
  <1>8. TypeOK'
    BY <1>7 DEF Inv, TypeOK, StartupTypeOK, ApplyCommandLine, Phases
  <1>9. Accepted'
    <2> SUFFICES ASSUME NoOptions PROVE Within(settings)'
      BY DEF Accepted, ApplyCommandLine, NoOptions
    <2>1. Within(settings)
      BY DEF Inv, Accepted, ApplyCommandLine
    <2>2. settings' = settings
      BY <1>1, <1>5, <1>6 DEF Settings
    <2>3. QED
      BY <2>1, <2>2 DEF Within
  <1>10. nextStream = 0 /\ nextSync = 0 /\ sinceStream = 0 /\ sinceSync = 0
    BY DEF Inv, Paced, ApplyCommandLine
  <1>11. Paced' /\ Served'
    BY <1>7, <1>10, LoopAssumption, StartupAssumption DEF Inv, TypeOK, Paced, Served, Settings, Ticks
  <1>12. QED
    BY <1>8, <1>9, <1>11 DEF Inv

LEMMA StartServerInv ==
  ASSUME Inv, NEW n \in BOOLEAN, NEW r \in BOOLEAN, NEW h \in BOOLEAN,
         StartServer(n, r, h), UNCHANGED loopVars
  PROVE  Inv'
  <1>1. phase = "starting" /\ phase' \in {"running", "failed"} /\ UNCHANGED <<given, settings, exit>>
    BY DEF StartServer
  <1>2. TypeOK'
    BY <1>1 DEF Inv, TypeOK, StartupTypeOK, Phases, loopVars
  <1>3. Accepted'
    BY <1>1 DEF Inv, Accepted, Within, NoOptions
  <1>4. Paced' /\ Served'
    BY <1>1 DEF Inv, Paced, Served, loopVars
  <1>5. QED
    BY <1>2, <1>3, <1>4 DEF Inv

LEMMA SignalExitInv ==
  ASSUME Inv, SignalExit, UNCHANGED loopVars
  PROVE  Inv'
  BY DEF Inv, TypeOK, StartupTypeOK, Accepted, Paced, Served, Within, NoOptions, SignalExit, loopVars

-----------------------------------------------------------------------------
(* The steps of the loop.                                                  *)
LEMMA LastFrameInv ==
  ASSUME Inv, LastFrame
  PROVE  Inv'
  BY DEF Inv, TypeOK, StartupTypeOK, Accepted, Paced, Served, Within, NoOptions, LastFrame,
         loopVars, Phases

LEMMA ClientsChangeInv ==
  ASSUME Inv, ClientsChange
  PROVE  Inv'
  <1> USE DEF ClientsChange, startVars
  <1>1. TypeOK'
    <2>1. 0 \in Ticks
      BY LoopAssumption DEF Ticks
    <2>2. playing' \in BOOLEAN
      BY Zenon
    <2>3. QED
      BY <2>1, <2>2, Zenon DEF Inv, TypeOK, StartupTypeOK
  <1>2. Accepted'
    BY DEF Inv, Accepted, Within, NoOptions
  <1>3. /\ ticks \in Nat /\ nextStream \in Nat /\ nextSync \in Nat
        /\ sinceStream \in Nat /\ sinceSync \in Nat
        /\ settings.stream \in Nat /\ settings.sync \in Nat
    BY LoopAssumption, StartupAssumption DEF Inv, TypeOK, StartupTypeOK, Settings, Ticks
  <1>4. Paced' /\ Served'
    BY <1>3, LoopAssumption DEF Inv, Paced, Served
  <1>5. QED
    BY <1>1, <1>2, <1>4 DEF Inv

(* A wait that is not served grows with the ticks and no faster, and one   *)
(* that is served starts again with the time since.                        *)
LEMMA WaitBounds ==
  ASSUME NEW w \in Ticks, NEW done \in BOOLEAN, NEW b \in Nat, NEW a \in Nat, a < TickMod
  PROVE  /\ Wait(w, done, b, a) \in Ticks
         /\ done => Wait(w, done, b, a) <= a
         /\ Wait(w, done, b, a) <= w + b + a
         /\ ~playing => Wait(w, done, b, a) = 0
  BY LoopAssumption DEF Wait, Ticks

LEMMA FrameInv ==
  ASSUME Inv, NEW lag \in 0..MaxLag, NEW delay \in 1..MaxDelay, Frame(lag, delay)
  PROVE  Inv'
  <1>1. /\ ticks \in Ticks /\ nextStream \in Ticks /\ nextSync \in Ticks
        /\ sinceStream \in Ticks /\ sinceSync \in Ticks
        /\ settings.stream \in Nat /\ settings.sync \in Nat /\ round \in BOOLEAN
    BY StartupAssumption DEF Inv, TypeOK, StartupTypeOK, Settings
  <1>2. lag \in Nat /\ delay \in Nat /\ lag <= MaxLag /\ delay <= MaxDelay
    BY LoopAssumption
  <1>3. UNCHANGED startVars /\ UNCHANGED playing /\ phase = "running"
    BY DEF Frame
  <1>4. nextStream' \in Ticks /\ nextSync' \in Ticks /\ ticks' \in Ticks
    <2>1. (ticks + lag + delay) % TickMod \in Ticks
      BY <1>1, <1>2, Remainder, LoopAssumption DEF Ticks
    <2>2. (ticks + settings.stream) % TickMod \in Ticks
      BY <1>1, LoopAssumption, Z3 DEF Ticks
    <2>3. ((ticks + lag) + settings.sync) % TickMod \in Ticks
      BY <1>1, <1>2, LoopAssumption, Z3 DEF Ticks
    <2>4. QED
      BY <1>1, <2>1, <2>2, <2>3, Zenon DEF Frame, NextStream, NextSync
  <1>5. lag + delay \in Nat /\ lag + delay < TickMod /\ delay < TickMod /\ 0 \in Nat
    BY <1>2, LoopAssumption
  <1>6. StreamDue \in BOOLEAN /\ SyncDue(lag) \in BOOLEAN
    BY Zenon DEF StreamDue, SyncDue
  <1>7. /\ sinceStream' \in Ticks
        /\ StreamDue => sinceStream' <= lag + delay
        /\ sinceStream' <= sinceStream + 0 + (lag + delay)
        /\ ~playing => sinceStream' = 0
    BY <1>1, <1>5, <1>6, WaitBounds DEF Frame
  <1>8. /\ sinceSync' \in Ticks
        /\ SyncDue(lag) => sinceSync' <= delay
        /\ sinceSync' <= sinceSync + lag + delay
        /\ ~playing => sinceSync' = 0
    BY <1>1, <1>2, <1>5, <1>6, WaitBounds DEF Frame
  <1>9. TypeOK'
    <2>1. round' \in BOOLEAN
      BY Zenon DEF Frame
    <2>2. QED
      BY <1>3, <1>4, <1>7, <1>8, <2>1 DEF Inv, TypeOK, StartupTypeOK, startVars
  <1>10. Accepted'
    BY <1>3 DEF Inv, Accepted, Within, NoOptions, startVars
  <1>11. ASSUME ~round'
         PROVE  /\ ~round /\ ~GoesRound(lag, delay)
                /\ ticks' = ticks + lag + delay
                /\ (ticks + lag) % TickMod = ticks + lag
                /\ nextStream' = IF StreamDue THEN ticks + settings.stream ELSE nextStream
                /\ nextSync' = IF SyncDue(lag) THEN ticks + lag + settings.sync ELSE nextSync
    <2>1. ~round /\ ~GoesRound(lag, delay)
      BY <1>11 DEF Frame
    <2>2. ticks \in Nat /\ ticks + lag + delay < TickMod /\ ticks + lag + delay \in Nat
      BY <1>1, <1>2, <2>1, LoopAssumption DEF GoesRound, Ticks
    <2>3. ticks' = ticks + lag + delay
      BY <2>2, LoopAssumption, Z3 DEF Frame
    <2>4. (ticks + lag) % TickMod = ticks + lag
      BY <1>2, <2>2, LoopAssumption, Z3
    <2>5. nextStream' = IF StreamDue THEN ticks + settings.stream ELSE nextStream
      <3>1. StreamDue => (ticks + settings.stream) % TickMod = ticks + settings.stream
        BY <1>1, <2>1, <2>2, LoopAssumption, Z3 DEF GoesRound
      <3>2. QED
        BY <3>1, Zenon DEF Frame, NextStream
    <2>6. nextSync' = IF SyncDue(lag) THEN ticks + lag + settings.sync ELSE nextSync
      <3>1. SyncDue(lag) => ((ticks + lag) + settings.sync) % TickMod = ticks + lag + settings.sync
        BY <1>1, <1>2, <2>1, <2>2, LoopAssumption, Z3 DEF GoesRound
      <3>2. QED
        BY <3>1, Zenon DEF Frame, NextSync
    <2>7. QED
      BY <2>1, <2>3, <2>4, <2>5, <2>6
  <1>12. settings' = settings /\ phase' = "running"
    BY <1>3 DEF startVars
  <1>13. /\ ticks \in Nat /\ nextStream \in Nat /\ nextSync \in Nat
         /\ sinceStream \in Nat /\ sinceSync \in Nat
         /\ sinceStream' \in Nat /\ sinceSync' \in Nat
    BY <1>1, <1>7, <1>8, LoopAssumption DEF Ticks
  <1>14. Paced'
    <2> SUFFICES ASSUME ~round'
                 PROVE  /\ nextStream' + sinceStream' <= ticks' + settings.stream
                        /\ nextSync' + sinceSync' <= ticks' + settings.sync
      BY <1>12 DEF Paced
    <2>1. /\ nextStream + sinceStream <= ticks + settings.stream
          /\ nextSync + sinceSync <= ticks + settings.sync
      BY <1>11 DEF Inv, Paced
    <2>2. nextStream' + sinceStream' <= ticks' + settings.stream
      BY <1>1, <1>2, <1>7, <1>11, <1>13, <2>1
    <2>3. nextSync' + sinceSync' <= ticks' + settings.sync
      BY <1>1, <1>2, <1>8, <1>11, <1>13, <2>1
    <2>4. QED
      BY <2>2, <2>3
  <1>15. Served'
    <2> SUFFICES ASSUME ~round'
                 PROVE  /\ sinceStream' <= settings.stream + MaxLag + MaxDelay
                        /\ settings.method = "interval" =>
                             sinceSync' <= settings.sync + MaxLag + MaxDelay
      BY <1>12 DEF Served
    <2>1. /\ nextStream + sinceStream <= ticks + settings.stream
          /\ nextSync + sinceSync <= ticks + settings.sync
          /\ (ticks + lag) % TickMod = ticks + lag
      BY <1>11 DEF Inv, Paced
    <2>2. sinceStream' <= settings.stream + MaxLag + MaxDelay
      <3>1. StreamDue \/ ~playing \/ ticks <= nextStream
        BY <1>13 DEF StreamDue
      <3>2. QED
        BY <1>1, <1>2, <1>7, <1>13, <2>1, <3>1, LoopAssumption
    <2>3. ASSUME settings.method = "interval"
          PROVE  sinceSync' <= settings.sync + MaxLag + MaxDelay
      <3>1. SyncDue(lag) \/ ~playing \/ ticks + lag <= nextSync
        BY <1>2, <1>13, <2>1, <2>3 DEF SyncDue
      <3>2. QED
        BY <1>1, <1>2, <1>8, <1>13, <2>1, <3>1, LoopAssumption
    <2>4. QED
      BY <2>2, <2>3
  <1>16. QED
    BY <1>9, <1>10, <1>14, <1>15 DEF Inv

-----------------------------------------------------------------------------
LEMMA Inductive ==
  Inv /\ [Next]_vars => Inv'
  <1> SUFFICES ASSUME Inv, [Next]_vars PROVE Inv'
    OBVIOUS
  <1>1. CASE Starting
    <2>1. StartupNext /\ UNCHANGED loopVars
      BY <1>1 DEF Starting
    <2>2. CASE LoadConfig
      BY <2>1, <2>2, LoadConfigInv
    <2>3. CASE ApplyCommandLine
      BY <2>1, <2>3, ApplyCommandLineInv
    <2>4. CASE SignalExit
      BY <2>1, <2>4, SignalExitInv
    <2>5. ASSUME NEW n \in BOOLEAN, NEW r \in BOOLEAN, NEW h \in BOOLEAN, StartServer(n, r, h)
          PROVE  Inv'
      BY <2>1, <2>5, StartServerInv
    <2>6. QED
      BY <2>1, <2>2, <2>3, <2>4, <2>5 DEF StartupNext
  <1>2. ASSUME NEW lag \in 0..MaxLag, NEW delay \in 1..MaxDelay, Frame(lag, delay)
        PROVE  Inv'
    BY <1>2, FrameInv
  <1>3. CASE LastFrame
    BY <1>3, LastFrameInv
  <1>4. CASE ClientsChange
    BY <1>4, ClientsChangeInv
  <1>5. CASE UNCHANGED vars
    BY <1>5 DEF Inv, TypeOK, StartupTypeOK, Accepted, Paced, Served, Within, NoOptions,
                vars, startVars, loopVars
  <1>6. QED
    BY <1>1, <1>2, <1>3, <1>4, <1>5 DEF Next, AnyFrame

LEMMA Invariant ==
  Spec => []Inv
  BY InitInv, Inductive, PTL DEF Spec

(* Settings are stored in the width of their members, times in that of the *)
(* tick count, whatever numbers the file and the command line have         *)
(* (ParseConfig and Main.cpp).                                             *)
THEOREM TypeCorrect ==
  Spec => []TypeOK
  <1>1. Inv => TypeOK
    BY DEF Inv
  <1>2. QED
    BY <1>1, Invariant, PTL

(* A server that runs without options has at most PlayerLimit players, two *)
(* ports and a streaming interval within its limits (ParseConfig).         *)
THEOREM ConfigIsChecked ==
  Spec => []ConfigChecked
  <1>1. Inv => ConfigChecked
    BY DEF Inv, Accepted, ConfigChecked
  <1>2. QED
    BY <1>1, Invariant, PTL

(* Until a count of ticks goes round, clients that play wait no longer     *)
(* than an interval and a frame (OnFrame, SendAllSync).                    *)
THEOREM RoundsOnTime ==
  Spec => []OnTime
  <1>1. Inv => OnTime
    BY DEF Inv, Served, OnTime
  <1>2. QED
    BY <1>1, Invariant, PTL
=============================================================================
