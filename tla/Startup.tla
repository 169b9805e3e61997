------------------------------ MODULE Startup ------------------------------
(***************************************************************************)
(* From the command line to a server that runs: server.xml is read and     *)
(* checked (LoadConfig, ParseConfig), the options of the command line are  *)
(* laid over it (Main.cpp), and the network, the remote console, the HTTP  *)
(* server and the console's machine are started (StartServer).  A step     *)
(* that fails ends the program.                                            *)
(*                                                                         *)
(* Numbers are read as int32_t and stored in the width of their member.    *)
(* What goes into the server unchecked is left out: names, passwords,      *)
(* rules, CVars, modules, versions, distances and the log file, and so are *)
(* the initial resources, whose failures are counted and logged.  Whether  *)
(* the library's calls succeed is not decided here.                        *)
(***************************************************************************)
EXTENDS Integers

CONSTANTS Inputs,                \* the pairs of a server.xml and a command line
          PlayerLimit,           \* 127
          MinStream, MaxStream,  \* 500 and 5000
          Uint16,                \* 2^16
          SizeT,                 \* 2^64, or 2^32 on a 32-bit server
          NotGiven

Methods == {"none", "interval", "replay"}

Config ==
  [max : Int, httpPort : Int, rconPort : Int, sync : Int, stream : Int,
   rcon : BOOLEAN, http : BOOLEAN, method : Methods]

ASSUME StartupAssumption ==
  /\ \A i \in Inputs :
       /\ i.file \in Config
       /\ {i.line.max, i.line.httpPort, i.line.rconPort} \subseteq Int \cup {NotGiven}
  /\ PlayerLimit \in Nat \ {0}
  /\ MinStream \in Nat /\ MaxStream \in Nat
  /\ Uint16 \in Nat \ {0}
  /\ SizeT \in Nat \ {0}
  /\ NotGiven \notin Int

VARIABLES phase,     \* how far the start has come
          given,     \* server.xml and the command line
          settings,  \* the members of CBaseServer they end up in
          exit       \* m_bExit and m_ExitSignal

startVars == <<phase, given, settings, exit>>

Phases == {"loading", "overriding", "starting", "running", "stopped", "failed"}
(* Fault: the cast to uint16_t is left out. *)
ToUint16Wide(n) == n

ToUint16(n) == n % Uint16
ToSize(n) == n % SizeT

Settings ==
  [max : 0..(SizeT - 1), httpPort : 0..(Uint16 - 1), rconPort : 0..(Uint16 - 1),
   sync : 0..(Uint16 - 1), stream : 0..(Uint16 - 1), rcon : BOOLEAN, http : BOOLEAN,
   method : Methods]

StartupTypeOK ==
  /\ phase \in Phases
  /\ given \in Inputs
  /\ settings \in Settings
  /\ exit \in BOOLEAN

-----------------------------------------------------------------------------
Parsed(c, rcon) ==
  [max |-> ToSize(c.max), httpPort |-> ToUint16(c.httpPort), rconPort |-> ToUint16(c.rconPort),
   sync |-> ToUint16(c.sync), stream |-> ToUint16(c.stream), rcon |-> rcon, http |-> c.http,
   method |-> c.method]

(* Fault: the numbers of the file are checked, not the ones stored. *)
AcceptableRaw(c) ==
  /\ c.max >= 1 /\ c.max <= PlayerLimit
  /\ c.rcon => c.rconPort # c.httpPort
  /\ c.stream >= MinStream /\ c.stream <= MaxStream

(* The checks of ParseConfig that end the program. *)
Acceptable(c) ==
  LET s == Parsed(c, c.rcon)
  IN  /\ s.max >= 1 /\ s.max <= PlayerLimit
      /\ s.rcon => s.rconPort # s.httpPort
      /\ s.stream >= MinStream /\ s.stream <= MaxStream

(* A file that is missing or cannot be parsed, or classes of the scripts   *)
(* that cannot be defined, end the program too; a password the remote      *)
(* console cannot use only turns it off.                                   *)
LoadConfig ==
  /\ phase = "loading"
  /\ \/ phase' = "failed" /\ UNCHANGED settings
     \/ /\ Acceptable(given.file)
        /\ phase' = "overriding"
        /\ \E rcon \in {given.file.rcon, FALSE} : settings' = Parsed(given.file, rcon)
  /\ UNCHANGED <<given, exit>>

Or(option, value) == IF option = NotGiven THEN value ELSE option

ApplyCommandLine ==
  /\ phase = "overriding"
  /\ settings' = [settings EXCEPT
                    !.max = ToSize(Or(given.line.max, settings.max)),
                    !.httpPort = ToUint16(Or(given.line.httpPort, settings.httpPort)),
                    !.rconPort = ToUint16(Or(given.line.rconPort, settings.rconPort))]
  /\ phase' = "starting"
  /\ UNCHANGED <<given, exit>>

(* What StartServer of the remote console returns is taken for a failure,  *)
(* what StartServer of the HTTP server returns for a success.              *)
StartServer(network, rconResult, httpResult) ==
  /\ phase = "starting"
  /\ phase' = IF network /\ (settings.rcon => ~rconResult) /\ (settings.http => httpResult)
              THEN "running" ELSE "failed"
  /\ UNCHANGED <<given, settings, exit>>

(* A signal of the operating system, at any time; once the server runs     *)
(* also the console's exit and a script's server.shutdown.                 *)
SignalExit ==
  /\ exit' = TRUE
  /\ UNCHANGED <<phase, given, settings>>

(* What the constructor puts into the settings is written over before     *)
(* anything reads it.                                                      *)
StartupInit ==
  /\ phase = "loading"
  /\ given \in Inputs
  /\ settings = [max |-> 0, httpPort |-> 0, rconPort |-> 0, sync |-> 0, stream |-> 0,
                 rcon |-> FALSE, http |-> TRUE, method |-> "interval"]
  /\ exit = FALSE

StartupNext ==
  \/ LoadConfig \/ ApplyCommandLine \/ SignalExit
  \/ \E network, rconResult, httpResult \in BOOLEAN : StartServer(network, rconResult, httpResult)

-----------------------------------------------------------------------------
(* What a server that runs without options on its command line has been    *)
(* checked for: the admission, the server query (which shows the number of *)
(* players in a byte), the two ports, and the rounds of streaming.         *)
Within(s) ==
  /\ s.max \in 1..PlayerLimit
  /\ s.rcon => s.rconPort # s.httpPort
  /\ s.stream \in MinStream..MaxStream

NoOptions == given.line = [max |-> NotGiven, httpPort |-> NotGiven, rconPort |-> NotGiven]

ConfigChecked == phase \in {"running", "stopped"} /\ NoOptions => Within(settings)
=============================================================================
