# Verification of the Mafia Connected server

TLA+ models of the server in `src/Server`, the TLC runs that check them on
small instances, and TLAPS proofs about them for every value of their
constants. The server is the only program of the repository with logic of its
own; the game clients, the network library (`CNetObjectMgr`, `CNetMachines`,
the connections), the scripting library and the web socket are not in it. They
appear in the models as the server's code uses them, and `PROJECT.json` marks
each such definition `external`.

1. [The system](#the-system)
2. [The modules](#the-modules)
3. [The runs](#the-runs)
4. [Fairness](#fairness)
5. [The proofs](#the-proofs)
6. [Where code and words disagree](#where-code-and-words-disagree)
7. [Not modelled](#not-modelled)
8. [Plan](#plan)

To repeat a check: `tlc -config SeatRequests.cfg MCSeatRequests.tla`, and
`tlapm SeatRequestsProofs.tla`.

## The system

The server is one thread that runs frames (`CBaseServer::OnFrame`). A frame
handles the packets that have come in, then, while there are clients, a round
of streaming and a round of sync when their times have come. Handlers run to
their end, so the concurrency is not among threads. It is between the server
and the games of its clients, over connections with a reliable, ordered part
(requests, answers, announcements) and an unreliable part (sync packets), and
between handlers, scripts and disconnections that come in any order. Every
object is *synced* by at most one client, whose game decides what happens to
it, and *created for* those clients that are near it.

| Component | State | Operations | Hard because |
|---|---|---|---|
| **Seats** `Elements/ServerHuman`, `ServerVehicle`, `MafiaServer` | each ped's vehicle, seat and time of the last decision; each vehicle's table of probable occupants | USEVEHICLE_REQUEST (enter, exit), sync packets, creation, removal, change of syncer | one fact kept twice and written by two paths; sync packets from before a decision arrive after it; 32-bit ages |
| **Sessions** `BaseServer` | machine table, count of clients, names, joined, streaming | OnPlayerConnect, PACKET_INITIAL, JOIN, SETSTREAMING, KICK, OnPlayerDisconnect | the end may come at any point; indices and connections are used again; the count is kept apart from the table |
| **Ownership** `Peer2PeerSystem`, `BaseServer`, `MafiaServerManager` | objects, who has them, who syncs them, the clients' players, `m_EnteringExitingVehicle` | registration of traffic and actors, scripts' creations, the end of a resource, DELETETHING, REQUESTSYNCER, ENTERING, ENTERED, EXITING, EXITED, JACKVEHICLE, streaming, cleanup | many clients register and delete the same things; pointers to clients that leave |
| **Attributes** `ServerEntity`, `ServerVehicle`, `ServerHuman`, settings of `BaseServer` and `MafiaServer` | the server's copy of health, engine, fuel, skin, weapon and so on; game mode, map, CVars | setters of scripts, sync packets both ways, creation packets, CHANGEWEAP, handshake | a report and a set cross; a set is skipped when it changes nothing; one value travels two ways |
| **Server listing** `ServerListing` | state, connection, time to retry | Pulse, callbacks, PlayerAdd, PlayerRemove, SetName | state changes inside calls; snapshot against changes |
| **Start-up** `Main`, `BaseServer`, `ServerConfiguration` | settings, exit flags | LoadConfig, options, StartServer, signals | numbers are narrowed; options come after the checks; a signal at any time |
| **Frame loop** `BaseServer` | next times of streaming and sync | OnFrame, MainLoop, ShutDown | 32-bit ticks that go round |
| **Bans, admission** `BanList`, `BaseServer` | list of bans with expiry, the oldest version allowed | ban, lift, look up (which erases what has ended), PACKET_INITIAL | 32-bit times; scripts ban while clients connect |
| **Query** `UnleashedGameProtocolHandler` | the answer to queries | UpdateResponse at the end of a frame; queries on another thread, under a lock | a copy that is stale, cut to a byte and to a number of entries |
| Relays `MafiaServer` | none but the above | shots, hits, deaths, reloads | who may send what about which ped |
| Chat, commands, events | none | relays, script events | - |
| Remote console `RConServer` | connections, password | commands | input from other threads |
| Resources `ServerResourceMgr`, `ServerManager`; `Utils/VectorTools` | which resources run; none | start, stop with what they created; geometry | - |

How they interact: a session's machine is the client that the seats', the
ownership's and the attributes' syncers name; its handshake asks the list of bans
and carries the settings; its end runs the cleanup of
Ownership and the announcements of Session and Listing. Streaming (a round of
the frame loop) is what creates and takes away objects and finds syncers. The
frame loop sends the sync packets that Attributes counts on. The removal of a
vehicle that Ownership decides is what Seats has to survive.

What makes each correct, in the order of importance the work follows:

- **Seats**: no two peds in one seat; a decision is not undone by a report from
  before it; games and server differ no longer than an answer takes; the table names
  only peds that exist.
- **Sessions**: count, table, names and what every client knows agree whenever
  and however a session ends; on its way there every client sees players come and go
  one at a time, nobody twice.
- **Ownership**: nobody's objects are nobody's; an actor of the map is never
  there twice; nothing names a client that has left.
- **Attributes**: everybody's copies agree in the end and go on agreeing, and scripts'
  words count.
- **Listing, query**: what is shown is the server, and a listing lost is made again.
- **Bans**: a ban lasts as long as asked, and nobody comes in from a host under one.
- **Start-up, frames**: what was checked is what runs; rounds come in time; a
  server told to stop stops.

The list of hazards, each at its line, with the properties that watch it, is in
`PROJECT.json`.

## The modules

The lines each definition stands for are in `PROJECT.json` under `map`. Definitions
keep the source's names. A definition whose comment begins with "Fault:" is not part of
the model: it is a plausible mistake in the definition after it, which the runs
are shown to notice.

| Module | What it is | Uses |
|---|---|---|
| `VehicleSeats` | records, tables, ages of decisions, every operation on them | - |
| `SeatRequests` | `VehicleSeats` with games, answers and sync packets | `VehicleSeats`, implements `Seating` |
| `Seating` | abstract: who sits where, without packets, tables and clocks | - |
| `Session` | links, machine table, count, names, announcements, what clients know | implements `Machines`, and `Roster` for every client |
| `Machines` | abstract: a table with first free index, and a count | - |
| `Roster` | abstract: what anybody sees who is told of the machines, one change at a time | - |
| `Bans` | the list of bans and the tick count | - |
| `Admission` | handshakes that ask the bans and compare versions | `Session`, `Bans` |
| `Listing` | the announcer, its connection and the listing, beside `Machines` | `Machines`, implements `Roster` |
| `ServerQuery` | the answer to queries, beside the listing, in frames | `Listing` |
| `Ownership` | objects, who has them, who syncs them, whose resource they are | - |
| `Attributes` | one attribute of one element, or of the server, and all its copies | - |
| `Startup` | from `server.xml` and command line to a server that runs | - |
| `MainLoop` | frames, times of streaming and sync, the exit | `Startup` |
| `MC...` | the small instances for TLC | |
| `...Proofs` | the theorems; `CommonProofs` has the lemmas on least elements, on the first so many of a set and on where a queue of packets leads a copy | |

### Seats

`VehicleSeats` has the record of each ped (`rec`: `m_nVehicleNetworkIndex`,
`m_nSeat`), the table of each vehicle (`slot`: `m_pProbableOccupants`), and the
age of the last decision (`age`). `ReadSyncPacket`, `EnterVehicleSeat` and
`LeaveVehicleSeat` are the functions of those names; `ApproveEnter` and
`ApproveExit` are the handler of MAFIAPACKET_HUMAN_USEVEHICLE_REQUEST, the
change of syncer for a driver included; `CreateCivilian` is the registration of
traffic, which reads a creation packet and then a sync packet. The reported
vehicle and seat are arbitrary here. Ages wrap at `TickMod` and the flag
`m_bVehicleStateSet` is never reset, so a decision's two seconds come back each
time the tick count has gone round; the model does that too.

`SeatRequests` adds what a ped's game shows (`view`), the answers and the sync
packets under way. Of the client, which is elsewhere, it assumes what the
comments of the server say: it moves a ped only on an answer, throws out the
ped whose seat is taken, takes peds out of vehicles that are deleted, and
reports what it shows. The server's answers go to everyone
(`SendPacketExcluding` with nobody excluded), so one view per ped, that of its
syncer, is followed. Answers take effect within `Down` ticks and sync packets
live for at most `Up`; `RoundTrip == Down + Up < Authority` is the premise under
which the window of VEHICLE_STATE_AUTHORITY_MS does its work, and it is
sharp: with `Authority = 2`, `Down = Up = 1`, TLC finds a report that undoes a
decision. A vehicle's id is not given out again while something still names the
vehicle before. The syncer of a ped does not change while it is followed.

`Seating` is the promise. The mapping is a ped's place as the server has it,
or nowhere when the vehicle is gone: a sync packet has to map to a stutter, a
request to a `Sit` or `Rise`.

### Sessions

`Session` follows a connection from `Connect` through `Initial` (with the set of
checks the request fails; the first one in the code's order is the reason), to
the end by `Lose`, by `Kick`, or by `Close` when a refusal takes effect.
`OnPlayerDisconnect` is the function with its early returns. `inbox` and
`roster` are what the other clients are told and have taken in. Packets of a
peer that is being disconnected are not handled any more (the library). A
client whose nickname was accepted is assumed not to give NICKNAMEINUSE as the
reason of a PACKET_KICK: the server would keep its machine.

`Admission` gives two of the checks their contents. `BanOf` is the look-up in
`Bans` by the address without the port, which also erases a ban that has ended;
`IsVersionAllowed` keeps the nesting of the code, and `VersionsInOrder` proves
that it is the order of the four numbers. Scripts ban, lift and look up at any
time between packets. `left` is a history variable: what remains of the ban as it
was asked for, counted down by ticks and not by the sums of the code. `BansExact`
compares the two in all cases but two. `left` becomes `Unclear` when the count goes round
between the beginning and the end of a ban: the code then ends the ban at once, or,
when the sum is exactly 0, never. It becomes `Relapsed` when the count goes round after
the end and nobody has looked the host up in between (`unseen`, a second history
variable, which knows nothing of the list): the entry is still there and bans the host
once more (`BanList.cpp:59`). That a look-up after the end prevents this is part of
`BansExact`. `MinVersion` is what the configuration says of it, with the defaults
for the numbers it leaves out. `CBanList::Load` is called by nobody. A script that gives `banIP` no time gets an error.

### Ownership

`RegisterTraffic` and `ReportActor` are `CPeer2PeerSystem`, `Leave` the cleanup in
`OnPlayerDisconnect`, `DeleteThings` the loop of PACKET_DELETETHING with its early
`return`, `UpdateStreaming` a round of streaming with any choice of what is near.
Of the library it assumes: `SetCreatedFor` writes a bit; `PossiblyDeleteObject`
destroys transient objects nobody has; streaming takes an object's syncer away
with the object, and keeps what always exists for its syncer. `StopResource` is what
goes with a resource's scripts (`ServerResourceMgr.cpp:53`). The packets of peds that
get in and out are actions of their own: they set and reset the flag (`entering`) and
move a vehicle to the ped's syncer, ENTERING and ENTERED only when that client can be
its syncer, JACK in any case. `spawnPlayer`
may be called for a client that has a player: `DespawnPlayer` is commented out
(`MafiaServerManager.cpp:24`), so the old one stays, nobody's. The history variable `loose`
has these and the players that `createPlayer` makes; `PlayersOwned` gives every other player
exactly one client, and these none. A player that was spawned is of no resource, one that
was created is of the script's. Dummies and `m_bForcedSyncer` are left out.

### Attributes

One attribute, of one of seven classes that `Kinds` lists: what its setter writes
and sends, and which packets carry it. The history variable `wish` remembers a
script's value that ought to stand; it is set only when the syncer's reports were
in step with the server (`Settled`). That condition is needed: a report sent too
early may undo a set, and when the script then sets the value once more while the
server happens to have it already, the comparison in the setter
(`ServerVehicle.cpp:255` and its like) skips the packet and the clients' value
wins. The class `weapon` is told in a reliable packet, which the server passes on,
besides the sync; the class `setting` has no syncer and no sync, everybody is told of it, and
its creation is the handshake. The name of the server is no such setting: `SetServerName`
sends the game mode instead. A client is taken to know at once whether it is the syncer and to ignore
sync packets then; an element somebody syncs is taken to be dirty. The filter of
NaNs is left out. With the sync method `none` nothing is sent on, and `Converges`
does not hold.

### Listing, start-up, frames

`Listing` has the announcer with its connection in six states; the callbacks of
the socket come inside `UpdateNetwork`. Its table of machines is `Machines`, which
`Session` implements, so it needs no second account of joining and leaving.

`ServerQuery` puts the announcer's pulse into frames that end with `UpdateResponse`.
What comes in between (packets, scripts, the network, a query) sees the answer
of the frame before. `QueryTruthful` is about the answer and not about the step that
writes it: the count is `m_CurrentClients` cut to a byte and the entries are
read from the table, and the two have to make one picture.

`Startup` starts from any pair of a file and a command line, narrows the numbers
as the casts do, and keeps the order of the checks. The results of the remote
console's and the HTTP server's `StartServer` are read oppositely
(`BaseServer.cpp:1627` and after); which is right the library decides.
`MainLoop` counts ticks modulo `TickMod` from any start.

## The runs

All are exhaustive on their instance. Times are for two workers.

| Run | Instance | What it shows |
|---|---|---|
| `SeatsTable` | 2 vehicles of 2 seats, 2 peds, 1 of them a civilian, window 2, ticks mod 3, symmetry; 947,000 states, 2.5 min | whatever is reported: types, `SlotsAlive`, `AuthorityStands`, `EvictionIsLocal` |
| `SeatRequests` | 1 vehicle of 2 seats, 2 peds, window 3, delays 1 and 1, 1 of them a civilian, 2 answers and 1 report under way per ped; 485,000 states, 2 min | `TableExact`, `StaleSyncsHarmless`, `ViewsAgree`, `ImplementsSeating`; `DanglingCorrected` under fairness |
| `SeatsSync` | 1 vehicle of 2 seats, 2 peds, no civilian | violation of `SyncCorrects` |
| `SeatTraffic` | as `SeatRequests`, with `AddDriver` | violation of `EntryThrowsOut` |
| `Session` | 3 peers, 3 slots and the console's, 2 clients at most, names not shared, 3 packets per client; 144,000 states, 2.5 min | `CountExact`, `MachinesLive`, `NamesDistinct`, `RosterAgrees`, `ImplementsMachines`, `ImplementsRosters`; `EventuallyKnown` |
| `Admission` | 2 peers behind one of 2 hosts, ticks mod 4 from any start, bans of 0 to 3 ticks, a version too old and the oldest allowed; 201,000 states | `BansExact`, `BannedStayOut` |
| `Ownership` | 2 clients, 3 ids, 1 actor, 1 resource, lists of 2, one ped at a time getting in or out, symmetry of ids; 454,000 states, 3 min | `OwnersHere`, `ActorsUnique`, `TrafficHeld`, `PlayersOwned` |
| `OwnershipDelete` | the same | violation of `DeletedAsAsked` |
| `Listing` | 2 peers, 2 names, waits 1 and 3, frames of at most 2, 2 frames under way, answers with 1 entry and counts of 3 values; 312,000 states | `ListingAgrees`, `Patient`, `ImplementsRoster`; `Relisted`, `QueryTruthful` |
| `MainLoop` | ports and intervals mod 8, ticks mod 12, files and options with every limit met and passed by one; 383,000 states | `ConfigChecked`, `OnTime`; `ExitStops` |
| `SyncWrap` | one input | violation of `SyncEveryInterval` |
| `Attributes` | 2 clients, 2 values, every class, 4 changes by scripts, games and streaming; 173,000 states, 2 min | `AllTold`; `Converges`, `SetStands` |

Why the bounds are enough. *Seats*: the conflicts are between two peds over one
seat, of one ped over two seats, and of one ped over two vehicles; one decision
more than the number of answers under way only repeats them. A window of three
ticks with delays of one is the least with every order of decision, answer, report
and end of window; the count goes round within it. *Session*: two clients that
know of each other and a third that is refused, or takes a freed index, and a
second connection of the same peer. *Ownership*: two clients, since an object
either stays because of the other one or goes; three ids, so that one is free
while an actor and something else exist, or a client's player, the one it had before and a
car. `MaxEntering` holds back the packets that set a ped's flag, which no other step reads. *Attributes*: two clients are a syncer
and another one; four changes allow a creation for each, a set and a change of
game, syncer or streaming among them, and what `SetStands` forbids needs three.
*Admission*: two clients behind one
address, so that one is inside when the host is banned; bans that end before, at and after
the count goes round, and ended ones that are looked up before it does or lie there until then. *Listing*: two players where an answer to queries has room for
one, so that it is cut; a change before, during and after the making of a connection. The
bounds on queues (`MaxAnswers`, `MaxSyncs`, `MaxInbox`, `MaxSent`) hold back the
sender, never drop anything.

Deadlock is checked except in `MainLoop` and `SyncWrap`, where a server that was
stopped or failed to start does nothing more, and `Attributes`, where everything
may come to rest. Symmetry is used only where no liveness is checked.

## Fairness

- **SeatRequests**: time passes, answers are acted on, games drop vehicles that
  are deleted (weak); of the reports, sent many times a second, again and again one
  is sent and one arrives while the server's word does not stand (strong, conjoined
  with `~Authoritative`): it stands for two seconds after a decision.
- **Session**: reliable packets reach a client that stays (weak).
- **Listing** (with `ServerQuery`): frames begin, with a `Pulse`, and end, with `UpdateResponse`; a connection attempt ends, what is
  sent over a connection that stands is taken in (weak). `Relisted` has the premise
  that the listing stays reachable.
- **MainLoop**: the start and the loop wait for nobody (weak): every step of the
  start, every frame, the last frame. No fairness for signals or clients.
- **Attributes**: rounds of streaming and sync come (weak; `MainLoop`'s `OnTime`),
  the syncer reports and sets are taken in (weak); for each value, of the sync
  packets sent again and again with it one arrives and is used up (strong).

Nothing is assumed of scripts, players, the operating system or the network.

## The proofs

TLAPS proves, for every value of the constants that satisfies the named
assumptions:

| Theorems | From | Argument |
|---|---|---|
| `VehicleSeatsProofs`: `SeatsTypeCorrect`, `NoDanglingSlot`, `WordStands`, `EvictionLocal`, `ReportsCorrectAcross` | `SeatsAssumption` | Types step by step; `SlotsAlive` is inductive with them because every way a ped goes empties its slots; two action properties by cases on the actions, the third from the two ways a report writes the table (`Empties`, `Fills`) |
| `SeatRequestsProofs`: `TypeCorrect`, `RequestsUseSeats`, `TablesAgree`, `WindowOutlivesStaleSyncs`, `GamesAgree`, `SeatingImplemented`, `NoSharedSeat`, `ApartBriefly`, `EntriesThrowOut` | also `DelayAssumption`; all but the first two assume `RoundTrip` | below |
| `SessionProofs`: `TypeCorrect`, `CountCorrect`, `MachinesAreLive`, `NamesAreDistinct`, `IndicesKept`, `MachinesImplemented`, `RostersAgree`, `RostersImplemented`, `EveryClientSeesARoster`, and of `Admission` `SessionsRefined`, `AdmissionTypeCorrect`, `BansAreExact`, `BannedHostsStayOut`, `VersionsInOrder` | `SessionAssumption`, `BansAssumption`, `AdmissionAssumption` | The count is the size of the set of present peers; the invariant adds that this set is finite, that a peer has one slot, and that its connection is open. An acceptance adds one peer to the set and an end takes one away. That the first free slot exists is `LeastExists`. `Follows`: the packets under way to a client lead from its roster to the table, each by a step that `Roster` allows; so the next one it takes in is such a step, and when there is none the two are equal. `Admission` refines `Session` step by step, so all this holds with bans; `BansInv` ties each expiry to what is left of the ban, and one that is past to a host that nobody has looked up since, and `BannedStayOut` follows from `BansExact` and the first fault of a handshake |
| `OwnershipProofs`: `TypeCorrect`, `OwnersAreHere`, `OneElementPerActor`, `TrafficIsHeld`, `PlayersAreOwned`, `IndexComesClean`, `FirstIsDeleted` | `OwnershipAssumption` | Every step that takes objects away is an instance of `Settle`, so what it keeps is shown once, in lemmas about `Settle`, for any set of objects lost. `Pointers` strengthens `PlayersOwned` to all clients: a player pointer leads to a player object, no two lead to one, and every player object has one unless it is loose. An index given out again inherits nothing (`NothingInherited`), because objects and pointers name only clients that are there and only an arrival adds one. `FirstIsDeleted` is the contract of PACKET_DELETETHING as it is: how far it gets, and that nothing else goes but traffic nobody has (`TrafficHeld`) |
| `ListingProofs`: `TypeCorrect`, `AnnouncerNeverStuck`, `AnnouncerPatient`, `ListingShowsServer`, `MachinesExact`, `ListingIsMachines`, `RosterImplemented`, `QueryIsListing`, `AnswersAreTruthful` | `ListingAssumption`, `QueryAssumption` | `Owed` says that what is left of the wait and the time since the last attempt make up at least what is due. `TableInv`, which holds of every table that behaves as `Machines` says: nobody twice, the console in its place, the count the number of players. `Shows`: while the connection stands, the frames under way lead from the listing's entry to what the server is, each by a step that `Roster` allows; frames left over from a connection that broke lead from nothing to nothing. `ServerQuery` refines `Listing` step by step; its answers are true because the count is exact, fits a byte, and the first so many of a set are all of it or as many as asked (`FirstOfAllOrFull`) |
| `MainLoopProofs`: `TypeCorrect`, `ConfigIsChecked`, `RoundsOnTime` | `StartupAssumption`, `LoopAssumption` | `Accepted`: what was loaded passed the checks after it was narrowed. `Paced` and `Served`: until a count goes round, the next round is due no later than an interval after the last, and the clients' wait is the distance to it |
| `AttributesProofs`: `TypeCorrect`, `EverybodyTold`, `SetsAreHeard`, `SetsStay`, `AgreementStays` | `AttributesAssumption` | `NotSynced`: a skin or a setting is in no sync packet, so only setters and creations write copies, and their queues end in the server's value. `SetInv`: a script's value that ought to stand is the syncer's or all that it is about to be told, and the server, the syncer and the reports have only it and one other. `CalmAt`: what one client has and is sent is the server's value; every step is looked at client by client |

The proof of the seats is the heart of the project. What has to be shown is
that a report which is no longer overruled agrees with the last decision.
`StaleSyncsHarmless` is not inductive: whether a report is late depends on when
it was sent, and whether it was sent before or after the game heard of a
decision. The strengthening (`IInv` in `SeatRequestsProofs`) has the table and
the record equal (`TableExact`), the last answer under way equal to the record
and no older than an answer may be (`AnswersFresh`), the game equal to the record
when no answer is under way (`ViewsAgree`), and a report that differs from the
record sent no later than `Down` ticks after the decision (`SyncsFresh`:
`age <= k.age + Down`). When the authority ends, the decision is `Authority` old, so a
differing report would be older than `Up`, and `RoundTrip` excludes that. `SeatingImplemented` then maps every
report to a stutter and every decision to a step of `Seating`; `NoSharedSeat` is
`Seating`'s `OneEach` carried back. `EntriesThrowOut` and `ReportsCorrectAcross` draw the
line around two findings. What the header says of entries, and `SeatTraffic` refutes, is true
as long as games ask first and civilians are registered on foot. What a comment says of
reports, and `SeatsSync` refutes, is true of a report exactly when the ped comes from outside
the vehicle or the table has it in that seat already; this is proved for reports of any kind,
in any order, since games that ask first never need correcting.

Every invariant was first checked by TLC on the instances of the runs. Only
model-checked is liveness (`DanglingCorrected`, `EventuallyKnown`, `Relisted`,
`QueryTruthful`, `ExitStops`, `Converges`, `SetStands`), which the prover cannot do. The
safety half of several is proved: what a client knows at any time (`RostersImplemented`),
that an answer is true when it is written (`AnswersAreTruthful`), that agreement is not lost
again (`AgreementStays`), that a script's value is neither lost nor mixed up on its
way and stays once it has come round (`SetsAreHeard`, `SetsStay`). These theorems, `FirstIsDeleted` and
`ReportsCorrectAcross` state properties of the modules that no run lists; TLC has checked them
on the same instances, the last on that of `SeatsTable` without civilians and without a window,
since it is about the reports that count. What
queues add up to is proved without induction over them: `Leads` (`CommonProofs`) says that
there is a history of copies, one longer than the queue, from the copy there is to the copy
there will be, in which each packet makes an allowed step; sending a packet adds to its
end and taking one in takes from its front.
The proofs use no recursion: folds and quantifiers only.

## Where code and words disagree

Four runs are expected to end in a violation. Each is described in
`PROJECT.json` with the words it quotes.

- `SeatsSync`, `ServerHuman.cpp:158`: a report of another seat of the same vehicle
  changes the record and not the table, although "what the syncer reports is what
  corrects it". `getOccupant` then shows nobody.
- `SeatTraffic`, `Peer2PeerSystem.cpp:81`: a civilian registered while it sits in a
  vehicle is not in the table, so an entry does not take it out of its seat and two
  peds are recorded there. This is why `SeatRequests` registers civilians on foot:
  `Next` leaves out what `TrafficNext` adds.
- `OwnershipDelete`, `BaseServer.cpp:1012`: the handler of PACKET_DELETETHING
  returns in the middle of its list.
- `SyncWrap`, `BaseServer.cpp:1105`: times of next rounds are compared as plain
  32-bit numbers, so when the tick count goes round the next round may be 49 days
  away. `OnTime` and its proof say that this is the only way to lose rounds.

Seen while reading, not shown by a run:

- `-maxplayers` is stored unchecked (`Main.cpp:272`), although the file's value is
  refused with "should not be set to anything more than 127!"
  (`BaseServer.cpp:1219`). `ConfigChecked` is therefore about servers without options.
- `FunctionEntityGetVelocity` returns the velocity of rotation
  (`MafiaServerManager.cpp:218`); `GiveWeapon` and `TakeWeapon` write a copy of the
  inventory's entry (`ServerHuman.cpp:313`); `SetServerName` sends the game mode to
  the clients (`BaseServer.cpp:1811`); a vehicle's new model is sent to nobody that
  has the vehicle (`ServerVehicle.cpp:190`); the callbacks that `BaseServer.cpp:1491`
  registers for the configuration are never run.
- A ban that has ended and that nobody looked up bans again when the tick count has gone
  round (`BanList.cpp:59`), and a second `spawnPlayer` leaves the first player standing
  (`MafiaServerManager.cpp:24`). No line says otherwise, so neither is a finding; the
  models do both, and `BansExact` and `PlayersOwned` say where.

## Not modelled

- **Scripts**: what they do in an event is any sequence of operations between
  handlers. A script that destroys the objects of the very event it handles, while
  the handler goes on with them, is a matter of memory and out of a model's reach.
- **Setters no script reaches**: `locked`, `roof`, a ped's health; so
  `m_Locked` is always false where requests look at it.
- **Shots, reloads, holsters, hits, deaths and the use of actors** (`MafiaServer.cpp`):
  passed on from the syncer to the others and to scripts, without state.
  MAFIAPACKET_VEHICLE_CREATE, whose vehicle is never registered.
- **Passwords, serials, tokens**: one of a set of failed checks in `Session`.
- **Chat, events, HUD**: packets passed on without state.
- **Remote console, input thread**: the library's threads; the code here adds a parser.
  The encoding of queries and their answers, and the rules in them.
- **Loading and running scripts, vectors, formatting, logging**: the library, floating
  point, output.
- **Positions and distances**: streaming is any choice of what is near.

## Plan

Done: the core (seats, requests, sync), sessions with bans and versions, ownership
with the vehicle packets of Mafia II and resources, attributes with weapons and settings, listing and
query, start-up and frames, with the theorems above.

Next, in this order:

1. Seats with syncers that change: a ped whose view is taken over by another client's
   game in the middle of a decision; whether `RoundTrip` is enough then.
2. `Session` and `Ownership` composed, with the packets under way at a disconnection.
3. Traffic that is registered sitting, with games that throw out a ped the server's table
   does not name: what is left of `ViewsAgree` and `StaleSyncsHarmless` then. (`TrafficNext`
   is enough for the run that shows the table fail, but leaves such a ped where it was.)
4. Proofs: `SyncsFresh` with several syncers; that each copy of a setting takes the
   server's values in their order.
5. The remote console's connections and the start of its server beside `Startup`.
