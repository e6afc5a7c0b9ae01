# AutonomousAgentsSim in TLA+

The repository simulates a colony of bees on top of XPilot NG. Bees are bot
programs (`xpilot_ai/c`), linked with a modified XPilot client
(`xpilot_engine/src/client`, `client/x11/cAI.c`); a modified XPilot server
(`xpilot_engine/src/server`) runs the world, with fuel as honey, bases as hives
and fuel cells as honey sources. These modules model the parts of it that carry
the simulation's own logic: how a bee decides what to do, how it tells others
by dancing where honey is, how its keys and its role reach the server, and what
the server does with the honey.

## 1. The system

### Components

| Component | Source | State | Operations | Correct when |
|---|---|---|---|---|
| Keyboard protocol | `client/event.c`, `client/netclient.c`, `server/netserver.c` | press counts, key vector, number of the last change, last acknowledgement; on the server the last change and vector | press, release, numbered datagram, resend once per frame, acknowledgement in every frame, vector wiped by `Go_home` | the server holds a vector the client had; an acknowledged client and the server agree; changes arrive in the end |
| Role announcement | `cAI.c` `sendSelfState`, `server/event.c` `KEY_STATE_n` | the bot's `state`, the player's `aiState` | a key per role, pressed in every AI frame | the role shown is one the bot announced; the last one, says `cAI.h` |
| Dancer | `beeDance.c`, `bee.c` `forage` | nested function statics | wait to be looked at, dance type, x, y; one movement = turn, stay, turn back, stay | the dance ends; every symbol can be seen |
| Onlooker | `beeObserve.c`, `bee.c` `onlook` | function statics, recorded moves | record moves, notice the end of the dance, read the coordinates | what is recorded is what was danced, what is read is what was meant |
| Bee behaviour | `beeMain.c`, `bee.c`, `beeAI.c`, `beeObject.c` | role, errand, remembered fuel level, `useFueler`'s flag | one `AI_loop` per frame | refuel key paired, a forager knows where to go and does its work |
| Honey economy | `server/update.c`, `map.c`, `ship.c`, `player.c`, `event.c` | fuel per station, honey put aside per hive, tanks, refuel and nurse flags | upkeep, deposit, gather, nurse, birth, death | nothing overdrawn, books balance, bees paid for |
| Bot API | `cAI.c` | views of the last frame | keys, turns, radar | as used by the rows above |
| Chaser | `chaser.c` | danger points, the safe map, the path and the place in it, destination, enemies seen | messages `avoid`/`remavoid` and traits, plan, fly a leg, wander, halt for an enemy | the path flown fits the map as it is now; the danger list is a table; no index past the path |
| Graph searches | `astar.c`, `bfs.c`, `dfs.c`, `dijkstra.c`, `graph.c`, `mapgen.c`, `chaser.c` `pathToPointId` | predecessors, costs, marks of one call | pick, relax, retrace | the path is one, as good as promised, and none is reported only where there is none |
| Reliable stream | `server/netserver.c` `Send_reliable`, `Receive_ack`; `client/netclient.c` `Receive_reliable` | `c`, offset, unsent, window, timer; the client's position | write, send, resend, acknowledge | an exactly-once stream over lossy UDP |
| Connection states | `netserver.c`, `netclient.c` `Net_verify` to `Net_start` | state and drain state; the client's phase | listening, drain, setup, login, ready, playing, timeouts, both farewells | both sides agree, no honest client is thrown out, everybody gets in or is forgotten |
| Waiting queue | `server/contact.c`, `netserver.c` `Setup_connection`, `server.c` `Main_loop` | the list of waiting players, the connections, three counters | ask, advance, admit, acknowledge, drop, end the server | first come first served, nobody starves, names unique, the server never ends under anybody |
| Boids, defender, dodger bots | `boids.c`, `defender.c`, `dodger.c` | vectors | steering | not modelled |
| Client side of login | `client/textinterface.c`, `client/x11/join.c` | a dialog | ask every 10 seconds, join | an input of the two rows above |
| Chat messages | `client/messages.c`, `beeMain.c` `handleMsgBuffer` | ring of messages | add, scan | only the roles and danger points they set |
| Physics, weapons, items, robots, rendering, sound, metaserver, map files | rest of XPilot | | | stock XPilot, not modelled |

### How they interact

A bee is single threaded. It gets a frame (UDP) from the server, its client
unpacks it, and `AI_loop` runs once, reading what the frame showed and pressing
keys. Keys leave as numbered keyboard datagrams. The server is single threaded
too: between two ticks it handles datagrams, then a tick runs `Fuel_update`,
`Players_turn` and `Update_players` in this order, and a frame goes out to every
client. Two bees share no memory: the dancer's heading in the frames is all an
onlooker gets, and the stations on the server are all foragers share.

Before that a client stands in the waiting queue until the server opens a port
for it, and then goes through the states of its connection while the map comes
to it over the reliable stream; the same stream carries the messages of the
game, on its own or behind a frame. The queue is worked on once per main loop,
after the decision whether the server ends. The chaser is another bot on the
same client library: it flies paths that the graph searches find on a map of
which chat messages take roads away.

The hard behaviour is therefore: datagrams lost, doubled, late or out of order;
two bees seeing different frames of the same dance; death and recovery between
any two steps (and statics that survive them); a retransmission timer, windows
and acknowledgements that meet each other late; requests repeated into a state
that no longer expects them; a map that changes under a path; several bees at one station in
one tick; timeouts in frames racing each other; C code that falls off the end of
a function or an array. `PROJECT.json` lists each of these as a hazard at its
line.

## 2. The modules

    KeyRegister  <==  KeyboardLink  <--  RoleSignal        (<== refined by,
    HiveLife     <==  Hive                                  <-- extended by)
    Recital      <==  Waggle  -->  Dancer, Observer  -->  Headings, DanceCode
                      DanceDecode  -->  DanceCode
                      Bee
    Pipe         <==  Connection  -->  ReliableStream
    WaitingLine  <==  WaitingQueue
    DangerZones  <==  Chaser  -->  WeightedSearch
    PathSearch  -->  BreadthFirst, DepthFirst, WeightedSearch  -->  SearchCall, RoadMap
    proofs: KeyboardLink_proofs (and of RoleSignal), Hive_proofs, Bee_proofs,
            Waggle_proofs, DanceDecode_proofs, Connection_proofs,
            WaitingQueue_proofs, Chaser_proofs (and of PathSearch)
    instances: MCHive, MCWaggle, MCDanceDecode, MCPathSearch, MCChaser, MCWaitingQueue

**KeyboardLink.** Variables are the code's (`keyv_new`, `keyv`,
`last_keyboard_change`, ...); `updated` stands for `last_keyboard_update ==
last_loops`, `queued` for what is in `wbuf`, `Room` for how much of that still
leaves place for a keyboard. `keyboards` is the set of datagrams ever in flight
(delivered in any order, any number of times, or lost); `frames` are the
acknowledgements in flight, oldest first. A frame can be overtaken, and is then
stale, which is why receiving one drops all older ones. `written` and `wiped`
are history variables. `GoHome` may happen at any time. `Send_talk`, lag
measurement and write errors are left out.

**RoleSignal** extends it with the bot's role and the server's `aiState`. Keys
are the numbers of the `KEY_STATE_n`; `KeyOrder` is their order in `keys.h`,
in which `Handle_keyboard` walks the vector. Roles 1 and 2 have no key: the
keypad keys `sendSelfState` presses are not bound.

**DanceCode** is the code of the dance, and `Heard` what an onlooker writes
down of one. The tree of digits, the spelling of a number (`Spell`) and the
reading of a digit (`ConvertToNumber`) are recursive functions.

**Dancer, Observer, Waggle.** The function statics of the C code are the
variables (those that never differ are merged). A tick of `Waggle` turns the
ship on the server, and then each bee acts on the new heading or misses the
frame. Headings are eighths of the circle (`Headings`): the windows the code
compares with (2 degrees, 5 degrees) lie around the four headings of the dance
and the odd eighths are between them. A turn may take the ship an eighth or a
quarter at a time. What C leaves undefined is what the build script's compiler
call gives: `buildBee.sh` compiles the bee with `gcc -g`, without optimisation,
so a `bool` function that falls off its end returns what is in the register:
the 0 of `fclose` in `relayCoords`, and in `beeIsDancing`'s first call the
heading. The constant `FirstAnswers` says which of these values are possible. The two
dances, `XDance` and `YDance`, are constants: any sequences of moves, as what
`Waggle` promises does not depend on what they spell; `MCWaggle` takes those
`BuildDance` makes.

**DanceDecode** is `interpretCoord`, one action per way through the loop body.

**Hive.** `Fuel_update` is one action; a player's update is three, so that
players interleave as they do in the list: "refuel", "nurse", "move".
`Dead` is a player that died, or is brought home. Keys change between ticks.
A bee has one tank. Fuel is in whole units; the 0.16 and 5.0 per tick of the
code become `Regeneration` and `Rate`. `nursedFuel` starts from any value of
`Garbage`, `World_place_base` does not set it.

**Bee.** One action `AI_loop` for a whole frame of the bot: chat message,
death, initialization, then the role's controller as one disjunct. The world is
what the bee can tell apart: the station in range (`place`), whether within the
30 pixels of `inVicinityOf` (`close`), the tank. Steering is a free choice of
place. Keys reach the server in the frame they change in; that they may be late
or lost is `KeyboardLink`'s subject. `Onlook` may learn any station from
another bee, dances being `Waggle`'s subject.

**RoadMap, SearchCall, BreadthFirst, DepthFirst, WeightedSearch, PathSearch.**
One call of `pathToPointId`, one action per turn of an algorithm's loop, on a
map that never changes during the call. `RoadMap` has the lengths of roads as
`int`s, rounded down, and `Wrap` for sums that go over `INT_MAX`; arrays of the C
code are functions, and a predecessor that was never written is `Unset`, whatever
the array holds; a search that follows it is "stray". dijkstra and astar share
`Relax` (a vertex that is done is relaxed again, as in the code) and differ in
`Pick` and in what they make of an end that was not reached. `Clear` are the
roads that no wall is in the way of. `Called` is a call of any search on any
part of them.

**Chaser, DangerZones.** A frame of `AI_loop` is a message step, a control step
and, when a path is wanted, the turns of dijkstra, in this order; the variables
of the search are those of `WeightedSearch`, so the map a path was planned on is
at hand for the properties. Where the bot is, and which walls and enemies it
sees, is a free choice. `DangerZones` is the list as README.CHASER describes it.

**ReliableStream, Connection, Pipe.** A unit of the stream is 512 bytes.
`stream` is everything ever written to `connp->c`, of which `c` holds the part
behind `offset`; `received` is everything the client copied to `cbuf`. Packets
are sets in flight: lost, repeated and overtaken at will. The retransmission
timer is off, running or due. `Connection` has one action per entry of the server's
dispatch tables, one per part of its main loop, and the client's requests, which
may be lost like anything else. `Input` is one action with the `Handle_setup`
and `Send_reliable` it calls. Data that comes with a frame which is dropped as
out of order counts as lost. In `CONN_LISTENING` anything but `PKT_VERIFY`
destroys the connection. A "confirm failed" is a socket that blocks on the first
send. `CONN_READY` is left unless the head of `c` looks like a reply, as the
bytes of the map or the middle of a message may by chance (`StatesAfterAck`).
`idle` is `main_loops - connp->start`: `TimePasses` counts it on and `Timeout`
is the test of `Input` against `connp->timeout` (`netserver.c:1405`), after which
nothing else is done for the connection. What starts it anew is modelled where
the code does it: every change of state (`ConnSetState`), a packet that is read
in the game (`Heard`, `netserver.c:1389`; not one that is discarded, nor
`PKT_PLAY`, whose functions return 0), and a part of the map that is written puts
it off a little (`MoreTime`, `netserver.c:920`). Sending starts nothing anew.
`CONN_DRAIN` has no timeout of its own and keeps that of the state before it, so
that the wait for the first acknowledgement is `LISTEN_TIMEOUT`. Outside the game
packets do not prolong the wait: the comment at `netserver.c:1415`, "have not heard
a single thing from him for a long time", is true of `CONN_PLAYING` alone, and a
client whose answers arrive but make no progress is timed out all the same.
`BreaksOff` is any other end: a socket error, a player who is kicked.
Left out: the round trip estimates, `last_send_loops`, the other packet types.

**WaitingQueue, WaitingLine.** A client is one user at one display; nicks and
hosts are functions of it. `MainLoop` is the whole of `Queue_loop`: first the
entries with a port, of which those gone are removed and the first one due is
told its port again, which ends the loop; then the head of those who wait is
admitted, dropped or left; else one that is silent is dropped. Time enters as
the order of the waits in the code (2 loops, a quarter of a second more); an
entry that has been silent for 30 s, a connection that times out and a player
that is paused are free choices. Admission may throw out paused players in the
same step, and `ConnSetState` counts all of it. `Leading` is how far the list
goes on having ports, which is how far the first loop gets. `Queue_kick` has no
caller.

**KeyRegister, HiveLife, Recital, DangerZones, Pipe, WaitingLine** say what the
keyboard protocol, a hive, the watching of a dance, the danger list, the stream
and the queue promise, in terms of nothing else. They model no line of the code.

## 3. The runs

| Run | Question | Bounds, and why they are enough |
|---|---|---|
| `keyboard` | does the server follow the client, in order, does an acknowledgement mean agreement, and do changes arrive in the end | 2 keys, counts saturating at 2, 3 changes, 2 frames in flight, `wbuf` full at 2: every order of two changes and their acknowledgements, and a saturated count, happen |
| `roles` | are only announced roles shown, and the first one surely | 2 bound roles and an unbound one; 3 changes |
| `roles_lost` | violated: `cAI.h:128` | 3 roles, two of which share the key order of the code |
| `waggle` | does the onlooker record what is danced, whatever frames are missed; does a dance end, and is it learned by an onlooker that still watches | the dance for (7, 10), with digits of depth 1, 2 and 3 and both a 1-digit and a 2-digit coordinate; the dancer misses at most 1 frame in a row, the onlooker 2; the first answer of `beeIsDancing` is either |
| `decode` | are coordinates read back | each digit in each place of numbers of up to three digits, in all pairs whose dance fits in the array of 25 |
| `hive` | is nothing overdrawn, do the nurses' books balance, are bees paid for, does each hive live as `HiveLife` says and die without foragers | two hives and a cell, a bee of one hive that may rob the other, one birth and so up to 2 players; `nursedFuel` starts one below the threshold, so that the bee is raised and a rest is left over; amounts of up to 7 that neither divide the tank nor the hive evenly |
| `bee` | is the refuel key paired, does a forager have a destination, and does it pump as long as it has to | a hive and a source, tank 0..4 with 1 and 2 for `EMPTY` and `FULL`, 3 calls per release as in the code, messages that set both roles |
| `searches` | is a path real and as good as promised, is none reported only where there is none, does the call return, after how many turns, does the way back fit its array | all maps of seven roads over five points, four of them nearly on a diagonal so that the rounding makes astar err; every start and end; `INT_MAX` = 63, so that sums from it wrap |
| `searches_cut` | violated: `dijkstra.c:205` | the same, dijkstra alone |
| `chaser` | is a path only flown on the map it was planned for, does the chaser stay inside its path, do enemies end it, is the danger list a table | a square with one diagonal, three danger points of which two cross roads, one or two of them with each radius, room for two: a list that is full, a hole in it, and a search that finds nothing all happen |
| `connection` | is the stream exactly-once, do both sides agree on the state, is nobody accused, does everything arrive, is a client that left forgotten | packets of 3 units, 2 of a kind in flight, a window of up to 2 packets, a map of 5 units of which `c` takes 4, one message in the game, one request on the way, timeouts of one unit of time before the login is answered and less than one after (a unit is what a part of the map puts it off): `c` fills up before the map is through, bursts of two packets are cut anew after an acknowledgement in their middle, each packet is lost, late and doubled, and in each state the time runs out before, between and after the packets that start it anew |
| `queue` | is the queue first come first served, are names, hosts and connections kept apart, does everybody get a turn, does the server only end when deserted | four clients, two of one nick and three of one host; 3 places, 2 connections, at most 2 per host: each refusal, a full house, a nick that comes back and two ports at once happen |

To keep the runs to twelve questions the types of `KeyboardLink`, `Bee`,
`PathSearch` and `Connection`, and `InOrder` and `AcksAreEarned` of the stream,
are proved for all constants and not run again; `RoleInv`, `WaggleInv`,
`DecodeInv`, `ChaserInv`, `RightAnswer`, `PathIsBest` and `QueueInv` are conjunctions of named
invariants.

**The bounds in guards.** `MaxChange`, `MaxOther`, `MaxFrames` (KeyboardLink),
`MaxDancerSkip`, `MaxObserverSkip` (Waggle), `MaxPlayers`, `MaxDeposits` (Hive:
in `Join`, `RefuelKey`, `MoveOn`), `MaxInFlight`, `MaxAcks`, `MaxNews`,
`MaxRequests` (Connection; the limit of `connp->acks` is the code's own in
kind, a full `c` never sends more packets). They stop new work and never a step of work
begun. `Waggle`'s two bounds are also what the property needs: the waits of 5
frames cover an onlooker that misses up to 4 frames in a row, and with 6 missed
(or a dancer that misses 2, whose wait there then spans the threshold of 42 in
a longer movement) moves are lost or the dance seems over. These numbers come
from the code's constants and hold for them as they are: `MinFrames = 5`,
`ObservedFrames = 15`, `Threshold = 42`; only `FrameLimit` is 20 instead of 140,
still above 15.

**Fairness.** `KeyboardLink`: the server's timer sends frames and the client
finishes the frame it is in (weak); of frames and keyboards sent over and over
some get through (strong): UDP on the hosts this runs on loses packets, not all
of them. Presses are not fair. `EventuallySynced` leaves out a `wbuf` that stays
full for ever: then `Key_update` refuses (netclient.c:2353) and nothing flushes
an unsent change (netclient.c:634). `Waggle`: time goes on, with the skips
bounded. `Hive`: ticks go on. `Bee`: frames arrive (weak), and a dance always in
progress ends (strong), which is `DanceFinished` of `Waggle`. `PathSearch`: the
algorithm runs. `Connection`: the timer runs out (weak); of what is sent again and again a send does not block, the
first packet and its acknowledgement, and the repeated `PKT_VERIFY` and
`PKT_PLAY` get through and are accepted (strong). Neither side has to stay:
`AllArrives` speaks of connections nobody breaks off, and whose time does not run
out. When the client is gone, time goes on, what it has left on the way is not
on the way for ever, and `Input` times out a connection whose time is up (weak,
each of the three). That this is enough for `ForgetsTheGone` is a fact about the
code: it would fail if a send, an unchanged state or a discarded packet started
the time anew, or the map put it off without end. `WaitingQueue`: the main
loop runs, and infinitely often without somebody having just been silent for
30 s, because it runs more often in 30 s than there are places in the queue;
a listening connection is used, or ends after `LISTEN_TIMEOUT`.
`EverybodyServed` needs an owner who stops favouring others.

**Violations.** Two runs state what a comment says and are violated by what the
code does: roles taken up again are not shown, and dijkstra does not report a
missing path but searches on for ever, with sums that wrap. `PROJECT.json`
("findings") has the lines.

Other disagreements show in the models without a run of their own. A coordinate
of four digits, as `points.csv` has them, loses its last one: the digits go into
an array of three (`beeObserve.c:188`, against `beeObserve.h:12`; with 4935 among
the coordinates `ReadsCoordinates` fails). A forager dances only once: the flag
that makes it dance is cleared by its first dance and set by nothing
(`bee.c:180`). A bee that dies while it searches finds itself at home and takes
its own hive for the supply (`bee.c:31`). Who reaches the head of the queue when
every connection is taken is dropped without a word (`contact.c:762`) instead of
waiting on, and paused players are thrown out "because team is full" for any new
one who names their team, full or not (`contact.c:738`, under a comment that
nobody should be kicked).
With the dancer at heading 0 the first call of `beeIsDancing` answers false, where
`beeObserve.h:28` promises whether the heading changes, and the onlooker stops
watching for good (in `Waggle`: `dancingCheck` becomes FALSE in its second
frame; `DanceLearned` therefore speaks of onlookers that still watch). And the
array of 25 moves (`beeObserve.h:12`) is too short for two four-digit
coordinates, since the pauses between the digits are recorded as well: a
coordinate takes up to 17 symbols, two of them and the type 35. `DanceDecode`
starts only with dances that fit, what lies behind the array being undefined.

**What a pass does not say.** In the `hive` run nobody is on the server for the
second hive, and it is robbed and starves only; hives of several teams with bees
of their own, and any amounts, are what the theorems of `Hive_proofs` cover.

## 4. What is proved

The proofs hold for every value of the constants, under the named assumptions
of the modules (`LinkAssumption`, `RoleAssumption`, `HiveAssumption`,
`BeeAssumption`, `MapAssumption`, `SearchAssumption`, `LengthAssumption`,
`ChaserAssumption`, `DecodeAssumption`, `DancerAssumption`,
`ObserverAssumption`, `WaggleAssumption`, `PaceAssumption`, `StreamAssumption`,
`ConnectionAssumption`, `QueueAssumption`). All but three only say that bounds
and amounts are numbers, sets are finite, points have integer places and lie
apart, usable roads are roads, and names that must differ do. `RoleAssumption`
also says that the keys a bot has for its roles are among those the server knows.

`LengthAssumption` says that a path over all the points is shorter than
`INT_MAX`, the infinity of the searches. Points are pixels of a map whose sides
are `short`s (`setup.h`), so no road is as long as 50000 and it takes more than
forty thousand points to break it. What is proved of astar, of dijkstra's "no
path" and of shortest paths needs it; the lemmas about bfs, and that the paths
of bfs, dfs and dijkstra are real (`RealOnAnyMap`), do not use it.

`PaceAssumption` is what the dance stands on, three relations between the
constants of the code and the frames each bee may miss:

    MaxObserverSkip < MinFrames                            an onlooker sees every stay
    2 (MaxObserverSkip + 1) <= ObservedFrames              it is set up before the dance
    2 (MinFrames + 4) (MaxDancerSkip + 1) <= Threshold     no movement looks like the end

With 5, 15 and 42 as in the code they allow an onlooker that misses up to 4
frames in a row and a dancer that misses one.

- **KeyboardLink_proofs.** `TypeCorrect`, `Synced`, `AcksHonest`, `HoldsWritten`,
  `Refinement`. `AckedMeansSynced` is not inductive: nothing in it says that the
  acknowledgement was given for *this* vector. The inductive invariant is
  `TypeOK /\ HistoryInv /\ KeyboardInv /\ AckInv`: the history has one entry per
  change and its last is the client's vector; every datagram in flight carries
  the vector of its change; and last_keyboard_ack <= every frame in flight, in
  order, <= last_key_change <= last_keyboard_change. Acknowledged then means
  equal numbers, and equal numbers mean equal vectors. The same invariant gives
  the refinement of `KeyRegister`, action by action.

  The roles come on top. `RolesUseLink` shows that every behaviour of
  `RoleSignal` is one of `KeyboardLink`, so all of the above holds of it, and
  leaves `SaidInv` (only keys of announced roles are ever down or in the
  history) and `ShownInv` (what the server shows was announced; the first role
  is shown once its key is in last_keyv, or is in `dropped`) to prove
  `RolesAreAnnounced` and `FirstRoleShown`. One lemma is about `Handle_keyboard`
  alone: of several keys going down in one packet the last in `keys.h` wins.
- **Hive_proofs.** `NeverOverdrawn`, `BooksBalance`, `NoBeeForNothing`,
  `LifeRefined`. The paid-for bees need a ledger: what a hive holds and what it
  has put aside never exceeds what it started from and was given. With
  `NurseBooks` that bounds the bees. `Populated` (someone is on the server) is
  what makes the upkeep take something in every tick, hence a step of `HiveLife`.
- **Bee_proofs.** `TypeCorrect`, `KeyPaired`, `KnowsHoney`. The forager's
  destination needs `FoundIsKnown`: the static `fuel_found` stays set for ever,
  so a bee set to searching becomes a forager at once, and must know a supply
  from the first time.
- **Waggle_proofs.** `ReadsItRight`, `ReferenceInTime`, `RecitalIsFollowed`: the
  dance is followed, whatever it is, whatever frames are missed. The invariant
  `WaggleIInv` has, besides the types, five parts.
  `DancerInv`: at each phase of a movement (resting, on the way out, there, on
  the way home, back) the ship is where the phase says, and turns only towards
  the goal or heading 0; a turn never passes another heading of the dance
  (`TurnsOut`, `TurnsBack`).
  `RefInv`: frames looked at without a reference heading are at most the frames
  the onlooker missed, so it takes the reference while the dancer still waits.
  `CheckInv`: the onlooker stops watching before its first note or knowing all.
  `NoteInv`: at each phase, what is noted, what `direction` holds and what the
  onlooker saw last; if the ship has come to its goal, or back, and the onlooker
  has not seen it there yet, it has missed every frame since.
  `CountInv`: while something is noted and the dance goes on, the calls of
  `beeIsDancing` at one heading are fewer than twice the ticks the ship can have
  been in it (`Age`: two calls per frame, and ticks the dancer missed count too),
  which never come to `Threshold`.
  A tick is two steps in the proof, the move of the dancer with the onlooker's
  eyes shut (`Showing`) and the call of the onlooker (`Looking`), as each part
  of the invariant breaks in the first and is made good in the second.
- **DanceDecode_proofs.** `ReaderStaysInDance` and `CoordinatesAreRead`. The
  invariant `ReadingInv` says where in the dance the reader is
  (`ReadingAfter`): behind the first k digits of a coordinate, of which `number`
  holds those that fit, and as many moves into the path of the next digit as
  `moves` holds; `dance_index` is the sum of what lies before. The tree of digits is evaluated (ten
  paths); numbers and spellings of any length go by recursion on a rank
  (`Recursion`: such a function exists) and by taking the least counterexample
  (`Descent`). That what is read is what was danced needs `DigitsFit`, that no
  coordinate has more digits than the onlooker's array takes; with three places
  and a coordinate of four digits it is false, see above. `ReaderStaysInDance`
  holds without it.
- **Chaser_proofs, the searches.** `SearchTypeCorrect`, `SearchAnswersRight`,
  `SearchPathIsBest`, `SearchComesCloser`, for every map. `SearchInv` says
  that predecessors lead along roads, that the way back leads to the end, and
  that what bfs and dfs have seen is closed under roads when they give up.

  `WeightedInv` is about dijkstra and astar where there is a way. A cost below
  `INT_MAX` is at least the length of some tour that gets there, so it stays
  below `INT_MAX` with a road more and no sum wraps (`WrapsNothing`). The cost
  of a vertex is at least that of its predecessor and the road between them, so
  costs fall on the way back, it meets no vertex twice and ends at the start
  (`Climbs`). And a vertex that is picked costs no more than any walk to it is
  long (`CheapestIsNear`): the walk leaves the vertices that are done by some
  road, what is behind that road has been lowered, and it is no cheaper than
  what was picked. For astar "cheap" includes the estimate, and every comparison
  may be off by one for each road of the walk, as lengths are rounded down one
  by one (`Triangle`, from the triangle inequality of the plane in whole
  numbers; `Slack`). That is where the bound of `AlmostShortest` comes from.

  `RingInv` is about bfs. Every vertex on the list is one road further from the
  start than its predecessor (`Tree`); the list from `currptr` on holds the rest
  of one ring and then a part of the next one (`Front`, `InOrder`), and a ring
  is complete when the list comes to the next. The way back goes in by one ring
  per step (`Back`), so its length is the number of the end's ring.

  Either way the vertices on the way back are all different (`WeightedWayFits`,
  `BfsWayFits`), so it fits `backwards_path` and never comes to a predecessor
  that was not set. `TurnsLeft` adds up what a search can still do: a vertex that
  is found costs two turns at most (to find it, and to move on from it or to go
  back from it), one that is relaxed costs one, and copying costs one turn each.
  Every turn lessens the sum (`ScanComesCloser`, `TurnComesCloser`), which starts
  at 4n + 5 for n vertices. That a search is never stuck before it is done
  (ENABLED) and the fairness of `ComesBack` are left to TLC.
- **Chaser_proofs, the chaser.** `StaysOnPath`, `FliesByCurrentMap`, `StopsForEnemies`,
  `ListIsATable`. `ListInv` says that no point is in the list twice and that the
  free places are the last ones; with it the list is a table and removing a
  point shifts the rest without loss, so the refinement of `DangerZones` follows
  message by message. `ChaserIInv` adds that the safe map is always that of the
  list (`MapInUse`), that a path in use was planned on it or on the whole map,
  and what the search keeps (`SearchInv`): the chaser's
  path is what `SearchAnswersRight` says of dijkstra, for a call whose map is
  held still while the messages wait.
- **Connection_proofs.** `ConnectionTypes`, `StreamInOrder`, `AcksEarned`,
  `AccusedNever`, `StreamParsed`, `SidesAlwaysAgree`, `PipeRefined`. The invariant
  is `StreamInv /\ Life /\ Reading`: every packet in flight is a piece of the
  stream at its place, every acknowledgement in flight is of something received,
  offset <= received and offset <= unsent <= length; the state of the server tells
  how much of the prologue is written; the phase of the client tells how much of
  it is read, and each request still in flight was sent in a phase that has been.
  From it no request meets a table that does not know it.
- **WaitingQueue_proofs.** `Apart` and `LoginsCounted` (`ConnInv`): whatever the
  queue holds, connections keep to one per nick and within the limit, and the
  counters are the cardinalities they stand for. `InOrderAndApart`, `NobodyLeft`
  and `QueueIsALine` (`ListInv`): the list is cut by `Leading` into entries with
  a port and entries without, and each operation says what it makes of the two
  parts; from the second part, which is the line, one entry leaves at a time,
  in front or by giving up, and a word of the owner moves one to its front.
  That the list keeps its order when any of its entries go (`Kept`, `Nth`), and
  that `Leading` finds the end of the ports, rest on taking the least number
  with a property (`Least`), for which the library's theorem on well-founded
  sets is enough.

Only model-checked: liveness (`EventuallySynced`, `DanceLearned`,
`DanceFinished`, `HivesStarve`, `PumpsOn`, `ComesBack`, `AllArrives`,
`ForgetsTheGone`, `EverybodyServed`), which is out of the prover's reach. Every
invariant and every action property that a run checks is a theorem.

## 5. Not modelled, and why

Positions, walls, gravity, speeds and angles as numbers (continuous geometry);
weapons, items and robots of stock XPilot; rendering, files and the metaserver
(pure input and output); other bots (reactive steering without protocol state).
This is most of the 187,000 lines: the modules cover the program's own protocols
and the parts of XPilot that its bots stand on.

Within the modelled parts: more than one dancer or onlooker at a time, death in
the middle of a dance (`beeDance.c:31`), a message that comes during a deposit
(`bee.c:159`), an onlooker that watches a ship which never dances (`bee.c:208`),
two chat messages in one frame (`beeMain.c:457`), `Do_refuel`'s phasing and
`teamFuel`, limited lives, the macro check of `Receive_keyboard`
(`netserver.c:2147`), keys pressed and released between two packets
(`netclient.c:615`), the nurse key of a dead player (`event.c:1162`), fuel cells
added while a station is remembered (`map.c:201`), pausing, weights set by chat
messages. Arrays that are too short for what may come: the moves of a dance and
what is observed of them (`beeDance.c:149`, `beeObserve.c:158`). Of the chaser:
a path longer than its buffer (`chaser.c:448`), a trait toggled in flight
(`chaser.c:1029`), a message before the map is read (`chaser.c:1209`), death in
flight (`chaser.c:1258`). astar never says that there is no path (`astar.c:129`,
`astar.c:215`); `PathIsReal` excepts it. Of the connections: a buffer `c` that
overflows, both farewells of the server lost (`x11/join.c:86`), reordered
datagrams of one frame (`netserver.c:1310`), the least size worth sending
(`netserver.c:2302`), the `Handle_input` that `Handle_setup` calls itself
(`netserver.c:900`; the acknowledgement it may read is a step of its own), and
which of its reasons `Handle_listening` destroys a connection for. Simplified:
a random destination that happens to be (0, 0) is drawn anew in each frame
(`chaser.c:534`), on which no property depends; players do not leave, and with
nobody left `Fuel_update` returns at once (`update.c:562`), so that `HivesStarve`
speaks of a server somebody plays on; a turn does not overshoot its heading, so
that `DanceLearned` and `DanceFinished` hold at the turn speed the ships start
with. Of the queue:
the version test of `Setup_connection` (`netserver.c:660`), names of robots,
teams, locked games, recording and playback.

## 6. Plan

1. *Extend.* `Waggle` with death in the middle of a dance and a passing ship that
   is mistaken for an onlooker; `RoleSignal` inside `Bee`, and `Bee` with keys that
   arrive late; the ring of chat messages; alliances (`server/alliance.c`).
2. *Prove more.* That dancing never gets stuck as a safety property (every frame
   but a missed one makes `Age` or the place in the movement go on), which is
   what `DanceFinished` needs of the safety side, as `ComesCloser` is what
   `ComesBack` needs.
