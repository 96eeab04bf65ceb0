# Verification of the match: TLA+ models, TLC runs and TLAPS proofs

This directory specifies and checks the behaviour of the game in this repository that is
hardest to test: what happens to people, slots, connections, rounds, inputs, paint, results
and host pages when joins, drops, returns, takeovers, votes, deadlines, failed writes, signals
and reloads arrive in an order nobody wrote a test for. Every definition is translated from the code (the `map` of `PROJECT.json` names the
lines), TLC checks it on small instances, and TLAPS proves the most important invariants for
every value of the constants.

## 1. Inventory of the system

| component | state it keeps | operations | interacts with |
|---|---|---|---|
| **ArenaRoom** (`apps/game-server/src/rooms/ArenaRoom.ts`) | phase, round, table of players, routing of connections, host, bans, options, the simulation of the round | `onJoin`, `onDrop`, `onReconnect`, `onLeave`, lobby messages, `fixedStep`, `startRound`, `returnToLobby`, `onDispose` | everything below |
| **Formation** (`formation.ts`) | none (pure) | `planFormation` | called by ArenaRoom for the lobby and for `startRound` |
| **MatchSimulation** (`packages/game-simulation/src/match/MatchSimulation.ts`) | per player: input queue, last sequence, hold debt, body, timers; projectiles, objects, result | `enqueueInput`, `step`, `takeInput`, `resetInputStream`, `setSuspended`, `finish` | stepped by ArenaRoom at 30 Hz; paints, modes, bots |
| **Game modes** (`match/modes.ts`) | capsule of the Correio, pickups, Mutirao combos | `step`, `drop`, `snapshot` | called by MatchSimulation and by `onDrop` |
| **Paint replication** (`paint/PaintState.ts`, `PaintReplica.ts`, `paintWire.ts`) | owner of each cell, chunk versions, sequence, pending changes; replica with buffer | `flushDeltas`, `toSnapshot`, `receiveSnapshot`, `receiveDelta`, `expectRound` | server to client over the connection; `paint.resync` back |
| **Stealth filter** (`visibility.ts`) | per player: concealment, last place seen | `observe`, `update`, `remove`, `reset` | filters ArenaRoom's snapshots |
| **Results sinks** (`results.ts`, `db/resultSink.ts`) | keys written, writes in flight | `write` | called when a round ends or is cut |
| **Rate limits and credentials** (`rateLimit.ts`, `auth.ts`, `clientIp.ts`) | token buckets per key | `take`, `verify` | guard joins and messages |
| **Server process** (`server.ts`, `main.ts`, `config.ts`) | registry of rooms per session | start, shutdown | creates and disposes rooms, waits for their results |
| **Client prediction** (`LocalPredictor.ts`, `RemoteInterpolator.ts`) | sequence and action counters, inputs not yet acknowledged | `step`, `reconcile` | sends inputs, receives acknowledgements in snapshots |
| **Client session** (`AppController.ts`, `MatchConnection.ts`) | current connection, rejoin attempts, map being loaded, deferred messages | `connect`, `onRoundLoading`, `ensureMap`, `close` | joins rooms, drives the runtime |
| **Activity SDK** (`activity-sdk`) | nonce, port, pending requests, timers | handshake, `request`, responses, `destroy` | between the host page and the game |
| **Activity shell and voice** (`activity-shell`, `voice-adapter`) | laboratory sessions, voice connection | requests, join and leave of voice | host of the Activity SDK |
| **Bots, movement, geometry, physics** | positions, velocities, navigation | `think`, `stepPlayer` | inside MatchSimulation |
| **Rendering, audio, interface, content, tools** | presentation and data | | |

What is hard, and what would make each component correct:

* *ArenaRoom.* One JavaScript thread runs each handler to completion, but the network orders
  the handlers: the connection a takeover displaced reports its drop and its departure later,
  windows end while people return, bans lapse while a connection is closing. Correct means:
  one slot per person, each connection routed to the slot that names it, a live host, nobody
  frozen and nobody driven twice, fixed equal teams during a round, one result per round, no
  phase that lasts for ever.
* *Formation.* Boundaries (odd numbers, more people than seats, no bots): equal teams, the
  bench takes turns.
* *MatchSimulation.* Inputs arrive late, in bursts or not at all: an input is simulated at
  most once and in order, steps plus delay equal ticks, a new controller starts from zero.
* *Paint.* Deltas overtake snapshots and rounds change: a synced replica equals the server.
* *Modes.* The capsule has one place; it is never lost when its bearer leaves.
* *Stealth.* Nothing about a hidden player after it was last seen leaves the server.
* *Sinks.* One row per round even if two writes overlap or the first one fails.
* *Client session and SDK.* Answers of a previous connection or document change nothing.

The hazards, each at its line and with the properties that would catch it, are in
`PROJECT.json`.

## 2. Modules

| module | what it is |
|---|---|
| `Formation` | `planFormation` in closed form: who plays, in which team, how many bots |
| `MCFormation` | the loop of the code (sort, seats, running counts) and the closed form compared on every table of at most five people |
| `FormationProofs` | lemmas: ranks, who plays, how many each team gets; a plan that is not blocked is fair |
| `ArenaRoom` | the room: one action per handler, message and step |
| `ArenaRoomProperties` | its invariants, action properties, fairness and liveness, and the parts of the inductive invariant |
| `Membership` | abstract specification of the room: people, one place and one voice each, a host; `ArenaRoom` implements it |
| `ArenaRoomLoading` | the room with a history variable: which connection confirmed which round |
| `MCArenaRoom` | symmetry and state constraints of the runs |
| `ArenaRoomProofs` | theorems: types; slots, routing, connections, host; who is simulated, drivers, announcements, results, hosting, bench; equal teams; the refinement of `Membership` |
| `InputStream` | the inputs of one player inside the simulation: queue, waiting, debt, recovered steps, deaths and journeys, changes of controller |
| `InputSession` | the same person from end to end: predictor, connection, handlers of the room, drops, returns, bots and takeovers; it extends and implements `InputStream` |
| `InputStreamProofs` | theorems about both: time, order, what a new controller, an acknowledgement and an action can count on |
| `PaintState` | the paint and its replica as functions on records: painting, areas, deltas, snapshots, buffering |
| `PaintSync` | the paint of a room and its copy in one client: the room's messages, the connection, the loading of maps and the queue of deferred messages |
| `MCPaintSync` | the arena of its run: chunks and weights of the cells |
| `PaintProofs` | theorems: the score is the area, a replica in step equals the room, nobody waits for paint that will not come |
| `Correio` | the capsule of the Correio do Ara as functions on a record |
| `MatchRound` | a round tick by tick: the turn of each player, eliminations, respawns, falls, journeys, the special, the capsule, and what the room does between ticks; it extends `Correio` |
| `MCMatchRound` | its three players |
| `MatchRoundProofs` | theorems about the round |
| `ResultLog` | abstract specification: a log where looking for a round and adding its row are one step |
| `ResultSink` | the two destinations of results, await by await |
| `ServerStop` | the rounds of a server, its signal, its death and its next start, over `ResultSink`; it implements `ResultLog` |
| `MCServerStop` | which call carries which round |
| `ServerStopProofs` | theorems: the sink, the refinement, what a stop keeps |
| `ActivityBridge` | the game inside a host page: handshake, channel, requests, connection and closing |
| `ActivityBridgeProofs` | theorems: whose answers a document takes, which channel both ends use |
| `Stealth` | the filter of hidden people and when the room runs it |
| `NavGraph` | the graph of a bot and its search for a path |
| `Mutirao` | which conversions of the floor start a bonus for two allies |
| `MCRoomHelpers` | one instance of the four parts that share no state: `Formation`, `Stealth`, `NavGraph`, `Mutirao` |
| `RoomHelpersProofs` | theorems: the loop of `planFormation` is the closed form and its plans are fair; what adversaries are shown; who earns a Mutirão; shortest paths |

### How ArenaRoom corresponds to the code

* `players` is the map of `RoomPlayer`s, a function from ids to records (`Vacant` where the map
  has no entry); `bySessionId`, `replacedSessions`, `kicked`, `hostPlayerId`, `nextPlayerId`,
  `phase`, `roundId`, `fillWithBots` and `formation` have the names they have in the code.
  `ticksLeft` is `phaseDeadlineTick - tickCount`, or what is left of the simulation's clock.
* The simulation appears as far as the room drives it: whether there is one (`sim`), which
  people are in it (`roster`), which of them are suspended, and which a bot drives (`brains`).
  Bots have no connection and their entries do not change during a round: `bots` counts them.
* `net` is the transport's view of each connection (external: Colyseus), as the handlers
  assume it. A drop opens a window, which ends by `onReconnect` or by `onLeave`; an `onDrop`
  that opens no window is followed by `onLeave` (state "ending"); a takeover asks a live
  connection to leave ("leaving", which may still speak or drop) and rejects an open window
  ("rejected"). Any of these may be delayed while everything else goes on.
* `told` is the last round each connection was told of by `ROUND_LOADING`, the one message the
  room's own protocol depends on; `sinkWrites` are the calls of `sink.write`.
* A join is `JoinNew` or `Rejoin`: `onJoin` with `takeOverSlot`, the promotion of the host and
  `afterJoinSync`. `onDrop` has three cases and `onLeave` four, each a named operator.
  `StartRound` is the whole of `startRound`: the cleaning of the table, the plan, the bench,
  the bots, the simulation and the announcements. `FixedStep` is one tick.

Left out of ArenaRoom: names, avatars, weapons, appearance, map rotation, palette, notices and lobby
broadcasts (nothing in the room's control reads them), and `INPUT`, `PAINT_RESYNC`, `PING`
and the snapshots (other components). A definition marked *Variant* is a plausible mistake
that no action uses; each property is shown to fail when the definition after it is replaced
by the variant (`mutants` in `PROJECT.json`).

`Membership` says what all of that promises the people of a session. Of a person it keeps the place
(`vacant`, `connected`, `reconnecting`, `replaced_by_bot`) and the connection that speaks for it;
of the room, its doors, its host, who is expelled and which connections entered. The mapping
(`ArenaRoomProperties`) reads them from the entry of the person in the table (`EntryIn`), wherever
it is, from the person of `hostPlayerId`, and from what the transport knows. `JoinNew` and `Rejoin` are
one step there, `Enters`: a person who comes back, takes over from another connection or is new is
told apart only by the limit of members. `onLeave` gives the place up or keeps it for a bot.
`startRound` and `returnToLobby` are `Forgets`, which gives up all kept places at once. Everything
else is a step that changes nothing: ticks, votes, teams, and every late `onDrop` and
`onLeave` of a connection that was displaced, which is what the bookkeeping of `bySessionId`
and `replacedSessions` is for. `Membership` has no numbers of slots and no marks, so it
cannot make up for one that is stale.

### How InputStream and InputSession correspond to the code

* `player` is the part of a `SimPlayer` its input stream depends on, with the names of the code
  (`stale` is `staleTicks`, `lastSeq` is `lastProcessedSeq`); `phase` and `tick` are the
  simulation's. `TakeInput` is `takeInput` as a function of the player; `StepOnePlayer`,
  `CatchUp` and `World` are the three parts of a tick, composed in `RunningTick` in the order of
  `step`. `Reset` is `resetInputStream`, which `ChangeHands` couples to the bot being put on the
  slot or taken off, as each caller does.
* An input is its sequence and its discrete actions. Because the client numbers its actions in
  the order it sends them, a list of actions is the set of their numbers, `slice(-8)` keeps the
  newest, and the deduplication of `stepPlayer` keeps those above `lastActionId`.
* What the world does to the player is a choice in each tick: killed, reappearing, a journey
  that starts (only by an action), lands or is cancelled. Positions are not modelled.
* In `InputSession` the predictor is made by the first snapshot of a round, numbers from one,
  and is thrown away by `BeginRound`, the moment `GameRuntime.beginRound` runs after the map is
  ready; between the message and that moment (`switching`) snapshots are ignored and the old
  predictor goes on. `Return`, `WindowExpires`, `Rejoin` and `Reopen` are `onReconnect`,
  `onLeave` and `takeOverSlot` seen from one slot of the round; the rest of those handlers is
  in ArenaRoom.
* The connection delivers in order while it is up; a drop loses what was in flight, and what
  the client sends meanwhile is kept by the SDK or lost (both are explored).
* `steps`, `accepted`, `applied`, `lost`, `from` and `heard` are history for the properties.

Left out of them: spectators (they have no predictor), the lock-step of several players in a
tick (their streams do not touch each other), and rounds after the first (each round makes new
`SimPlayer`s and a new simulation).

### How PaintState and PaintSync correspond to the code

* A painted arena is a record with the fields of `PaintState` (`owner`, `version` for
  `chunkVersion`, `units` for `teamUnits`, `seq` for `paintSeq`). A splat is a set of calls of
  `setOwner`, made one at a time by `Paint` at any cell: which cells a splat reaches is geometry.
  `Parts` cuts the changed chunks into messages as `flushDeltas` does, in ascending order
  (`Ascending` stands for the sort of keys and of numbers); a snapshot holds changes that no
  delta has told yet, as `toSnapshot` does.
* `ReceiveDelta` and `ReceiveSnapshot` are the methods of `PaintReplica` with every early return;
  `AsksFor` is the call of `requestResync`. The queue of the replica loses its oldest delta
  when full; the queue of the controller (`later`) loses the newest message.
* `OnLoaded` and `OnResync` are the two handlers with their throttle. `recent` is
  `now - lastResyncAt < 1500`. `RoundSoFar` is what `afterJoinSync` sends.
* `ReceiveLoading` is `onRoundLoading`, which chains the preparation of a map after those before
  it; `MapReady` is the end of one preparation: the round begins and is confirmed if it still is
  the current one, and after the last one the deferred messages are applied in order.
* One client stands for all, because the room treats each connection by itself; what the other
  people do appears as the deadline of the loading, which may come at any time.

Left out of them: the context tag (one match has one, and the number of the round tells rounds
apart), the binary encoding, a map that fails to load, the expiry of the window of a drop.

### How Correio and MatchRound correspond to the code

* `turn` is where `MatchSimulation.step` is: the players by id (`stepOnePlayer`, with the step
  it recovers), then what flies or lies in the world (`stepProjectiles`, `stepObjects`), then
  the modes and the respawns. The room's handlers (`onDrop`, `onReconnect`, a bot that takes
  over) run between ticks only, because a tick is synchronous.
* A player is what the rules read: alive, the wait for a respawn, the protection, the phase of a
  journey with its timer and target, whether the special is charged or in use, and whether the
  slot is suspended. `Eliminated`, `Respawned`, `Departed` and `Activated` are the functions of
  the same purpose; `Respawned` keeps the charge and the special, as `respawnNow` does.
* A capsule is `CorreioMode`'s fields with their names in the code (`aguardando`, `disponivel`,
  `carregada`, ...). `Drop` is `drop`, and whether the ground under it is valid is a choice.
* Whom a shot hits, who falls, who is near the capsule or inside a station, whether the paint of
  the station is enough and how long a wheel rolls are choices of the step that asks for it.
* `life`, `takenIn` and `held` are history. The branch of `CorreioMode.step` for a bearer that
  is gone or dead is in the model and is never taken: every way to die drops the capsule first.

Left out of them: ammunition, positions, statistics, and the buffs (`BuffPickups`, which decide
speed and ink only).

### How ResultSink and ServerStop correspond to the code

* A call of `write` is at the stage where it awaits: the one shared `readExisting`, its
  `appendFile`, the call of the same round that is appending, or the `INSERT ... ON CONFLICT`.
  What follows an await runs in the step that settles it.
* The file is the number of whole lines of each round and the state of its last line. A process
  that dies inside an append leaves a line that is cut short, or one that lacks only its end;
  the next append is glued to it. The reading at the next start skips what it cannot parse.
* A round is a room with one round. `RoundFinished` does not await its write. `Disposed` is
  `onDispose` up to its await: a round that is being played stays "disposing" until its write is
  answered and `DisposalReturns`; any other is gone at once. `Exit` waits for rooms only, so a write
  that no room awaits ends with the process; `Crash` and `Boot` are the end and the next start of
  the process.
* `interrupted` and `spoiled` are history: the rounds a disposal found being played in this process,
  and the rounds whose line was cut off or run into by another, which no answer of the
  destination shows. No guard reads them.
* `ResultLog` has the same calls with one step each: look for the round, add the row, answer
  later. `ImplementsLog` instantiates it with the rows that a reader of the destination would
  count.

External assumptions: `gracefullyShutdown` of the library asks every room to end and returns after the
`onDispose` of each, those that were emptied just before included, as the comment at
`ArenaRoom.ts:355` takes for granted; an `appendFile` that fails did not write its whole line with the end;
the file can be read whenever it exists (`readExisting` takes any error for an absent file); the
appends of one process do not interleave inside a line; the drain of `pool.end` is not relied
on. `MemoryResultSink` is the tests' double.

### How ActivityBridge corresponds to the code

* One frame at a time: `openings` and `reloads` number its documents. The fragment of the URL is
  in it only until the document removes it (`history.replaceState`). `hellos`, `inits`, `up` and
  `down` are the window messages and the two ends of a `MessageChannel`; closing a channel
  loses what was in it.
* The host answers a HELLO with a new channel and closes the old one (`ActivityHost`); its
  handlers are awaited (`serving`) and answer over the channel they were asked on. The client
  (`ActivityClient`) keeps the port of the first INIT, numbers its requests and forgets one when
  it is answered or its time is over.
* The page is `AppController` and `MatchConnection`: `connect` asks for a credential, joins and
  stores the connection, each after an await; a lost connection is tried again; `close`
  awaits `leave`. `LabHost` asks for the closing, waits, and removes the frame.
* `prompt` is history: the first HELLO of a document was answered before it repeated it.

Left out: messages that only inform (context, visibility, size, voice) and the schemas. It is
assumed that `conn.leave()` settles.

### How Stealth, NavGraph and Mutirao correspond to the code

* *Stealth.* A place is the tick at which it was taken, so a person who never stops moving is the
  model of all. `Observed` is `observe` and `reveal` over the events of one tick, `Passed` is
  `update` with `hiddenTuple`, and `Snapshot` runs them as `sendSnapshots` does; events of ticks
  without a snapshot change the entry at once. The code subtracts seconds in doubles, and a
  timer that should be over at a snapshot is over at the next one (0.4 less six times 2/30 is
  8e-17; 1.0 less fifteen times 2/30 is not zero either): the model counts ticks and gives
  both delays one tick more. The last snapshot of a round may come one tick after the one
  before it (`onRoundFinished`). `eventAt` and `unmetAt` are history: the rule of
  `docs/networking.md` told without the filter.
* *NavGraph.* The places and the links the physics leaves are chosen; `Floods` and `Compacts` are
  the end of `build`, `Iterates` is one turn of the loop of `findPath`. Distances are numbers
  that obey the laws of a metric; the rounding of doubles is left out. `Infinity` is a value of
  its own, above any way. Equal priorities are taken in any order.
* *Mutirao.* `Records` is `record`, called while a tick simulates its players and what they threw;
  `StepsMutirao` is the end of the tick: timers, then `step`. `Paying` is computed for everybody
  before any pair pays, as the code does. Who is alive and which pairs are in one sector are
  choices. What left the window is dropped each tick rather than at the next reading. The
  lists of `recent` are sets of numbered conversions, since only sums and windows are read from
  them, and pairs are evaluated in the order of the players' numbers, as `sorted` lists them.

## 3. Runs

| run | instance | what it shows |
|---|---|---|
| `helpers` | formation: up to 5 people, waits 0 to 2, team limit 2, options flex, 1, 2, with and without bots; filter: 2 adversaries, 16 ticks; way: every graph of 5 places over 10 links, searches cut at 2 nodes or not; Mutirão: 2 pairs of allies, 2 squares, 7 ticks, 4 conversions | the closed form is the loop (`SameAsLoop`), plans are equal, full and within limits (`PlanIsFair`); adversaries are shown the place the rule says (`ShownByTheRule`); a path is the shortest there is (`PathIsShortest`); who starts a Mutirão earned it (`ActivationsAreEarned`) |
| `sessions` | 2 people, 3 connections, 1 round | `OneSlotPerUser`, `RoutingAgrees`, `ConnectionIsReal`, `ReplacedAreLeaving`, `HostIsLive`, `DriverMatchesConnection`, `EverybodyTold`, `HostIsStable` |
| `rounds` | 3 people with one connection each, 2 rounds, bots on and off, fixed formation | `RosterIsTable`, `BalancedTeams`, `ResultsOnce`, `RosterIsFrozen`, `BenchTakesTurns` |
| `live` | 2 people, 2 connections, fairness | the room implements `Membership` (`KeepsMembership`); `RoundEnds`, `ResultsEnd`, `WindowsClose` |
| `inputs` | one person; queue of 3, waits of 3, repetitions of 2, ceiling of 2, one action kept; 5 ticks, 4 inputs, 1 drop or takeover | `NoTimeGained`, `QueueInOrder`, `TakenWhenOneVoice`, `HistoryCoversFlight`, `ActionsConserved` |
| `inputs_return` | the same with 3 inputs | finding: `NewInputsAreTaken` is violated |
| `paint` | 2 chunks of one cell, one of them scoring; deltas of one cell, 1 buffered delta, 2 deferred messages; 2 rounds, 2 cells painted in each, 1 drop or new page, 3 messages in each direction | `ScoreIsArea`, `QuietMeansEqual`, `NobodyWaitsForever` |
| `match` | 3 players (two allies and an adversary), 9 ticks, 2 incidents, 2 deliveries to decide | `CarrierPlays`, `CapsuleStaysBehind`, `SpecialHasWheel`, `DeliveryIsEarned` |
| `results` | 2 rounds, one of them asked for twice, file or table, 2 starts of the process, fairness | the destinations implement the log (`ImplementsLog`), what a stop interrupts can be read afterwards (`InterruptedAreKept`), every call is answered or lost with its process (`EveryCallSettles`) |
| `bridge` | 2 openings, 1 reload, 2 HELLOs, 4 channels, 2 requests, 2 joins, 1 rejoin, fairness | `AnswersAreOwn`, `ChannelIsHosts`, `ClosedPageLeaves` |
| `limit` | 3 people in a room for 2 | finding: `RoomLimit` is violated |
| `loading` | 1 person, 2 connections | finding: `CountdownWaitsForAll` is violated |

Bounds, and why they are enough. Durations are one tick (two for loading in `live`, so that
the deadline and the confirmations race): what matters is that a phase can end before or
after another event, not how long it is. Two people and three connections give every relation
between connections that a handler can see: the same user with a newer and an older
connection, in each state of the transport, and somebody else to promote. Three people with
teams of at most two give an odd number, a bench, a team that is full and a rematch that is
blocked or not. `MaxPlayerId` bounds how many people are admitted over the life of the room
and `MaxRounds` how many rounds it starts. `rounds` follows at most one connection that is
away at a time and no expulsions (the constraints in `MCArenaRoom`), because `sessions` covers
those. Two connections give `live` every step of `Membership`: somebody who goes on elsewhere, or two
people of whom one hosts. Connections and people are interchangeable in the safety runs
(symmetry). `Gone` is the
step of a room that was disposed, so that deadlock is checked in every other state.

In `inputs` the limits keep the order they have in the code (repetitions stop before the waiting
does, the queue is longer than either debt) and are small enough to be reached: four inputs
overflow a queue of three, fill a history of three and pay a debt of two; one action kept
makes `slice(-8)` lose one. Five ticks hold a countdown, a wait up to its ceiling and a burst
that recovers it. One drop or takeover gives each change of controller once (a return, a bot
followed by a rejoin, a reopened page); two predictors are the old one and the new one. The
end of the round stops the model, so deadlock is not checked there.

In `paint` every limit is passed: two cells in two chunks need two deltas, the replica's
buffer of one overflows, and a snapshot with two deltas overflows the deferred messages, so that
gaps, requests and dropped requests occur (a reliable connection makes no gaps otherwise). Two
rounds let messages of one arrive while the client loads, or waits for, the other. The deferred
messages overflow only while no confirmation was answered a moment ago: 600 messages take
far longer than 1.5 s to arrive. The last round's end stops the model, so deadlock is not
checked there.

In `match` nine ticks hold the start, a respawn (two ticks), a journey (one tick of each phase),
the fall of the capsule and its return, and two deliveries; an incident is an elimination, a
fall, a journey, a special, a drop, a late input or a recovered step, and two of them give every
pair (killed while a drop is undone, a special that outlives its owner). Two allies and an
adversary are every relation between the bearer and somebody else. `Painters` limits who
charges the special to one. The round ends, so deadlock is not checked.

In `results` two calls of one round overlap with a call of another, each may fail or be cut short
by the death of the process, and a second start reads what the first one left.

In `bridge` a second opening or a reload gives messages and answers of a document that is gone;
two HELLOs give the repetition; two joins and one rejoin give a connection that arrives after it
is wanted. Everything may be closed, so deadlock is not checked.

In `helpers` each behaviour is of one part, with the others at rest. The delays of the filter are
two snapshots and the remainder of the doubles; sixteen ticks hold two rounds, a hiding, a
revelation and the end of both. In the five places of the way the second looks as near to
the last as the third and leads there by a longer way, so that nodes are improved after they
were queued. Each square of the Mutirão is enough for one ally, so the fourth conversion is
the adversaries' attempt to be paid by squares that rest; the cleaning happens once inside
the reuse time. A formation that is complete or a room that stays as it is are no deadlock.

Fairness.

* `live`: `WF(FixedStep)`: `setFixedTimestep` ticks for as long as the room exists.
  `WF(OnLeave)` of a connection that is leaving, rejected, ending or dropped: the transport
  reports the end of a connection it closes, and the window of `allowReconnection` has a timer.
  Nothing is assumed of people: they may never load, vote, return or leave.
* `results`: while the process runs, a file operation or a query ends one way or another (`WF` of
  the reading, and of each call's work or failure). Nothing is assumed of rounds, signals or
  restarts.
* `bridge`: ports deliver (`WF` of what the host takes), the effect that unmounts a frame destroys
  its host and removes it, the delay of 300 ms before the removal ends, and `leave` settles. The
  person, the credential server and the match server may never answer.

## 4. Proofs

TLAPS proves, for every number of people, connections, ids and rounds and every duration:

* `TypesHold`: the room's types. The invariant is `TypeInv`, the types together with
  `ClockRuns` (a phase with a deadline has not reached it), without which a clock could pass
  below zero. `StartRoundTypes` needs the typing of the plan (`PlanTypes`), which rests on the
  cardinality theorems of the library.
* `OneSlotHolds`, `RoutingHolds`, `ReplacedHold`, `ConnectionsHold`, `ExpelledHold`, `HostHolds`:
  `OneSlotPerUser`, `RoutingAgrees`, `ReplacedAreLeaving`, `ConnectionIsReal`, `NoWindowForKicked`
  and `HostIsLive` (`NoWindowForKicked`, that nobody who is expelled is waited for, is a fact about
  `Membership` too, where a run would show it broken). None of them is inductive alone. Whether a late `onLeave` frees the wrong slot depends on the routing;
  that the routing survives a takeover depends on what the transport knows of the displaced
  connection; that the host is live depends on bots having no connection. `SlotsInv` is their
  conjunction with `FreshIds` (ids in the table are below `nextPlayerId`, so that a newcomer
  takes nobody's slot). Most steps only change what a player wants or did, or forget slots
  that bots drive: `TableStepKeepsSlots` handles those at once, and the five connection
  handlers have a lemma each.

* `RosterHolds`, `DriversHold`, `TellingHolds`, `ResultsHold`, `RosterStays`, `HostingStays`,
  `BenchIsFair`: the properties of rounds. `RoundInv` is their inductive invariant: `Stages` ties
  the simulation to the phase and to the disposal; `RosterAgrees` compares roster, suspension and
  bots with the table slot by slot, because a handler changes one slot; `EverybodyTold`;
  `Written` adds to `ResultsOnce` that the round being played has no result yet, without which
  its end could record a second one. It needs `TypeInv` and `SlotsInv`: that a late `onLeave`
  replaces nobody by a bot depends on the routing. `BenchIsFair` is the inclusion of the set of
  people ahead of one in the set ahead of the other, so that counting orders them.
* `TeamsAreBalanced`: `BalancedTeams`, for any number of people, seats and limits. `Balance` is its
  inductive form (with the types of what is counted): within a round the roster and the bots stay
  (`RosterKept`, `BotsStay`), so what is left is `StartRound`, which seats exactly who the plan
  seats (`SeatsAreTaken`, `StartsBalanced`). `PlansAreFair` (`FormationProofs`) is about one call of
  `planFormation`: who comes first is a strict total order, so ranks number the candidates
  (`RanksCount`); whoever plays is a prefix of that order, and of the w who want a team in a prefix
  of at most 2s people exactly min(s, w) get it (`WishesGranted`), so that each team gets
  min(s, w) + w' - min(s, w') (`TeamsOfPrefix`), which is at most s and both are s when the
  seats are taken (`TeamsFit`).
* `RoomIsMembership`: `ArenaRoom` implements `Membership`. The invariant is `TypeInv` and `SlotsInv`:
  because a person has one slot, a handler that writes one entry changes one place and one
  voice (`OneEntryChanges`, `OnePlaceChanges`); because routing, table and transport agree, a
  connection that is displaced names no place. `MembersAreSeated` is a bijection of members and
  occupied slots, so that the limit counts the same on both sides; `HostUserStays` and the
  invariant about the host give the promotion. One lemma for each kind of step says which step of
  `Membership` it is (`JoinsEnter`, `DropsLose`, `ReturnsRegain`, `LeavesLeave`, `MessagesForget`,
  `TicksForget`, `RoomStepsShow`), and `StepsShow` puts them together.
* `FormationIsLoop`, `PlansHold`: `SameAsLoop` and `PlanIsFair` for every table. The sort lists the
  candidates by rank (`OrderIsByRank`); after k seats the running counts are those of
  `TeamsOfPrefix` for the first k, and they decide as the closed form does (`CountDecides`,
  `NextSeat`), so that the fold over the seats gives the closed form (`LoopIsClosedForm`).
* `NobodyGainsTime`: the steps of a player plus the steps it is owed never exceed the ticks of
  the running phase. The invariant is `StreamInv`: types, the order of the queue, the account of
  time and `Clock` (the countdown owes nothing, and whoever runs has passed it), without which the
  first running tick could begin with a step owed.
* `InputsInOrder`: the queue is bounded, strictly increasing and above the last sequence
  processed. The dropping of inputs for debt and for room in the queue is where it could fail;
  `TailInOrder`, `RestInOrder` and `AppendInOrder` are the lemmas about sequences it rests on.
* `SessionImplementsStream`: each step of the session is an operation of the stream or leaves
  it alone, so what is proved of the stream holds of a person with its connection, its
  predictors and the bots of its slot. The step needs the types of the session (inputs on the
  way are inputs), which `SessionTypes` gives.

* `NewControllerIsObeyed`, `HistoryCovers`, `ActionsAreConserved`: while no input of a predictor
  that is gone was taken after a reset, nothing the present one sends is thrown away as old; what the
  server has not seen is still in the predictor's history or was acknowledged; and no action is
  applied twice or lost without being counted. `PersonInv` (`PersonCorrect`) is their inductive
  invariant over `StreamInv`: what is on the way is in the order it was numbered, is part of the
  predictor's history and lies between the last sequence processed and the next one sent, an
  acknowledgement on the way is of the controller that is heard, and every action is with the
  predictor, on the way, queued, applied or lost.
* `ScoreHolds`, `QuietHolds`, `NobodyWaits`: the three properties of `paint`, for every arena, every
  weight of its cells, every limit of a delta, of a buffer and of a queue, and any number of
  rounds, drops and messages (`PaintInv`, `PaintCorrect`). The idea is what a number promises: of a
  message or a replica that has the painting up to number *n*, the invariant says that if the
  deltas on the way (in the connection, in the queue of deferred messages, in the buffer of the
  replica) go on from *n* without a gap, then applying them gives the painting of the room but
  for its pending cells, at the versions those begin from (`Truth`, `ReplicaOk`). A gap makes the claim
  void, never false, so that overflows, drops and requests need no case of their own; a delta
  and a snapshot only ever extend what is promised. `Carried` says that each queue is in order
  and never tells of a round the room has not reached, `RoundInv` relates the announced, the loading
  and the present rounds, and `HelpInv` names, for a replica that waits, what will end the
  waiting: a snapshot, an announcement, a map being prepared or a request on the way (`Base`,
  `Scope`). `AreaIsTotal`, `Additive` and `OneMoreCell` are the lemmas on sums of areas and on
  deltas applied cell by cell in whatever order.

* `CarrierKept`, `CapsuleLeftBehind`, `WheelKept`, `DeliveriesEarned`: the properties of `match`,
  for any players, teams and times. `MatchInv` adds the types and `WorkIsOwn` (the progress at a
  station is what its present bearer worked without a break), without which a delivery could be
  paid by the work of the bearer before.
* `SinkIsLog`: `ServerStop` implements `ResultLog`. `SinkInv` is types, one store in use
  (`StoresApart`), one call at a time that appends a round (`OneWriter`), nobody past the
  reading before it is done (`LoadedFirst`), whatever was seen is a row (`RowsAreSeen`), who
  appends is new (`AppendsAreNew`) and who was refused has its row (`RefusedAreThere`): the steps
  at which a call looks and at which it adds are apart, and these facts make the answer of the
  first still true at the second. `InterruptedKept`: after a process ended by itself, every round
  it interrupted can be read, unless its write failed or a torn line spoiled its own. `StopInv` has
  two halves. `DisposalsWait`: a round that was interrupted is being disposed of, or its write was
  answered, so that an exit finds it answered (`ExitAnswers`). `AnswersHold`: whatever was seen, and
  whatever a call was told or is about to be told, is `Kept` (it can be read or was spoiled). That is
  not the log's promise, which speaks of the moment of the answer: it has to survive later appends
  that are cut short or run into the line, and restarts (`KeptStays`, `AnswersGoOnHolding`).
* `OwnAnswers`, `ChannelKept`: `BridgeInv` says that nobody serves a document that is gone
  (`NobodyServed`, `PostIsOwn`), that the fragment is in the URL of new documents only
  (`FragmentIsNew`), how many HELLOs can still make a channel (`HellosCounted`), and which port
  both ends hold (`PortAgreed`).
* `ShownHolds`: `StealthInv` is the types, `EntriesAgree` (each entry is the one its history asks
  for, timer by timer) and `ShownByTheRule`. It assumes `CodeDelays`: snapshots two ticks apart,
  an odd revelation (which no snapshot hits exactly) and a delay of more than a tick, as the
  code's. `RevealSteps`, `DelayAgrees`, `PassAgrees` and `LastPassShows` are the arithmetic.
* `MutiroesAreEarned`: `ActivationsAreEarned`, for any players, squares, windows and cooldowns.
  `MutiraoInv` relates what the tracker keeps with the history: `WindowsAgree` (of
  each player, what is kept and what was converted have the same window, however it was
  trimmed), `SpentAgrees` (a square is remembered at the last tick it paid as long as it must
  rest, so that what is forgotten is rested anyway) and `RestingAgrees` (the countdown is what is left of
  the cooldown). One evaluation goes through the pairs in turn; `PairedAreChosen`, by induction on
  the pairs evaluated, says that the pairs it starts are ready, near and share nobody.
* `PathsAreShortest`: `PathIsShortest`, for any graph, spawns, ends and limits, with any distances
  that obey the laws of a metric. `NavInv` has two halves. `NodesOk`: what `compact` leaves is the
  reached places, each under one number, with their links, and nothing leads out of them
  (`NumbersAreNew`), so that a way through the sampled places is a way of nodes. `SearchOk`, the
  loop of `findPath`: a reached node that waits has its present priority in the queue, and no
  entry promises less than its node keeps (`QueueAgrees`, which the entries left behind by an
  improvement obey too); a closed node comes before all that waits and has offered its way to
  all it leads to (`ClosedAgree`: by the triangle inequality nothing closed is ever improved);
  a reached node came from a closed one at its cost (`CameAgrees`). No way is
  shorter than the least priority that waits, unless the end was reached at no more
  (`NoWayIsShorter`, induction along the way); an empty queue leaves no way at all
  (`NothingLeft`); costs fall at each step back, so that the loop of tracing ends at the start
  within as many turns as there are nodes (`TraceIsWhole`).

Induction over data is written with the least element of a set of numbers (`LeastNumber`,
`NumberInduction` in `RoomHelpersProofs`: the numbers for which a claim holds are a set, so that no
operator is passed), and a recursive function is shown to exist by giving it; the
library's induction theorems take an operator, which the provers here cannot instantiate.

Assumptions on the constants of the other modules: every call of a destination carries a round, and
the marks of the file's end are no rounds; waits are naturals, and the time a capsule may be
carried, the deliveries and the stations are at least one; bounds are naturals, and a frame,
a HELLO and a channel exist; links join places and distances are a metric; areas, windows and
cooldowns are naturals, and the players of a Mutirão are finitely many.

Assumptions on the constants (modules `InputStream`, `InputSession`): limits are naturals, the
queue holds at least one input, predictors are numbered from one.

Assumptions on the constants (module `ArenaRoom`): creators are users, the two null values
are outside their sets, limits are naturals, durations are positive, requests have the types
the message schemas enforce.

The limit of a team is at least one (`constants.ts`: 8), in `ArenaRoom` and in `MCFormation`, whose
other bounds are naturals.

Assumptions on the constants (modules `PaintState`, `PaintSync`): cells are finitely many, each in
one chunk and of a weight; limits are naturals, and a delta holds at least one cell.

Only model-checked: liveness under fairness, which is out of the prover's reach (`RoundEnds`,
`ResultsEnd`, `WindowsClose` of `live`; `EveryCallSettles` of `results`; `ClosedPageLeaves` of `bridge`), and the
three findings, which are counterexamples. Every other property of a passing run is the
subject of a theorem.

## 5. Findings

1. `limit`: `MAX_ROOM_HUMANS` is documented as a fixed limit without hidden places, but people
   replaced by bots are not counted and return without a capacity test.
2. `loading`: the diagram of the phases says that the countdown waits until everybody has
   loaded; the confirmation belongs to the slot and survives a change of the connection.

3. `inputs_return`: `resetInputStream` exists so that the inputs of a new controller are not
   taken for old ones. The reset happens when the connection is back; the predictor is replaced
   later, when the round has been announced again and the map is ready. An input sent or kept
   in between has an old, high sequence, the stream that was reset accepts it, and from then on
   it discards the new predictor's inputs until their numbers pass it. `TakenWhenOneVoice`
   shows that this is the only way it fails: while no input of an earlier predictor was
   accepted after the reset, nothing is discarded.

Nothing to report of the paint, and why it is subtle: a request for a snapshot that comes
within 1.5 s of an answer is dropped and never repeated, yet `NobodyWaitsForever` holds, because
whoever gets such a refusal has a snapshot on the way. It holds only as long as `afterJoinSync`
itself sends the paint to who has confirmed the round (the mutant without it makes a page
reopened within 1.5 s wait for ever), and `QuietMeansEqual` only as long as a repeated
confirmation is answered again, which repairs what the full queue of deferred messages lost.

Defects and disagreements met on the way, without a run of their own.

* *Bridge.* `ChannelIsHosts` is stated for documents whose first HELLO was answered before it was
  repeated. The client repeats it every 500 ms until the INIT was processed, the host answers
  each with a new channel and closes the one before (`ActivityHost.ts:94`), and the client keeps
  the first INIT's port: if two were under way, the document holds a closed channel and its
  requests time out after 10 s. A reload never reconnects, because the fragment with the nonce
  was removed from the URL, although the comment at `ActivityHost.ts:94` and the texts that
  tell people to reload the Activity suggest it would. `close()` does not stop the
  timer of the next rejoin and `connect` does not look at `closed`: a late join leaves a
  connection open until the frame is removed (`ClosedPageLeaves` says that it is), and a late
  timer shows an error over the closed screen. A close during `ensureMap` leaves a runtime made
  after it.
* *Results.* A completed result that is being written when the process stops is not awaited
  (`ArenaRoom.ts:344-355` awaits the interrupted ones only) and may be lost. A room disposed while
  loading records nothing. A line that was cut short swallows the next row (ADR 0016 says so).
* *Correio.* `docs/mapas-e-modos.md:156` and the comment at `modes.ts:287` say that the capsule also
  falls when its bearer leaves. Only `onDrop` drops it (`ArenaRoom.ts:286`). Who leaves on purpose
  goes straight to `onLeave`, which puts a bot on the slot (`ArenaRoom.ts:321-330`), and so does who is
  expelled, because `onDrop` returns before it (283): the bot keeps the capsule and carries it.
* *Stealth.* `docs/networking.md:104` says that the server does not send the present position of
  who is hidden. The filter keeps that of snapshots, and its list of what is not filtered yet
  names hits, buffs and the Mutirão; the event of a journey's preparation
  (`MatchSimulation.ts:946`) also carries the present place of the ally who is its target, goes
  to everybody (`ArenaRoom.ts:915`), and gives away only the traveller (`observe`), not the target.
* *Mutirão.* `docs/mapas-e-modos.md:196` and the test at `modes.test.ts:184` say that a square does
  not pay for another activation for 30 s. `modes.ts:167-185` computes what everybody may pay with
  before any pair pays: a square converted by one team and then by the other within the window
  (or counted by two pairs of a team) pays for two activations in the same tick.
  `ActivationsAreEarned` therefore speaks of the ticks before. A square converted twice by one
  player counts twice.
* *Maps.* A map that fails to load (`AppController.ts:146-147`) leaves the runtime null, so later
  rounds never load either.
* *Voice.* `LabVoiceController.setMicEnabled` (`lib/client/voice.ts:263-287`) awaits the browser, and
  the consent it records afterwards (272) may land after the teardown (243) and survive into the
  next call, though the comment at its head says that it is for this call.

Older ones. The comment at
`MatchSimulation.ts:335` says that a wait that ran out repeats the movement for a few ticks; with
`INPUT_HOLD_TICKS` 15 above `INPUT_STALE_TICKS` 6 a living player that waited is always past the
repetition, which only the dead and travellers reach. `docs/networking.md:66` says that the
queue holds 6 inputs; the constant is 16. Actions lost by an overflow of the queue, a death, a
journey or the countdown are lost by design and counted in `lost`. The comment at
`AppController.ts:202` says that in a full queue only the newest message matters; the code keeps
the oldest ones and discards the newest.

## 6. Plan

In this order; each module comes with its properties, runs, mutants and, where the invariant
is about unbounded quantities, proofs.

1. *(done)* `Formation`, `ArenaRoom` and the proofs of types and slots.
2. *(done)* `InputStream`, `InputSession` and the proofs of time and order. Left for later: whether repeated ticks that were paid late
   keep the promise that each input is simulated once.
3. *(done)* `PaintState`, `PaintSync` and their proofs. Left for later: an abstract specification
   (the replica shows a past state of the server and catches up) that `PaintSync` implements,
   and the round trip of the binary encoding.
4. *(done)* `Correio`, `MatchRound`, `Mutirao` and their proofs. Left: the buffs.
5. *(done)* `ResultLog`, `ResultSink`, `ServerStop`, the refinement and its proof.
6. *(done)* `Stealth` and its proof.
7. *(done)* `ActivityBridge` with the connection of the page, and its proofs. Left: maps that fail to
   load, and the voice of the laboratory.
8. *(done)* The proofs about rounds (`ArenaRoomProofs`); `Membership`, the refinement and its proof.
9. *(done)* `NavGraph` and its proof. Left: nothing that is not geometry.

Not modelled, and why. `BotBrain` is heuristics over positions. The token bucket of the rate limits
is real arithmetic over the clock of one process, with one owner and no interleaving. The wire
schemas and codecs change no control. `GameRuntime`, characters, effects, audio and the
interface (most of the lines of the repository) present state that nothing else depends on;
what they do to messages and predictors is in `InputSession` and `PaintSync`. The shell's routes
are request handlers of a development host. Maps, weapons and tuning are data.

Not planned: positions, collisions, geometry and rendering (real numbers, third-party physics,
presentation), signatures of credentials (a library), end-to-end tooling.
