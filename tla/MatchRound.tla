------------------------------ MODULE MatchRound ------------------------------
(***************************************************************************)
(* A round of the Correio do Ara, tick by tick: MatchSimulation.step with  *)
(* eliminations, respawns, falls, the tactical travel (Piao-Guia), the     *)
(* special (Roda de Oleiro) and the capsule                                *)
(* (packages/game-simulation/src/match/MatchSimulation.ts and modes.ts),   *)
(* and what the room does to it between ticks when a connection drops or   *)
(* the slot has a controller again (ArenaRoom.ts).                         *)
(*                                                                         *)
(* A tick is a sequence of steps: the players by id, what flies or lies in *)
(* the world, the modes.  `turn' says whose step is next, and the room     *)
(* acts only between ticks.  Where people are and what they hit, and how   *)
(* long a wheel lasts, are choices.                                        *)
(***************************************************************************)
EXTENDS Correio, FiniteSets

CONSTANTS
    NPlayers, TeamOf,
    StartTick, EndTick,         \* ticks at which the round starts and ends
    RespawnDelay, Protection,   \* ticks
    Prep, Flight,               \* ticks of the two phases of a journey
    Painters,       \* bound: who paints enough to charge the special
    MaxIncidents    \* bound: eliminations, falls, journeys, specials, drops, late
                    \* inputs and recovered steps

Players == 1..NPlayers

ASSUME PlayersAssumption == NPlayers \in Nat \ {0} /\ TeamOf \in [Players -> Teams]
ASSUME TicksAssumption ==
    /\ StartTick \in Nat /\ EndTick \in Nat
    /\ RespawnDelay \in Nat /\ Protection \in Nat
    /\ Prep \in Nat /\ Flight \in Nat

VARIABLES
    players,    \* [Players -> what the rules know of a player]
    capsule,
    thrown,     \* [Players -> Nat], wheels of a player in the air
    spinning,   \* [Players -> Nat], wheels of a player on the ground
    phase,      \* "countdown", "running", "finished"
    tick,
    turn,       \* Between, a player, or what comes after the players
    again,      \* the player at turn recovers a step it had waited
    incidents,
    (* history *)
    life,       \* [Players -> Nat], how often a player reappeared
    takenIn,    \* the life in which the capsule was taken
    held        \* ticks its bearer has worked at the station without a break

rulesVars == <<players, capsule, thrown, spinning>>
history == <<life, takenIn, held>>
vars == <<rulesVars, phase, tick, turn, again, incidents, history>>

Between == 0
World == NPlayers + 1
Modes == NPlayers + 2

SimPlayers == [alive : BOOLEAN, wait : Nat, safe : Nat, travel : 0..2, timer : Nat,
               target : Players \union {NoOne}, charged : BOOLEAN, active : BOOLEAN,
               suspended : BOOLEAN]

TypeOK ==
    /\ players \in [Players -> SimPlayers]
    /\ capsule \in Capsules
    /\ capsule.carrier \in Players \union {NoOne}
    /\ thrown \in [Players -> Nat]
    /\ spinning \in [Players -> Nat]
    /\ phase \in {"countdown", "running", "finished"}
    /\ tick \in Nat
    /\ turn \in Between..Modes
    /\ again \in BOOLEAN
    /\ life \in [Players -> Nat]
    /\ takenIn \in Nat
    /\ held \in Nat

Fresh == [alive |-> TRUE, wait |-> 0, safe |-> Protection, travel |-> 0, timer |-> 0,
          target |-> NoOne, charged |-> FALSE, active |-> FALSE, suspended |-> FALSE]

Init ==
    /\ players = [p \in Players |-> Fresh]
    /\ capsule = NewCapsule(StartTick)
    /\ thrown = [p \in Players |-> 0]
    /\ spinning = [p \in Players |-> 0]
    /\ phase = "countdown"
    /\ tick = 0
    /\ turn = Between
    /\ again = FALSE
    /\ incidents = 0
    /\ life = [p \in Players |-> 0]
    /\ takenIn = 0
    /\ held = 0

-----------------------------------------------------------------------------
(* Eliminations, respawns and journeys.                                    *)
Earlier(n) == IF n > 0 THEN n - 1 ELSE 0

Vulnerable(ps, team) ==
    {p \in Players : ps[p].alive /\ ps[p].safe = 0 /\ TeamOf[p] # team}

Eliminated(ps, victims) ==
    [p \in Players |-> IF p \in victims
        THEN [ps[p] EXCEPT !.alive = FALSE, !.wait = RespawnDelay,
                           !.travel = 0, !.timer = 0, !.target = NoOne]
        ELSE ps[p]]

(* What a player keeps through a respawn; the rest is fresh.               *)
NewLifeVariant(ps, p) ==
    [ps EXCEPT ![p] = [Fresh EXCEPT !.charged = ps[p].charged, !.suspended = ps[p].suspended]]
Respawned(ps, p) ==
    [ps EXCEPT ![p] = [Fresh EXCEPT !.charged = ps[p].charged, !.active = ps[p].active,
                                    !.suspended = ps[p].suspended]]

(* The capsule of those who can no longer bear it falls or goes back.      *)
Left(c, gone) ==
    IF c.carrier \in gone
    THEN {Drop(c, c.carrier, tick, grounded) : grounded \in BOOLEAN}
    ELSE {c}

TakesAlongVariant(c, p) == {c}
LeftByFallen(c, p) == Left(c, {p})

(* Paint charges the special of who has none in use.                       *)
CanCharge(q) == q.alive /\ ~q.active /\ ~q.charged
Charged(ps, painters) ==
    [p \in Players |-> IF p \in painters THEN [ps[p] EXCEPT !.charged = TRUE] ELSE ps[p]]

CanActivate(q) == q.alive /\ ~q.active /\ q.charged /\ q.travel = 0
CanTravel(ps, p, t) ==
    /\ t # p
    /\ TeamOf[t] = TeamOf[p]
    /\ ps[t].alive /\ ps[t].travel = 0
    /\ ps[p].alive /\ ps[p].travel = 0
    /\ ~IsCarrier(capsule, p)

Activated(ps, p) ==
    [ps EXCEPT ![p] = [@ EXCEPT !.charged = FALSE, !.active = TRUE, !.safe = 0]]
Departed(ps, p, t) ==
    [ps EXCEPT ![p] = [@ EXCEPT !.travel = 1, !.timer = Prep, !.target = t, !.safe = 0]]

(* Protection ends with a shot, with time or outside the zone.             *)
Exposed(ps, p) == [ps EXCEPT ![p] = [@ EXCEPT !.safe = 0]]
Shielded(ps, p) ==
    {[ps EXCEPT ![p] = [@ EXCEPT !.safe = n]] : n \in {0, Earlier(ps[p].safe)}}

(* A tick of a journey; found: there is room to land.                      *)
Travelled(ps, p, found) ==
    LET q == ps[p]
        timer == Earlier(q.timer)
        over == [q EXCEPT !.travel = 0, !.timer = 0, !.target = NoOne]
    IN  [ps EXCEPT ![p] =
           IF q.travel = 1 /\ ~ps[q.target].alive THEN over
           ELSE IF timer > 0 THEN [q EXCEPT !.timer = timer]
           ELSE IF q.travel = 1 /\ found THEN [q EXCEPT !.travel = 2, !.timer = Flight]
           ELSE over]

-----------------------------------------------------------------------------
(* The steps of a tick.                                                    *)
BeginTick ==
    /\ turn = Between
    /\ phase # "finished"
    /\ tick' = tick + 1
    /\ IF phase = "countdown"
       THEN /\ phase' = IF tick' >= StartTick THEN "running" ELSE "countdown"
            /\ UNCHANGED turn
       ELSE /\ turn' = 1
            /\ UNCHANGED phase
    /\ UNCHANGED <<rulesVars, again, incidents, history>>

Happen(n) == incidents + n <= MaxIncidents /\ incidents' = incidents + n
One(happens) == IF happens THEN 1 ELSE 0

(* A player's step is over, unless it recovers one it had waited for.      *)
EndTurn(recovers) ==
    /\ recovers => ~again
    /\ again' = recovers
    /\ turn' = IF recovers THEN turn ELSE turn + 1

(* The player is dead, or its input is late.                               *)
Waits(p) ==
    /\ turn = p
    /\ players[p].travel = 0
    /\ Happen(One(players[p].alive))
    /\ EndTurn(FALSE)
    /\ UNCHANGED <<rulesVars, phase, tick, history>>

Travels(p) ==
    /\ turn = p
    /\ players[p].travel # 0
    /\ \E found, recovers \in BOOLEAN :
        /\ players' = Travelled(players, p, found)
        /\ Happen(One(recovers))
        /\ EndTurn(recovers)
    /\ UNCHANGED <<capsule, thrown, spinning, phase, tick, history>>

(* A player with an input: shots and hits, then the special, the journey,  *)
(* the end of protection and the fall, in the order of stepOnePlayer.      *)
Acts(p) ==
    /\ turn = p
    /\ players[p].alive
    /\ players[p].travel = 0
    /\ \E fires, special, falls, recovers \in BOOLEAN,
          victims \in SUBSET Vulnerable(players, TeamOf[p]),
          painters \in SUBSET {q \in {p} \intersect Painters : CanCharge(players[q])},
          target \in Players \union {NoOne} :
        LET ready == IF fires THEN Exposed(players, p) ELSE players
            shot == Charged(Eliminated(ready, victims), painters)
            spent == IF special THEN Activated(shot, p) ELSE shot
            gone == IF target # NoOne THEN Departed(spent, p, target) ELSE spent
        IN  /\ special => CanActivate(shot[p])
            /\ target # NoOne => CanTravel(spent, p, target)
            /\ Happen(Cardinality(victims) + One(special) + One(target # NoOne)
                      + One(falls) + One(recovers))
            /\ EndTurn(recovers)
            /\ thrown' = IF special THEN [thrown EXCEPT ![p] = @ + 1] ELSE thrown
            /\ \E stands \in Shielded(gone, p) :
                  players' = IF falls THEN Respawned(stands, p) ELSE stands
            /\ \E left \in Left(capsule, victims) :
                  capsule' \in IF falls THEN LeftByFallen(left, p) ELSE {left}
            /\ life' = IF falls THEN [life EXCEPT ![p] = @ + 1] ELSE life
    /\ UNCHANGED <<spinning, phase, tick, takenIn, held>>

(* stepProjectiles and stepObjects.  Wheels land, are lost in the air (the *)
(* charge is given back) or end; whatever flies or bursts hits and paints. *)
StepWorld ==
    /\ turn = World
    /\ \E lands, lost, ends \in SUBSET Players :
        LET rolled == [p \in Players |->
                IF p \in lost THEN [players[p] EXCEPT !.active = FALSE, !.charged = TRUE]
                ELSE IF p \in ends THEN [players[p] EXCEPT !.active = FALSE]
                ELSE players[p]]
        IN  /\ lands \intersect lost = {}
            /\ \A p \in lands \union lost : thrown[p] > 0
            /\ \A p \in ends : spinning[p] > 0
            /\ thrown' = [p \in Players |-> IF p \in lands \union lost
                                            THEN thrown[p] - 1 ELSE thrown[p]]
            /\ spinning' = [p \in Players |-> spinning[p] + One(p \in lands) - One(p \in ends)]
            /\ \E victims \in SUBSET (Vulnerable(players, 0) \union Vulnerable(players, 1)),
                  painters \in SUBSET {p \in Painters : CanCharge(rolled[p])} :
                /\ Happen(Cardinality(victims))
                /\ players' = Eliminated(Charged(rolled, painters), victims)
                /\ capsule' \in Left(capsule, victims)
    /\ turn' = Modes
    /\ UNCHANGED <<phase, tick, again, history>>

(* Who may take the capsule: alive, not travelling, with a controller.     *)
TakesSuspendedVariant(q) == q.alive /\ q.travel = 0
CanTake(q) == q.alive /\ q.travel = 0 /\ ~q.suspended

(* CorreioMode.step, with the nearest taker or the bearer at its station.  *)
StepCorreio ==
    \/ /\ capsule.state \in {"aguardando", "retornando", "entregue"}
       /\ capsule' = Waiting(capsule, tick)
       /\ held' = 0
       /\ UNCHANGED takenIn
    \/ /\ capsule.state \in {"disponivel", "caida"}
       /\ \E taker \in {p \in Players : CanTake(players[p])} \union {NoOne} :
             /\ capsule' = Lying(capsule, taker, tick)
             /\ takenIn' = IF taker = NoOne THEN takenIn ELSE life[taker]
       /\ held' = 0
    \/ /\ capsule.state \in Borne
       /\ LET bearer == capsule.carrier
          IN  \E working \in BOOLEAN :
                /\ capsule' \in IF players[bearer].alive
                                THEN {Carried(capsule, TeamOf[bearer], working, tick)}
                                ELSE Left(capsule, {bearer})
                /\ held' = IF working THEN held + 1 ELSE 0
       /\ UNCHANGED takenIn

(* stepRespawn of every player.                                            *)
Due == {p \in Players : ~players[p].alive /\ players[p].wait <= 1}
StepRespawn ==
    /\ players' = [p \in Players |->
          IF p \in Due THEN Respawned(players, p)[p]
          ELSE [players[p] EXCEPT !.wait = Earlier(@)]]
    /\ life' = [p \in Players |-> life[p] + One(p \in Due)]

(* The end of a tick, and of the round.                                    *)
StepModes ==
    /\ turn = Modes
    /\ StepCorreio
    /\ StepRespawn
    /\ phase' = IF tick >= EndTick \/ capsule'.decided # Undecided THEN "finished" ELSE phase
    /\ turn' = Between
    /\ UNCHANGED <<thrown, spinning, tick, again, incidents>>

(* The room, between ticks: a connection drops, or its slot has somebody   *)
(* who controls it again (the person, another page or a bot).              *)
ConnectionDrops(p) ==
    /\ turn = Between
    /\ ~players[p].suspended
    /\ Happen(1)
    /\ capsule' \in Left(capsule, {p})
    /\ players' = [players EXCEPT ![p] = [@ EXCEPT !.suspended = TRUE]]
    /\ UNCHANGED <<thrown, spinning, phase, tick, turn, again, history>>

Controlled(p) ==
    /\ turn = Between
    /\ players[p].suspended
    /\ players' = [players EXCEPT ![p] = [@ EXCEPT !.suspended = FALSE]]
    /\ UNCHANGED <<capsule, thrown, spinning, phase, tick, turn, again, incidents, history>>

Next ==
    \/ BeginTick
    \/ \E p \in Players : Waits(p) \/ Travels(p) \/ Acts(p)
    \/ StepWorld
    \/ StepModes
    \/ \E p \in Players : ConnectionDrops(p) \/ Controlled(p)

Spec == Init /\ [][Next]_vars

-----------------------------------------------------------------------------
(* What was worked at a station is the work of the present bearer; one     *)
(* that is not at work has none to its name.                               *)
WorkIsOwn ==
    /\ capsule.carrier # NoOne => capsule.progress <= held
    /\ capsule.state = "carregada" => capsule.progress = 0

(* The capsule is borne exactly when it has a bearer, and the bearer can   *)
(* bear it: alive, not travelling and with a controller, at every step of  *)
(* a tick and after every drop, journey and return (modes.ts:277-327,      *)
(* MatchSimulation.ts:929-947, ArenaRoom.ts:285-287).                      *)
CarrierPlays ==
    /\ capsule.carrier # NoOne <=> capsule.state \in Borne
    /\ capsule.carrier # NoOne =>
          LET bearer == players[capsule.carrier]
          IN  bearer.alive /\ bearer.travel = 0 /\ ~bearer.suspended

(* Nobody brings the capsule into a new life: whoever bears it took it in  *)
(* the life it has now, although a fall reappears in the same step         *)
(* (MatchSimulation.ts:398-403).                                           *)
CapsuleStaysBehind ==
    capsule.carrier # NoOne => life[capsule.carrier] = takenIn

(* A delivery takes one bearer that many ticks in the prepared station     *)
(* without a break: what was worked before a drop, a return or an          *)
(* interruption does not count (modes.ts:366-386).                         *)
DeliveryIsEarned ==
    [][capsule'.deliveries # capsule.deliveries => held' >= Deliver]_vars

(* The special is in use while, and only while, its owner has one wheel in *)
(* the world: through deaths, respawns, falls and wheels that are lost     *)
(* (MatchSimulation.ts:579-596, 809-849, 911-925).                         *)
SpecialHasWheel ==
    \A p \in Players :
        thrown[p] + spinning[p] = IF players[p].active THEN 1 ELSE 0
=============================================================================
