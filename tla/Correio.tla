-------------------------------- MODULE Correio --------------------------------
(***************************************************************************)
(* The capsule of the Correio do Ara as functions on a record: CorreioMode *)
(* (packages/game-simulation/src/match/modes.ts).  Who is near the         *)
(* capsule, inside a station or above valid ground is geometry, and        *)
(* appears as arguments.                                                   *)
(***************************************************************************)
EXTENDS Naturals

CONSTANTS
    FirstSpawn, Pause, DropReturn, Returning,   \* waits of the capsule, in ticks
    MaxCarry,       \* ticks one bearer may keep it
    Deliver,        \* ticks in a prepared station that make a delivery
    Target,         \* deliveries that decide the round
    StationPairs    \* pairs of stations, one on each side

ASSUME WaitsAssumption ==
    /\ FirstSpawn \in Nat /\ Pause \in Nat /\ DropReturn \in Nat /\ Returning \in Nat
    /\ MaxCarry \in Nat \ {0} /\ Deliver \in Nat \ {0}
    /\ Target \in Nat \ {0} /\ StationPairs \in Nat \ {0}

NoOne == 0
Teams == {0, 1}
Undecided == 2

CapsuleStates == {"aguardando", "disponivel", "carregada", "caida",
                  "em_entrega", "entregue", "retornando"}
Borne == {"carregada", "em_entrega"}

(* The k-th station: a pair after the other, and the sides in turn.        *)
Station(k) == ((k \div 2) % StationPairs) * 2 + (k % 2)

Capsules == [state : CapsuleStates, carrier : Nat, timer : Nat, progress : Nat, carry : Nat,
             seq : Nat, deliveries : [Teams -> Nat], decided : Teams \union {Undecided}]

NewCapsule(startTick) ==
    [state |-> "aguardando", carrier |-> NoOne, timer |-> startTick + FirstSpawn,
     progress |-> 0, carry |-> 0, seq |-> 0,
     deliveries |-> [t \in Teams |-> 0], decided |-> Undecided]

IsCarrier(c, p) == c.carrier = p /\ c.state \in Borne

StartReturn(c, tick) ==
    [c EXCEPT !.carrier = NoOne, !.timer = tick + Returning, !.state = "retornando"]

(* Somebody was eliminated, fell or lost the connection: a capsule that    *)
(* player bears stays where there is valid ground, or goes back.           *)
Drop(c, p, tick, grounded) ==
    LET loose == [c EXCEPT !.carrier = NoOne, !.progress = 0, !.carry = 0]
    IN  IF ~IsCarrier(c, p) THEN c
        ELSE IF grounded THEN [loose EXCEPT !.timer = tick + DropReturn, !.state = "caida"]
        ELSE StartReturn(loose, tick)

Taken(c, p) ==
    [c EXCEPT !.carrier = p, !.carry = 0, !.progress = 0, !.state = "carregada"]

Delivered(c, team, tick) ==
    LET count == c.deliveries[team] + 1
    IN  [c EXCEPT !.deliveries[team] = count, !.carrier = NoOne, !.progress = 0,
                  !.seq = @ + 1, !.timer = tick + Pause, !.state = "entregue",
                  !.decided = IF count >= Target THEN team ELSE @]

(* One tick of a capsule nobody bears.                                     *)
Waiting(c, tick) ==
    IF tick >= c.timer THEN [c EXCEPT !.state = "disponivel"] ELSE c

Lying(c, taker, tick) ==
    IF taker # NoOne THEN Taken(c, taker)
    ELSE IF c.state = "caida" /\ tick >= c.timer THEN StartReturn(c, tick)
    ELSE c

(* The bearer left the station, or its paint was lost: the delivery        *)
(* starts again.                                                           *)
KeepsWorkVariant(c) == [c EXCEPT !.state = "carregada"]
Interrupted(c) == IF c.state = "em_entrega"
                  THEN [c EXCEPT !.progress = 0, !.state = "carregada"]
                  ELSE c

(* One tick of a capsule that is borne by a living player of the team;     *)
(* working: inside the station, whose paint is the team's.                 *)
Carried(c, team, working, tick) ==
    LET older == [c EXCEPT !.carry = @ + 1]
    IN  IF older.carry >= MaxCarry THEN StartReturn(older, tick)
        ELSE IF ~working THEN Interrupted(older)
        ELSE IF c.progress + 1 >= Deliver THEN Delivered(older, team, tick)
        ELSE [older EXCEPT !.progress = @ + 1, !.state = "em_entrega"]
=============================================================================
