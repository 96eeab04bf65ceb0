------------------------------- MODULE Mutirao -------------------------------
(***************************************************************************)
(* The Mutirao (MutiraoTracker, packages/game-simulation/src/match/        *)
(* modes.ts): two allies who each painted enough of the same sector        *)
(* within a window start a bonus for both, and the squares they painted    *)
(* cannot pay for another one for a while.                                 *)
(*                                                                         *)
(* Who paints what, who is alive and who is near whom are choices.  The    *)
(* bonus itself (mutiraoTicks, the ink it saves) decides nothing here.     *)
(***************************************************************************)
EXTENDS Integers, FiniteSets, FiniteSetsExt

CONSTANTS
  Crew,           \* the players, numbered
  CrewSide,       \* the team of each
  Squares,        \* cells of the floor that score
  SquareArea,
  MinArea,        \* MUTIRAO.minArea
  PairWindow,     \* windowSeconds, in ticks, as the next two
  PairCooldown,   \* cooldown
  SquareReuse,    \* cellReuseSeconds
  PairEvery,      \* ticks between two evaluations (3)
  ForgetEvery,    \* ticks between two cleanings (90)
  MaxMoment,      \* bound: ticks explored
  MaxConversions  \* bound: squares converted

ASSUME CrewAssumption ==
  Crew \subseteq Nat /\ IsFiniteSet(Crew) /\ CrewSide \in [Crew -> {0, 1}]
ASSUME PairAssumption ==
  /\ SquareArea \in [Squares -> Nat] /\ MinArea \in Nat
  /\ {PairWindow, PairCooldown, SquareReuse} \subseteq Nat
  /\ {PairEvery, ForgetEvery} \subseteq Nat \ {0}
  /\ MaxMoment \in Nat /\ MaxConversions \in Nat

VARIABLES
  moment,         \* tick of the simulation, what it simulates is under way
  ownerOf,        \* PaintState.owner
  recent,         \* conversions of each player: a list by tick, here the set of
                  \* [number, at, square], since the same square may come twice
  spent,          \* tick at which a square paid, NoMoment when not kept
  resting,        \* mutiraoCooldownTicks
  converted       \* squares converted so far

\* What was converted and what was started, whatever the tracker keeps.
VARIABLES
  conversions,    \* all those of each player, of the window of a tick
  activations     \* set of [at, pair, squares]

mutiraoHistory == <<conversions, activations>>
mutiraoVars == <<moment, ownerOf, recent, spent, resting, converted, mutiraoHistory>>

NoMoment == -1
Unpainted == 2

AreaIn(list) == MapThenSumSet(LAMBDA x : SquareArea[x.square], list)
SquaresIn(list) == {x.square : x \in list}

MutiraoInit ==
  /\ moment = 1
  /\ ownerOf = [c \in Squares |-> Unpainted]
  /\ recent = [p \in Crew |-> {}] /\ resting = [p \in Crew |-> 0]
  /\ spent = [c \in Squares |-> NoMoment]
  /\ converted = 0 /\ conversions = [p \in Crew |-> {}] /\ activations = {}

-----------------------------------------------------------------------------
\* the conversions of a list that are in the window
InWindow(list) == {x \in list : x.at >= moment - PairWindow}

(* record, called by the paint when a square changes to the team of p.     *)
Records(p, c) ==
  /\ converted < MaxConversions /\ converted' = converted + 1
  /\ ownerOf[c] # CrewSide[p]
  /\ ownerOf' = [ownerOf EXCEPT ![c] = CrewSide[p]]
  /\ LET conversion == [number |-> converted, at |-> moment, square |-> c]
     IN  /\ recent' = [recent EXCEPT ![p] = InWindow(@ \cup {conversion})]
         /\ conversions' = [conversions EXCEPT ![p] = @ \cup {conversion}]
  /\ UNCHANGED <<moment, spent, resting, activations>>

(* Variant: a square rests for the window of the conversions only.         *)
ShortRestVariant(c) == spent[c] = NoMoment \/ moment - spent[c] >= PairWindow

Free(c) == spent[c] = NoMoment \/ moment - spent[c] >= SquareReuse

\* eligible: what each may pay with, as it is before anybody pays
Paying == [p \in Crew |-> {x \in InWindow(recent[p]) : Free(x.square)}]

\* the loops of step: pairs in the order of ids
Pairs == {pair \in Crew \X Crew : pair[1] < pair[2]}
Sooner(x, y) == x[1] < y[1] \/ (x[1] = y[1] /\ x[2] < y[2])
PairAt == [k \in 1..Cardinality(Pairs) |->
             CHOOSE pair \in Pairs : Cardinality({x \in Pairs : Sooner(x, pair)}) = k - 1]

Matches(pair) ==
  /\ CrewSide[pair[1]] = CrewSide[pair[2]]
  /\ \A i \in 1..2 : AreaIn(Paying[pair[i]]) >= MinArea
  /\ SquaresIn(Paying[pair[1]]) \cap SquaresIn(Paying[pair[2]]) = {}

\* Those of ready who are paired: each once, the first ally that matches.
Paired(ready, near) ==
  LET May(pair, chosen) ==
        /\ {pair[1], pair[2]} \subseteq ready /\ pair \in near /\ Matches(pair)
        /\ \A other \in chosen : {pair[1], pair[2]} \cap {other[1], other[2]} = {}
      upTo[k \in 0..Cardinality(Pairs)] ==
        IF k = 0 THEN {}
        ELSE upTo[k - 1] \cup {pair \in {PairAt[k]} : May(pair, upTo[k - 1])}
  IN  upTo[Cardinality(Pairs)]

PaidBy(pair) == SquaresIn(Paying[pair[1]]) \cup SquaresIn(Paying[pair[2]])

Forgotten(c) == moment % ForgetEvery = 0 /\ moment - spent[c] >= SquareReuse

Rested == [p \in Crew |-> IF resting[p] > 0 THEN resting[p] - 1 ELSE 0]

Starts(pairs) ==
  LET paid == UNION {PaidBy(pair) : pair \in pairs}
  IN  /\ spent' = [c \in Squares |-> IF c \in paid THEN moment
                                     ELSE IF Forgotten(c) THEN NoMoment ELSE spent[c]]
      /\ resting' = [p \in Crew |-> IF \E pair \in pairs : p \in {pair[1], pair[2]}
                                    THEN PairCooldown ELSE Rested[p]]
      /\ activations' = activations \cup
           {[at |-> moment, pair |-> pair, squares |-> PaidBy(pair)] : pair \in pairs}

(* The end of a tick: timers (stepModes), then MutiraoTracker.step.  What  *)
(* left the window is dropped here for everybody: record and eligible drop *)
(* it before they read.                                                    *)
StepsMutirao ==
  /\ moment < MaxMoment /\ moment' = moment + 1
  /\ IF moment % PairEvery = 0
     THEN \E alive \in SUBSET Crew, near \in SUBSET {pair \in Crew \X Crew : Matches(pair)} :
            Starts(Paired({p \in alive : Rested[p] = 0}, near))
     ELSE resting' = Rested /\ UNCHANGED <<spent, activations>>
  /\ recent' = [p \in Crew |-> InWindow(recent[p])]
  /\ conversions' = [p \in Crew |-> InWindow(conversions[p])]
  /\ UNCHANGED <<ownerOf, converted>>

MutiraoNext == StepsMutirao \/ \E p \in Crew, c \in Squares : Records(p, c)

MutiraoSpec == MutiraoInit /\ [][MutiraoNext]_mutiraoVars

-----------------------------------------------------------------------------
(* Every Mutirao is earned, told from all that was converted of late and   *)
(* ever started: two allies, neither in another one within the cooldown,   *)
(* each with enough area of the window in squares of the own that had paid *)
(* for nothing in the reuse time before this tick, however the tracker     *)
(* trims, forgets and counts (record, eligible, step).                     *)
ActivationsAreEarned ==
  \A act \in {a \in activations : a.at = moment - 1} :
    LET before == {other \in activations : other.at < act.at}
        worn   == UNION {other.squares : other \in {o \in before : act.at - o.at < SquareReuse}}
        own(p) == {x \in conversions[p] : /\ x.at \in (act.at - PairWindow)..act.at
                                          /\ x.square \notin worn}
    IN  /\ CrewSide[act.pair[1]] = CrewSide[act.pair[2]]
        /\ SquaresIn(own(act.pair[1])) \cap SquaresIn(own(act.pair[2])) = {}
        /\ \A i \in 1..2 :
             /\ AreaIn(own(act.pair[i])) >= MinArea
             /\ \A other \in activations \ {act} :
                  act.pair[i] \in {other.pair[1], other.pair[2]} =>
                    (act.at - other.at) \notin 0..(PairCooldown - 1)
=============================================================================
