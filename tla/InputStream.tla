----------------------------- MODULE InputStream -----------------------------
(***************************************************************************)
(* How the simulation consumes the inputs of one player of a round         *)
(* (packages/game-simulation/src/match/MatchSimulation.ts: enqueueInput,   *)
(* step, takeInput, stepOnePlayer, resetInputStream).                      *)
(*                                                                         *)
(* The server advances in ticks and takes one input per tick.  With an     *)
(* empty queue it waits (holdDebt counts the steps it owes), and when      *)
(* inputs arrive together it recovers one step per tick.  A player that is *)
(* dead or travels does not wait: the last input is repeated (inputDebt    *)
(* counts the repetitions, and later that many late inputs are dropped) or *)
(* replaced by a neutral one.                                              *)
(*                                                                         *)
(* Abstractions.  Of an input only its sequence number and its discrete    *)
(* actions are kept.  The client numbers its actions in the order in which *)
(* it sends them, so a list of actions is the set of their numbers.  What  *)
(* the world does to the player (killed, respawned, a journey that starts, *)
(* lands or is cancelled) is a choice.  A bot presses actions numbered     *)
(* from its own counter; they touch lastActionId and nothing else here.    *)
(*                                                                         *)
(* steps, accepted, applied and lost are history: no guard reads them.  A  *)
(* definition marked "Variant" is the one below it with a plausible        *)
(* mistake; no action uses it.                                             *)
(***************************************************************************)
EXTENDS Integers, Sequences, FiniteSets

CONSTANTS
  QueueMax,        \* INPUT_QUEUE_MAX
  StaleTicks,      \* INPUT_STALE_TICKS
  HoldTicks,       \* INPUT_HOLD_TICKS
  HoldDebtMax,     \* INPUT_HOLD_DEBT_MAX
  ActionsKept,     \* the 8 of slice(-8) in takeInput
  StartTick,       \* first tick of the running phase
  EndTick,         \* tick at which the clock ends the round
  Objective,       \* the mode has an objective that may end the round
  MaxActionId,     \* bound: discrete actions one predictor numbers
  Sources          \* who made an input: the predictors of the client

ASSUME StreamLimits ==
  /\ QueueMax \in Nat \ {0} /\ StaleTicks \in Nat /\ HoldTicks \in Nat
  /\ HoldDebtMax \in Nat /\ ActionsKept \in Nat
  /\ StartTick \in Nat /\ EndTick \in Nat /\ Objective \in BOOLEAN
  /\ MaxActionId \in Nat

VARIABLES
  player,   \* the SimPlayer: its queue, counters and what the world did to it
  phase,    \* of the simulation
  tick

streamVars == <<player, phase, tick>>

(* An input; from is history.                                              *)
Actions == 0..MaxActionId
Input == [seq : Nat, acts : SUBSET Actions, from : Sources]

(* staleTicks is compared with the two limits only: it stops just above.   *)
StaleCap == StaleTicks + HoldTicks + 1

SimPlayer ==
  [queue : Seq(Input), lastSeq : Nat, stale : 0..StaleCap,
   inputDebt : 0..StaleTicks, holdDebt : 0..HoldDebtMax, lastActionId : Nat,
   bot : BOOLEAN, alive : BOOLEAN, travel : BOOLEAN,
   steps : Nat, accepted : SUBSET Actions, applied : SUBSET Actions,
   lost : SUBSET Actions]

Phases == {"countdown", "running", "finished"}

(* The smaller of two numbers, and the last number of a set or a floor.    *)
Lower(a, b) == IF a <= b THEN a ELSE b
Highest(S, floor) ==
  IF \E x \in S : x > floor THEN CHOOSE x \in S : \A y \in S : y <= x ELSE floor

-----------------------------------------------------------------------------
(*                           enqueueInput                                  *)

(* The sequence a new input must exceed.                                   *)
LastQueued(p) == IF p.queue = <<>> THEN p.lastSeq ELSE p.queue[Len(p.queue)].seq

(* A longer queue loses its oldest entries, with their actions.            *)
Bounded(p) ==
  IF Len(p.queue) > QueueMax
  THEN [p EXCEPT !.queue = Tail(@), !.lost = @ \cup Head(p.queue).acts]
  ELSE p

(* Only an input above the last one queued is accepted.                    *)
AcceptsOldVariant(p, i) ==
  IF i.seq <= p.lastSeq THEN p
  ELSE Bounded([p EXCEPT !.queue = Append(@, i), !.accepted = @ \cup i.acts])
Enqueued(p, i) ==
  IF i.seq <= LastQueued(p) THEN p
  ELSE Bounded([p EXCEPT !.queue = Append(@, i), !.accepted = @ \cup i.acts])

-----------------------------------------------------------------------------
(*                             takeInput                                   *)

(* How many queued inputs pay for repetitions: one always remains.         *)
Excess(p) == IF p.queue = <<>> THEN 0 ELSE Lower(p.inputDebt, Len(p.queue) - 1)

(* The last ActionsKept of some actions.                                   *)
Newest(acts) == {a \in acts : Cardinality({b \in acts : b > a}) < ActionsKept}

(* The excess inputs are dropped; their actions move to the next one.      *)
DropActionsVariant(p) ==
  LET n == Excess(p)
  IN  IF n = 0 THEN p
      ELSE [p EXCEPT !.queue = SubSeq(@, n + 1, Len(@)),
                     !.lastSeq = p.queue[n].seq,
                     !.inputDebt = @ - n]
PayDebt(p) ==
  LET n    == Excess(p)
      acts == UNION {p.queue[k].acts : k \in 1..(n + 1)}
      rest == SubSeq(p.queue, n + 1, Len(p.queue))
  IN  IF n = 0 THEN p
      ELSE [p EXCEPT !.queue = [rest EXCEPT ![1].acts = Newest(acts)],
                     !.lastSeq = p.queue[n].seq,
                     !.inputDebt = @ - n,
                     !.lost = @ \cup (acts \ Newest(acts))]

(* An empty queue is waited for while the player can move.                 *)
Waits(p) == p.stale <= HoldTicks /\ p.alive /\ ~p.travel

(* The time owed to a player that waits has a ceiling.                     *)
Owed(d) == Lower(HoldDebtMax, d + 1)

(* The next input of a player: the player after it, whether there is an    *)
(* input at all, and its actions.  The bot of a slot always has one.       *)
TakeInput(p) ==
  LET d == PayDebt(p)
      e == [d EXCEPT !.stale = Lower(StaleCap, @ + 1)]
      taken(q, g, a) == [player |-> q, given |-> g, acts |-> a]
  IN  IF p.bot
      THEN taken(p, TRUE, {})
      ELSE IF d.queue # <<>>
      THEN taken([d EXCEPT !.queue = Tail(@), !.lastSeq = Head(d.queue).seq,
                           !.stale = 0], TRUE, Head(d.queue).acts)
      ELSE IF Waits(e)
      THEN taken([e EXCEPT !.holdDebt = Owed(@)], FALSE, {})
      ELSE IF e.stale > StaleTicks
      THEN taken(e, TRUE, {})
      ELSE taken([e EXCEPT !.inputDebt = Lower(StaleTicks, @ + 1)], TRUE, {})

-----------------------------------------------------------------------------
(*                          stepOnePlayer                                  *)

(* stepPlayer applies the actions above lastActionId.                      *)
Fresh(p, acts) == {a \in acts : a > p.lastActionId}
Applied(p, acts) ==
  [p EXCEPT !.applied = @ \cup Fresh(p, acts),
            !.lastActionId = Highest(Fresh(p, acts), @)]

(* What one step makes of a player: a traveller goes on or arrives, one    *)
(* without an input waits, and the actions of somebody dead are lost.  One *)
(* of the actions may start a journey.  A bot presses its own.             *)
StepOnePlayer(p) ==
  LET t == TakeInput(p)
      q == [t.player EXCEPT !.steps = @ + 1]
      unused == [q EXCEPT !.lost = @ \cup t.acts]
  IN  IF q.travel
      THEN {[unused EXCEPT !.travel = b] : b \in BOOLEAN}
      ELSE IF ~t.given THEN {t.player}
      ELSE IF ~q.alive THEN {unused}
      ELSE IF q.bot THEN {q, [q EXCEPT !.lastActionId = @ + 1]}
      ELSE {[Applied(q, t.acts) EXCEPT !.travel = b] :
              b \in IF Fresh(q, t.acts) = {} THEN {FALSE} ELSE BOOLEAN}

(* One recovered step per tick, when one is owed and an input is there.    *)
UnpaidCatchUpVariant(p) ==
  IF p.queue # <<>> THEN StepOnePlayer(p) ELSE {p}
CatchUp(p) ==
  IF p.holdDebt > 0 /\ p.queue # <<>>
  THEN StepOnePlayer([p EXCEPT !.holdDebt = @ - 1])
  ELSE {p}

(* The rest of the tick: projectiles kill, the dead reappear.              *)
World(p) ==
  {p} \cup IF p.alive THEN {[p EXCEPT !.alive = FALSE, !.travel = FALSE]}
           ELSE {[p EXCEPT !.alive = TRUE]}

-----------------------------------------------------------------------------
(*                              Actions                                    *)

(* A round begins with its countdown.                                      *)
FreshPlayer ==
  [queue |-> <<>>, lastSeq |-> 0, stale |-> 0, inputDebt |-> 0, holdDebt |-> 0,
   lastActionId |-> 0, bot |-> FALSE, alive |-> TRUE, travel |-> FALSE,
   steps |-> 0, accepted |-> {}, applied |-> {}, lost |-> {}]
StreamInit ==
  /\ player = FreshPlayer
  /\ phase = "countdown"
  /\ tick = 0

(* The room hands an input of the person that drives the slot over.        *)
Enqueue(i) ==
  /\ phase # "finished" /\ ~player.bot
  /\ player' = Enqueued(player, i)
  /\ UNCHANGED <<phase, tick>>

(* step during the countdown: inputs are consumed and nobody moves.        *)
CountdownTick ==
  /\ phase = "countdown"
  /\ tick' = tick + 1
  /\ LET t == TakeInput(player)
     IN  player' = [t.player EXCEPT !.holdDebt = 0, !.lost = @ \cup t.acts]
  /\ phase' = IF tick' >= StartTick THEN "running" ELSE "countdown"

(* step while the round runs; the objective may end it before the clock.   *)
RunningTick ==
  /\ phase = "running"
  /\ tick' = tick + 1
  /\ \E p \in StepOnePlayer(player) : \E q \in CatchUp(p) : player' \in World(q)
  /\ \/ tick' >= EndTick /\ phase' = "finished"
     \/ tick' < EndTick /\ phase' = "running"
     \/ Objective /\ phase' = "finished"

Tick == CountdownTick \/ RunningTick

(* resetInputStream: the new controller counts from zero.                  *)
KeepSequenceVariant(p, bot) ==
  [p EXCEPT !.queue = <<>>, !.stale = 0, !.inputDebt = 0, !.holdDebt = 0,
            !.lastActionId = 0, !.bot = bot,
            !.accepted = {}, !.applied = {}, !.lost = {}]
Reset(p, bot) ==
  [p EXCEPT !.queue = <<>>, !.lastSeq = 0, !.stale = 0, !.inputDebt = 0,
            !.holdDebt = 0, !.lastActionId = 0, !.bot = bot,
            !.accepted = {}, !.applied = {}, !.lost = {}]

(* The slot changes hands: to a person that is back or to a bot.           *)
ChangeHands(bot) ==
  /\ phase # "finished"
  /\ player' = Reset(player, bot)
  /\ UNCHANGED <<phase, tick>>

StreamNext ==
  \/ \E i \in Input : Enqueue(i)
  \/ Tick
  \/ \E bot \in BOOLEAN : ChangeHands(bot)

StreamSpec == StreamInit /\ [][StreamNext]_streamVars

-----------------------------------------------------------------------------
(*                            Properties                                   *)

(* Types of the stream.                                                    *)
StreamTypeOK ==
  /\ player \in SimPlayer
  /\ phase \in Phases
  /\ tick \in Nat

(* Nobody gains time: the steps of a player and the ones it is still owed  *)
(* never exceed the ticks of the running phase, whatever arrives late, in  *)
(* bursts or twice, and whoever drives the slot (takeInput, the recovered  *)
(* step of step, the ceiling of holdDebt).                                 *)
RunningTicks == IF tick <= StartTick THEN 0 ELSE tick - StartTick
NoTimeGained == player.steps + player.holdDebt <= RunningTicks

(* A queue of increasing sequences above a floor.                          *)
InOrder(queue, floor) ==
  /\ Len(queue) <= QueueMax
  /\ \A j, k \in 1..Len(queue) : j < k => queue[j].seq < queue[k].seq
  /\ \A k \in 1..Len(queue) : floor < queue[k].seq

(* The queue is short, its sequences increase and are above the last one   *)
(* processed: no input is simulated twice or out of order, also when late  *)
(* ones are dropped for debt or for room in the queue.                     *)
QueueInOrder == InOrder(player.queue, player.lastSeq)

=============================================================================
