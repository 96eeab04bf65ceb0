------------------------------- MODULE Stealth -------------------------------
(***************************************************************************)
(* Who sees whom (apps/game-server/src/visibility.ts and its uses in       *)
(* ArenaRoom.ts).  A person immersed in the own paint, slow and far from   *)
(* the adversaries is hidden after a while: adversaries and the bench then *)
(* receive the last place they saw, frozen.  The filter runs only when a   *)
(* snapshot is sent; what gives a person away happens at every tick.       *)
(*                                                                         *)
(* A place is the tick of the room at which it was taken, which is a       *)
(* person who never stops moving.  Times are in ticks.  The code counts    *)
(* seconds in doubles: 0.4 less six times 2/30 leaves 8e-17, and 1.0 less  *)
(* fifteen times 2/30 is not zero either, so a timer that should be over   *)
(* at a snapshot is over at the next.  ConcealTicks and RevealTicks have   *)
(* one tick more than the code's seconds for that remainder.               *)
(*                                                                         *)
(* Allies receive the true place, and are left out.                        *)
(***************************************************************************)
EXTENDS Integers

CONSTANTS
  Subjects,          \* the people of a room
  SideOf,            \* the team of each
  ConcealTicks,      \* STEALTH.concealDelay
  RevealTicks,       \* STEALTH.eventReveal
  SnapshotTicks,     \* TICKS_PER_SNAPSHOT
  MaxTickCount       \* bound: ticks of the room explored

ASSUME StealthAssumption ==
  /\ SideOf \in [Subjects -> {0, 1}]
  /\ ConcealTicks \in Nat \ {0} /\ RevealTicks \in Nat \ {0}
  /\ SnapshotTicks \in Nat \ {0} /\ MaxTickCount \in Nat

VARIABLES
  tickCount,         \* ArenaRoom.tickCount
  phase,             \* idle, loading (a simulation exists) or stepped
  simulated,         \* whom it simulates
  started,           \* tickCount when the countdown began
  stealthTick,       \* sim.tick of the last snapshot, NoTick before the first
  entries,           \* StealthFilter.entries; nobody's is Fresh
  shown              \* the place of each in the last snapshot to adversaries

\* What happened, as the rule tells it, whatever the filter keeps.
VARIABLES
  eventAt,           \* last event that gives the person away, NoTick for none
  unmetAt            \* last snapshot at which the rule was not met

snapVars == <<tickCount, phase, simulated, started, stealthTick>>
stealthVars == <<snapVars, entries, shown, eventAt, unmetAt>>

NoTick == -1
NoPlace == -1

Greater(a, b) == IF a >= b THEN a ELSE b

Fresh == [conceal |-> ConcealTicks, reveal |-> 0, hidden |-> FALSE, ghost |-> NoPlace]

\* sim.tick
SimTick == tickCount - started

-----------------------------------------------------------------------------
StealthInit ==
  /\ tickCount = 0 /\ phase = "idle" /\ simulated = {} /\ started = 0
  /\ stealthTick = NoTick
  /\ entries = [p \in Subjects |-> Fresh]
  /\ shown = [p \in Subjects |-> NoPlace]
  /\ eventAt = [p \in Subjects |-> NoTick]
  /\ unmetAt = [p \in Subjects |-> NoTick]

(* The lobby, the loading and the results: no simulation is stepped.       *)
Waits ==
  /\ phase # "stepped" /\ tickCount < MaxTickCount
  /\ tickCount' = tickCount + 1
  /\ UNCHANGED <<phase, simulated, started, stealthTick, entries, shown, eventAt, unmetAt>>

(* Variant: the entries of the round before are kept.                      *)
KeepEntriesVariant == stealthTick' = NoTick /\ UNCHANGED entries

(* stealth.reset and the tick of the last snapshot, when a round is made.  *)
ForgetRound == stealthTick' = NoTick /\ entries' = [p \in Subjects |-> Fresh]

(* A round is made; the others are on the bench.                           *)
RoundIsMade ==
  /\ phase = "idle" /\ phase' = "loading"
  /\ \E S \in SUBSET Subjects \ {{}} : simulated' = S
  /\ ForgetRound
  /\ eventAt' = [p \in Subjects |-> NoTick]
  /\ UNCHANGED <<tickCount, started, shown, unmetAt>>

(* The tick in which the loading ends; the next one steps the simulation.  *)
CountdownBegins ==
  /\ phase = "loading" /\ phase' = "stepped"
  /\ tickCount < MaxTickCount
  /\ tickCount' = tickCount + 1 /\ started' = tickCount + 1
  /\ UNCHANGED <<simulated, stealthTick, entries, shown, eventAt, unmetAt>>

(* Somebody who plays no round, or whose round is over, leaves the room.   *)
SubjectLeaves(p) ==
  /\ phase = "idle" \/ p \notin simulated
  /\ entries' = [entries EXCEPT ![p] = Fresh]
  /\ simulated' = simulated \ {p}
  /\ UNCHANGED <<tickCount, phase, started, stealthTick, shown, eventAt, unmetAt>>

-----------------------------------------------------------------------------
(* observe and reveal, for the events of one tick.                         *)
Observed(given) ==
  [p \in Subjects |->
     IF p \in given THEN [entries[p] EXCEPT !.reveal = Greater(@, RevealTicks)]
     ELSE entries[p]]

\* Seconds since the last snapshot; none before the first.
Elapsed == IF stealthTick = NoTick THEN 0 ELSE Greater(0, SimTick + 1 - stealthTick)

\* Adversaries that may be within revealRadius of each other.
Rivals == {{p, q} : p \in {s \in simulated : SideOf[s] = 0},
                    q \in {s \in simulated : SideOf[s] = 1}}

\* A living adversary within revealRadius.
Discovered(p, near, dead) == \E o \in simulated \ dead : {o, p} \in near

(* Variant: the delay goes on from where the last exposure left it.        *)
DelayVariant(e, exposed, dt) == e.conceal - dt

(* The delay before hiding, from its beginning at each exposure.           *)
Delay(e, exposed, dt) == IF exposed THEN ConcealTicks ELSE e.conceal - dt

(* One pass of update over one person: immersed says alive, submerged,     *)
(* slow, without the capsule, neither protected nor travelling.            *)
Passed(e, dt, immersed, discovered, now) ==
  LET left    == Greater(0, e.reveal - dt)
      exposed == ~immersed \/ left > 0 \/ discovered
      delay   == Delay(e, exposed, dt)
      hidden  == ~exposed /\ (e.hidden \/ (delay <= 0 /\ e.ghost # NoPlace))
  IN  [conceal |-> delay,
       reveal  |-> left,
       hidden  |-> hidden,
       ghost   |-> IF hidden THEN e.ghost ELSE now]

(* sendSnapshots, after the events of the tick were observed.              *)
Snapshot(observed, immersed, near, dead) ==
  LET now  == tickCount + 1
      Pass(p) == Passed(observed[p], Elapsed, p \in immersed,
                        Discovered(p, near, dead), now)
      Met(p) == /\ p \in immersed /\ ~Discovered(p, near, dead)
                /\ eventAt'[p] = NoTick \/ now - eventAt'[p] >= RevealTicks - 1
  IN  /\ entries' = [p \in Subjects |-> IF p \in simulated THEN Pass(p) ELSE observed[p]]
      /\ shown' = [p \in Subjects |-> IF p \in simulated THEN Pass(p).ghost ELSE shown[p]]
      /\ stealthTick' = SimTick + 1
      /\ unmetAt' = [p \in Subjects |->
                       IF Met(p) /\ stealthTick # NoTick THEN unmetAt[p] ELSE now]

(* A tick of a round.  Every SnapshotTicks ticks of the room, and at the   *)
(* end of the round, a snapshot is sent.  Nothing gives anybody away       *)
(* before the first one: the round begins with a countdown.                *)
Ticks ==
  /\ phase = "stepped" /\ tickCount < MaxTickCount
  /\ tickCount' = tickCount + 1
  /\ \E given \in SUBSET simulated, finished \in BOOLEAN :
       /\ stealthTick = NoTick => given = {} /\ ~finished
       /\ eventAt' = [p \in Subjects |-> IF p \in given THEN tickCount + 1 ELSE eventAt[p]]
       /\ phase' = IF finished THEN "idle" ELSE phase
       /\ IF finished \/ (tickCount + 1) % SnapshotTicks = 0
          THEN \E dead \in SUBSET simulated, immersed \in SUBSET simulated,
                  near \in SUBSET Rivals :
                 /\ dead \cap immersed = {}
                 /\ Snapshot(Observed(given), immersed, near, dead)
          ELSE /\ entries' = Observed(given)
               /\ UNCHANGED <<stealthTick, shown, unmetAt>>
  /\ UNCHANGED <<simulated, started>>

StealthNext ==
  \/ Waits \/ RoundIsMade \/ CountdownBegins \/ Ticks
  \/ \E p \in Subjects : SubjectLeaves(p)

StealthSpec == StealthInit /\ [][StealthNext]_stealthVars

-----------------------------------------------------------------------------
\* The snapshot the clients of a round last received.
LastSnapshot == started + stealthTick

(* Whatever events, drops of the paint and rounds came between, adversaries *)
(* receive a person's present place until the rule of docs/networking.md   *)
(* has held for the whole delay, counted on the room's clock and not in    *)
(* the filter's timers; from then on they receive a place of this round    *)
(* taken before the right to hide was earned.  Sooner would hide who was   *)
(* just given away; later, or a newer place, would tell what the filter    *)
(* is there to keep.                                                       *)
ShownByTheRule ==
  stealthTick # NoTick =>
    \A p \in simulated :
      /\ LastSnapshot - unmetAt[p] < ConcealTicks => shown[p] = LastSnapshot
      /\ LastSnapshot - unmetAt[p] >= ConcealTicks =>
           started < shown[p] /\ shown[p] < unmetAt[p] + ConcealTicks
=============================================================================
