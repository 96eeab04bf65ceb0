------------------------- MODULE ArenaRoomProperties -------------------------
(***************************************************************************)
(* What makes the room of ArenaRoom correct.                               *)
(***************************************************************************)
EXTENDS ArenaRoom

(* Types of the room's state.                                              *)
TypeOK ==
  /\ room \in {"open", "closing", "disposed"}
  /\ phase \in Phases
  /\ roundId \in Nat
  /\ ticksLeft \in Nat
  /\ players \in Table
  /\ nextPlayerId \in Nat \ {0}
  /\ hostPlayerId \in PlayerIds \cup {NoPlayer}
  /\ bySessionId \in [Sessions -> PlayerIds \cup {NoPlayer}]
  /\ replacedSessions \subseteq Sessions
  /\ kicked \subseteq Users
  /\ fillWithBots \in BOOLEAN
  /\ formation \in Nat
  /\ sim \in {"none", "live", "finished"}
  /\ roster \subseteq PlayerIds
  /\ suspended \subseteq PlayerIds
  /\ brains \subseteq PlayerIds
  /\ bots \in [Teams -> Int]
  /\ sinkWrites \in Seq(Result)
  /\ net \in [Sessions -> NetStates]
  /\ told \in [Sessions -> Nat]

-----------------------------------------------------------------------------
(*                     People, slots and connections                       *)

(* "Se o mesmo usuario reentrar, ele retoma o proprio slot": no sequence   *)
(* of joins, drops, takeovers and rounds leaves a user with two slots      *)
(* (onJoin, takeOverSlot, onLeave).                                        *)
OneSlotPerUser ==
  \A p, q \in Slots : players[p].user = players[q].user => p = q

(* bySessionId and players agree: a connection is routed to a slot exactly *)
(* when that slot names it, so two connections never act for one slot and  *)
(* a displaced one acts for none (onJoin, takeOverSlot, onLeave, guarded). *)
RoutingAgrees ==
  \A s \in Sessions, p \in PlayerIds :
    bySessionId[s] = p <=> players[p].session = s

(* What the table says of a connection is what the transport knows of it:  *)
(* a connected slot has a connection that can still end, a reconnecting    *)
(* one has an open window (or one the shutdown has just rejected), a slot  *)
(* a bot drives has none.                                                  *)
ConnectionIsReal ==
  \A p \in Slots :
    LET s == players[p].session
    IN  CASE players[p].connection = "connected" ->
               s # NoSession /\ net[s] \in {"open", "leaving", "ending"}
          [] players[p].connection = "reconnecting" ->
               /\ s # NoSession
               /\ net[s] = "dropped" \/ (room = "closing" /\ net[s] = "rejected")
          [] OTHER -> s = NoSession

(* replacedSessions holds only displaced connections that are still to     *)
(* leave, and never one that is routed: an entry cannot outlive the        *)
(* handler that consumes it and silence a later departure.                 *)
ReplacedAreLeaving ==
  \A s \in replacedSessions :
    net[s] \in {"leaving", "rejected", "ending"} /\ bySessionId[s] = NoPlayer

(* "Se o anfitriao sai, outro humano e promovido": while anybody speaks    *)
(* for a slot the host is a person present, with a connection, not one     *)
(* replaced by a bot (promoteHostIfNeeded and its call sites).             *)
HostIsLive ==
  IF \E p \in Slots : players[p].session # NoSession
  THEN CanHost(players, hostPlayerId)
  ELSE hostPlayerId = NoPlayer

(* Somebody expelled gets no reconnection window while the ban lasts: the  *)
(* slot is never kept for a kicked user (guarded, onDrop).                 *)
NoWindowForKicked ==
  \A p \in Slots : players[p].user \in kicked => players[p].connection # "reconnecting"

(* The hosting passes on only when the host can no longer host: a drop, a  *)
(* reconnection, a takeover or a new round does not move it.               *)
HostIsStable ==
  [][hostPlayerId' # hostPlayerId => ~CanHost(players', hostPlayerId)]_hostPlayerId

-----------------------------------------------------------------------------
(*                                Rounds                                   *)

(* Who drives each slot of the round: nobody while its person is in the    *)
(* reconnection window, a bot once the window is over, the person          *)
(* otherwise.  A stale flag would leave a returning person frozen, or a    *)
(* bot and a person on one slot (onDrop, onReconnect, onLeave,             *)
(* takeOverSlot).                                                          *)
DriverMatchesConnection ==
  sim # "none" =>
    \A p \in roster :
      /\ p \in suspended <=> players[p].connection = "reconnecting"
      /\ p \in brains <=> players[p].connection = "replaced_by_bot"

(* From the loading to the end of a round the people simulated are exactly *)
(* the slots marked inRound: late arrivals wait, leavers keep the slot.    *)
RosterIsTable ==
  /\ sim # "none" /\ phase \in ActivePhases =>
       roster = {p \in Slots : players[p].inRound}
  /\ sim = "none" <=> phase = "lobby" \/ room = "disposed"
  /\ roster \subseteq Slots

(* Every round is played by two equal teams of one to MaxTeamSize members, *)
(* bots included, for as long as it lasts.                                 *)
BalancedTeams ==
  phase \in ActivePhases =>
    LET size(t) == Cardinality({p \in roster : players[p].team = t}) + bots[t]
    IN  /\ size(0) = size(1) /\ size(0) \in 1..MaxTeamSize
        /\ bots[0] >= 0 /\ bots[1] >= 0

(* During a round nobody enters or leaves the simulation, changes team or  *)
(* gets another team through a reconnection.                               *)
RosterKept ==
  phase \in ActivePhases /\ phase' \in ActivePhases /\ roundId' = roundId =>
    /\ roster' = roster
    /\ \A p \in roster : /\ players'[p].team = players[p].team
                         /\ players'[p].user = players[p].user
RosterIsFrozen == [][RosterKept]_vars

(* The bench takes turns: when a round starts, nobody connected stays out  *)
(* while somebody who has waited less plays (planFormation, startRound).   *)
LongestWaitFirst ==
  roundId' = roundId + 1 =>
    \A p, q \in Connected(players) :
      p \notin roster' /\ q \in roster' => players[p].sitOuts <= players[q].sitOuts
BenchTakesTurns == [][LongestWaitFirst]_vars

(* The result of a round reaches the sink at most once, in the order of    *)
(* the rounds, and a round that ended or was cut after its loading has one *)
(* ("A rodada fecha exatamente uma vez").                                  *)
ResultsOnce ==
  /\ \A i, j \in 1..Len(sinkWrites) :
       i < j => sinkWrites[i].round < sinkWrites[j].round
  /\ \A i \in 1..Len(sinkWrites) : sinkWrites[i].round <= roundId
  /\ phase \in {"finishing", "results"} =>
       \E i \in 1..Len(sinkWrites) : sinkWrites[i] = [round |-> roundId, status |-> "completed"]
  /\ room = "disposed" /\ phase \in {"countdown", "running"} =>
       \E i \in 1..Len(sinkWrites) : sinkWrites[i] = [round |-> roundId, status |-> "interrupted"]

(* Everybody that speaks for a slot was told of the round on: without it   *)
(* a client neither loads the map nor confirms (startRound, afterJoinSync).*)
EverybodyTold ==
  RoundVisible =>
    \A s \in Sessions : Speaks(s) /\ net[s] = "open" => told[s] = roundId

-----------------------------------------------------------------------------
(*     What makes the invariants above inductive (ArenaRoomProofs)         *)

(* Ids are given once, in order.                                           *)
FreshIds == \A p \in Slots : p < nextPlayerId

(* A phase with a deadline has not reached it.                             *)
ClockRuns == phase # "lobby" => ticksLeft > 0

TypeInv == TypeOK /\ ClockRuns

SlotsInv ==
  /\ FreshIds /\ OneSlotPerUser /\ RoutingAgrees /\ ConnectionIsReal
  /\ ReplacedAreLeaving /\ HostIsLive /\ NoWindowForKicked

DriverInv == roster \subseteq Slots /\ DriverMatchesConnection

-----------------------------------------------------------------------------
(*                    The room as its people know it                       *)

(* The entry of a person, wherever it is in the table.                     *)
EntryIn(ps, u) ==
  IF \E p \in PlayerIds : ps[p].user = u
  THEN ps[CHOOSE p \in PlayerIds : ps[p].user = u] ELSE Vacant

PlaceOf == [u \in Users |-> EntryIn(players, u).connection]
VoiceOf == [u \in Users |-> EntryIn(players, u).session]
HostUser == IF hostPlayerId = NoPlayer THEN NoUser ELSE players[hostPlayerId].user
UsedSessions == {s \in Sessions : net[s] # "unused"}

M == INSTANCE Membership WITH MaxMembers <- MaxRoomHumans,
                              doors <- room, place <- PlaceOf, voice <- VoiceOf,
                              host <- HostUser, banned <- kicked, used <- UsedSessions

(* Slot numbers, routing, marks and windows show as a membership: a        *)
(* connection that was displaced or left never speaks again, however late  *)
(* its onDrop and onLeave come, nobody who is expelled enters or is kept   *)
(* waiting, the hosting passes between members, and the room is disposed   *)
(* of when nobody is left (every handler of a connection, promoteHost-     *)
(* IfNeeded, startRound, returnToLobby, onDispose).                        *)
KeepsMembership == M!Spec

-----------------------------------------------------------------------------
(*                               Liveness                                  *)

(* The fixed timestep runs as long as the room lives; the transport ends a *)
(* window that nobody used, and reports the departure of a connection it   *)
(* was asked to close.                                                     *)
Fairness ==
  /\ WF_vars(FixedStep)
  /\ \A s \in Sessions : WF_vars(net[s] \in {"leaving", "rejected", "ending", "dropped"} /\ OnLeave(s))

FairSpec == Spec /\ Fairness

(* A round that starts loading ends, whoever loads, drops or leaves.       *)
RoundEnds ==
  [](phase = "loading" => <>(phase \in {"results", "lobby"} \/ room = "disposed"))

(* The results give way to the lobby or to a new round, voted or not.      *)
ResultsEnd ==
  [](phase = "results" => <>(phase # "results" \/ room = "disposed"))

(* Nobody stays "reconnecting" forever: the person is back, the slot       *)
(* became a bot's or it was freed.                                         *)
WindowsClose ==
  \A p \in PlayerIds :
    [](players[p].connection = "reconnecting" =>
         <>(players[p].connection # "reconnecting"))

-----------------------------------------------------------------------------
(*             What the documentation says and the code does not do        *)

(* constants.ts: "Pessoas na sala alem dos ativos ficam na                 *)
(* fila/espectadores (limite fixo, sem vagas ocultas)".                    *)
RoomLimit == Cardinality(PeopleSeated) <= MaxRoomHumans
=============================================================================
