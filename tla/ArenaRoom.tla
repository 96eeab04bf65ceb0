------------------------------ MODULE ArenaRoom ------------------------------
(***************************************************************************)
(* The room of one Activity session (apps/game-server/src/rooms/           *)
(* ArenaRoom.ts): who has a slot, which connection speaks for it, who      *)
(* hosts, and the state machine                                            *)
(*                                                                         *)
(*   lobby -> loading -> countdown -> running -> finishing -> results      *)
(*                                                  -> (loading | lobby)   *)
(*                                                                         *)
(* One action is one handler run to completion: the server is a single     *)
(* JavaScript thread and none of these handlers awaits.  What interleaves  *)
(* is their order, which the network and the fixed timestep decide.        *)
(*                                                                         *)
(* Abstractions.  A bot has no connection and its entry never changes      *)
(* between startRound and the next cleaning of the table, so the bots of a *)
(* round are counted per team instead of kept in players; ids are given to *)
(* people only, which keeps their order.  p.reconnect is not null exactly  *)
(* while p.connection is "reconnecting" and is not kept.  Names, weapons,  *)
(* appearance, map and mode do not influence any step below and are left   *)
(* out; so are notices and lobby broadcasts.                               *)
(*                                                                         *)
(* A definition marked "Variant" is the one below it with a plausible      *)
(* mistake; no action uses it.  The properties are tried against them.     *)
(***************************************************************************)
EXTENDS Formation, Sequences

CONSTANTS
  Users,           \* the people that hold a credential for this session
  Sessions,        \* connections; each is one Colyseus client, used once
  Creators,        \* the users whose credential has canCreate
  NoUser, NoSession,
  MaxRoomHumans,   \* MAX_ROOM_HUMANS
  MaxTeamSize,     \* MAX_TEAM_SIZE
  LoadingTicks, CountdownTicks, RoundTicks, FinishingTicks, ResultsTicks,
  \* what people ask for: the payloads of the lobby messages
  TeamRequests, ReadyRequests, BotRequests, Options,
  MaxPlayerId,     \* bound: people admitted during the life of the room
  MaxRounds        \* bound: rounds started

ASSUME CreatorsAreUsers == Creators \subseteq Users
ASSUME NoUserIsNobody == NoUser \notin Users
ASSUME NoSessionIsNone == NoSession \notin Sessions
ASSUME LimitsAreNat ==
  /\ MaxRoomHumans \in Nat /\ MaxTeamSize \in Nat \ {0}
  /\ MaxPlayerId \in Nat /\ MaxRounds \in Nat
ASSUME TicksArePositive ==
  /\ LoadingTicks \in Nat \ {0} /\ CountdownTicks \in Nat \ {0}
  /\ RoundTicks \in Nat \ {0} /\ FinishingTicks \in Nat \ {0}
  /\ ResultsTicks \in Nat \ {0}
ASSUME RequestsAreValid ==
  /\ TeamRequests \subseteq Teams
  /\ ReadyRequests \subseteq BOOLEAN /\ BotRequests \subseteq BOOLEAN
  /\ Options \subseteq Nat

VARIABLES
  \* the room
  room,             \* "open", "closing" (shutdown) or "disposed"
  phase, roundId,
  ticksLeft,        \* phaseDeadlineTick - tickCount, or the clock of sim
  players,          \* id -> RoomPlayer; Vacant when the map has no entry
  nextPlayerId, hostPlayerId,
  bySessionId, replacedSessions, kicked,
  fillWithBots, formation,
  \* the simulation of the round, as far as the room drives it
  sim,              \* "none", "live" or "finished"
  roster,           \* the ids in sim.players that belong to people
  suspended, brains,\* of these, the suspended ones and those a bot drives
  bots,             \* bots per team
  \* the results sink and the connections
  sinkWrites,       \* calls of sink.write, in order
  net,              \* state of each connection in the transport
  told              \* last round each connection was told of (ROUND_LOADING)

roomVars == <<room, phase, roundId, ticksLeft>>
slotVars == <<players, nextPlayerId, hostPlayerId, bySessionId,
              replacedSessions, kicked>>
optionVars == <<fillWithBots, formation>>
simVars == <<sim, roster, suspended, brains, bots>>
netVars == <<net, told>>
vars == <<roomVars, slotVars, optionVars, simVars, sinkWrites, netVars>>

PlayerIds == 1..MaxPlayerId
NoPlayer == 0
Phases == {"lobby", "loading", "countdown", "running", "finishing", "results"}
ActivePhases == {"loading", "countdown", "running", "finishing"}

(* "ending": onDrop returned without a window, onLeave is still to come.   *)
(* "rejected": the window was closed by a takeover, onLeave is to come.    *)
NetStates == {"unused", "open", "leaving", "dropped", "rejected", "ending", "left"}

RoomPlayer == [user : Users,
               connection : {"connected", "reconnecting", "replaced_by_bot"},
               session : Sessions \cup {NoSession},
               team : Teams, ready : BOOLEAN, loaded : BOOLEAN,
               inRound : BOOLEAN, vote : {"none", "rematch", "lobby"},
               sitOuts : Nat]

Vacant == [user |-> NoUser, connection |-> "vacant", session |-> NoSession,
           team |-> 0, ready |-> FALSE, loaded |-> FALSE, inRound |-> FALSE,
           vote |-> "none", sitOuts |-> 0]

Table == [PlayerIds -> RoomPlayer \cup {Vacant}]

Result == [round : Nat, status : {"completed", "interrupted"}]

Present(ps) == {p \in PlayerIds : ps[p].connection # "vacant"}
Slots == Present(players)
Connected(ps) == {p \in PlayerIds : ps[p].connection = "connected"}
(* Variant: the search for the user's slot skips the slots bots drive.     *)
SlotsOfSkippingBots(u) ==
  {p \in Slots : players[p].user = u /\ players[p].connection # "replaced_by_bot"}
SlotsOf(u) == {p \in Slots : players[p].user = u}

(* bySessionId.get followed by players.get                                 *)
HasSlot(s) == bySessionId[s] # NoPlayer /\ bySessionId[s] \in Slots

(* the test of guarded(): the slot still belongs to this connection        *)
Speaks(s) ==
  /\ net[s] \in {"open", "leaving"}
  /\ HasSlot(s)
  /\ players[bySessionId[s]].session = s

-----------------------------------------------------------------------------
(*                                Host                                     *)

CanHost(ps, p) ==
  /\ p # NoPlayer
  /\ ps[p].connection \notin {"vacant", "replaced_by_bot"}
  /\ ps[p].session # NoSession

Lowest(S) == CHOOSE p \in S : \A q \in S : p <= q

(* Variant: any entry of the table keeps the hosting, connected or not.    *)
PromotedWhenAbsent(ps, host) ==
  LET next == {p \in Present(ps) : ps[p].session # NoSession}
  IN  IF host \in Present(ps) THEN host
      ELSE IF next = {} THEN NoPlayer ELSE Lowest(next)

(* Variant: the lowest id present always hosts.                            *)
PromotedToLowest(ps, host) ==
  LET next == {p \in Present(ps) : ps[p].session # NoSession}
  IN  IF next = {} THEN NoPlayer ELSE Lowest(next)

(* promoteHostIfNeeded                                                     *)
Promoted(ps, host) ==
  LET next == {p \in Present(ps) : ps[p].session # NoSession}
  IN  IF CanHost(ps, host) THEN host
      ELSE IF next = {} THEN NoPlayer ELSE Lowest(next)

-----------------------------------------------------------------------------
(*                               Joining                                   *)

MidRound == phase \notin {"lobby", "results"}
RoundVisible == sim # "none" /\ phase \in {"loading", "countdown", "running"}

(* pickTeamForNewcomer: people whose slot a bot drives count as well       *)
TeamForNewcomer ==
  LET on(t) == Cardinality({p \in Slots : players[p].team = t})
  IN  IF on(0) <= on(1) THEN 0 ELSE 1

(* people with a place in the room: a slot a bot drives takes none         *)
PeopleSeated == {p \in Slots : players[p].connection # "replaced_by_bot"}

(* The transport admits at most maxClients = MAX_ROOM_HUMANS + 2 clients,  *)
(* the ones in their reconnection window included.                         *)
SeatInRoom ==
  Cardinality({s \in Sessions : net[s] \in {"open", "leaving", "dropped"}})
    < MaxRoomHumans + 2

(* onAuth and the refusals at the top of onJoin; the first to arrive opens *)
(* the room and needs canCreate.                                           *)
Admissible(s, u) ==
  /\ room = "open"
  /\ net[s] = "unused"
  /\ SeatInRoom
  /\ u \notin kicked
  /\ u \in Creators \/ Slots # {}

(* Variant: only ROUND_START is sent again, not ROUND_LOADING.             *)
AnnounceNothing(s) == UNCHANGED told

(* afterJoinSync: whoever enters with the round on is told of it           *)
Announce(s) == told' = IF RoundVisible THEN [told EXCEPT ![s] = roundId] ELSE told

(* a player that is back; with the round on, one of the bench has to load   *)
Returned(r) ==
  [r EXCEPT !.connection = "connected",
            !.loaded = @ /\ ~(RoundVisible /\ ~r.inRound)]

JoinNew(s, u) ==
  /\ Admissible(s, u)
  /\ SlotsOf(u) = {}
  /\ Cardinality(PeopleSeated) < MaxRoomHumans
  /\ nextPlayerId <= MaxPlayerId
  /\ players' = [players EXCEPT ![nextPlayerId] =
                   [user |-> u, connection |-> "connected", session |-> s,
                    team |-> TeamForNewcomer, ready |-> FALSE,
                    loaded |-> FALSE, inRound |-> ~MidRound,
                    vote |-> "none", sitOuts |-> 0]]
  /\ nextPlayerId' = nextPlayerId + 1
  /\ bySessionId' = [bySessionId EXCEPT ![s] = nextPlayerId]
  /\ hostPlayerId' = IF hostPlayerId = NoPlayer THEN nextPlayerId ELSE hostPlayerId
  /\ net' = [net EXCEPT ![s] = "open"]
  /\ Announce(s)
  /\ UNCHANGED <<roomVars, replacedSessions, kicked, optionVars, simVars, sinkWrites>>

(* The connection a takeover displaces: a live one is asked to leave, one  *)
(* in its reconnection window has the window rejected.                     *)
Displaced(state) ==
  CASE state \in {"open", "leaving"} -> "leaving"
    [] state = "dropped" -> "rejected"
    [] OTHER -> state

(* onJoin of a user that already has the slot p: takeOverSlot and          *)
(* afterJoinSync.  There is no test of capacity on this path.              *)
Rejoin(s, u) ==
  /\ Admissible(s, u)
  /\ \E p \in SlotsOf(u) :
       LET old == players[p].session
           back == [players EXCEPT ![p] =
                      Returned([@ EXCEPT !.session = s])]
       IN  /\ players' = back
           /\ replacedSessions' = replacedSessions \cup ({old} \ {NoSession})
           /\ bySessionId' = [c \in Sessions |->
                                IF c = s THEN p
                                ELSE IF c = old THEN NoPlayer ELSE bySessionId[c]]
           /\ net' = [c \in Sessions |->
                        IF c = s THEN "open"
                        ELSE IF c = old THEN Displaced(net[c]) ELSE net[c]]
           /\ brains' = brains \ {p}
           /\ suspended' = suspended \ {p}
           /\ hostPlayerId' = Promoted(back, hostPlayerId)
  /\ Announce(s)
  /\ UNCHANGED <<roomVars, nextPlayerId, kicked, optionVars, sim, roster, bots, sinkWrites>>

-----------------------------------------------------------------------------
(*                       Losing a connection                               *)

(* onDrop of a connection that a takeover replaced                         *)
DropReplaced(s) ==
  /\ s \in replacedSessions
  /\ replacedSessions' = replacedSessions \ {s}
  /\ net' = [net EXCEPT ![s] = "ending"]
  /\ UNCHANGED <<players, suspended>>

(* onDrop without a slot, or of a kicked user: no reconnection window      *)
DropRefused(s) ==
  /\ s \notin replacedSessions
  /\ HasSlot(s) => players[bySessionId[s]].user \in kicked
  /\ net' = [net EXCEPT ![s] = "ending"]
  /\ UNCHANGED <<players, suspended, replacedSessions>>

(* Variant: the ban is not consulted.                                      *)
DropKickedWithWindow(s) ==
  LET p == bySessionId[s]
  IN  /\ s \notin replacedSessions
      /\ HasSlot(s)
      /\ players' = [players EXCEPT ![p] = [@ EXCEPT !.connection = "reconnecting"]]
      /\ suspended' = IF p \in roster THEN suspended \cup {p} ELSE suspended
      /\ net' = [net EXCEPT ![s] = "dropped"]
      /\ UNCHANGED replacedSessions

(* onDrop that opens the reconnection window                               *)
DropWithWindow(s) ==
  LET p == bySessionId[s]
  IN  /\ s \notin replacedSessions
      /\ HasSlot(s)
      /\ players[p].user \notin kicked
      /\ players' = [players EXCEPT ![p] = [@ EXCEPT !.connection = "reconnecting"]]
      /\ suspended' = IF p \in roster THEN suspended \cup {p} ELSE suspended
      /\ net' = [net EXCEPT ![s] = "dropped"]
      /\ UNCHANGED replacedSessions

OnDrop(s) ==
  /\ room = "open"
  /\ net[s] \in {"open", "leaving"}
  /\ DropReplaced(s) \/ DropRefused(s) \/ DropWithWindow(s)
  /\ UNCHANGED <<roomVars, nextPlayerId, hostPlayerId, bySessionId, kicked,
                 optionVars, sim, roster, brains, bots, sinkWrites, told>>

(* Variant: the character stays suspended after the return.                *)
OnReconnectFrozen(s) ==
  LET p == bySessionId[s]
  IN  /\ net[s] = "dropped"
      /\ HasSlot(s)
      /\ players' = [players EXCEPT ![p].connection = "connected"]
      /\ net' = [net EXCEPT ![s] = "open"]
      /\ Announce(s)
      /\ UNCHANGED <<roomVars, nextPlayerId, hostPlayerId, bySessionId,
                     replacedSessions, kicked, optionVars, simVars, sinkWrites>>

(* onReconnect and afterJoinSync                                           *)
OnReconnect(s) ==
  LET p == bySessionId[s]
  IN  /\ net[s] = "dropped"
      /\ HasSlot(s)
      /\ players' = [players EXCEPT ![p] = Returned(@)]
      /\ suspended' = suspended \ {p}
      /\ net' = [net EXCEPT ![s] = "open"]
      /\ Announce(s)
      /\ UNCHANGED <<roomVars, nextPlayerId, hostPlayerId, bySessionId,
                     replacedSessions, kicked, optionVars, sim, roster, brains,
                     bots, sinkWrites>>

(* Variant: the loading does not count as part of the round.               *)
InActiveRoundOnceLoaded(p) ==
  players[p].inRound /\ sim # "none" /\ phase \in {"countdown", "running", "finishing"}
InActiveRound(p) == players[p].inRound /\ sim # "none" /\ phase \in ActivePhases

(* Variant: the mark is read and not consumed.                             *)
LeaveReplacedKept(s) ==
  /\ s \in replacedSessions
  /\ UNCHANGED <<replacedSessions, players, hostPlayerId, bySessionId, roster,
                 suspended, brains>>

(* onLeave of a connection that a takeover replaced                        *)
LeaveReplaced(s) ==
  /\ s \in replacedSessions
  /\ replacedSessions' = replacedSessions \ {s}
  /\ UNCHANGED <<players, hostPlayerId, bySessionId, roster, suspended, brains>>

(* onLeave of a connection that no longer speaks for a slot                *)
LeaveUnknown(s) ==
  /\ s \notin replacedSessions
  /\ HasSlot(s) => players[bySessionId[s]].session # s
  /\ bySessionId' = [bySessionId EXCEPT ![s] = NoPlayer]
  /\ UNCHANGED <<players, hostPlayerId, replacedSessions, roster, suspended, brains>>

(* Variant: the slot keeps the name of the connection that left.           *)
LeaveToBotKeepingSession(s) ==
  LET p == bySessionId[s]
      gone == [players EXCEPT ![p].connection = "replaced_by_bot"]
  IN  /\ s \notin replacedSessions
      /\ HasSlot(s) /\ players[p].session = s
      /\ InActiveRound(p)
      /\ bySessionId' = [bySessionId EXCEPT ![s] = NoPlayer]
      /\ players' = gone
      /\ suspended' = suspended \ {p}
      /\ brains' = IF p \in roster THEN brains \cup {p} ELSE brains
      /\ hostPlayerId' = Promoted(gone, hostPlayerId)
      /\ UNCHANGED <<replacedSessions, roster>>

(* Variant: a bot takes over and the slot still says "reconnecting".       *)
LeaveToBotUnmarked(s) ==
  LET p == bySessionId[s]
      gone == [players EXCEPT ![p].session = NoSession]
  IN  /\ s \notin replacedSessions
      /\ HasSlot(s) /\ players[p].session = s
      /\ InActiveRound(p)
      /\ bySessionId' = [bySessionId EXCEPT ![s] = NoPlayer]
      /\ players' = gone
      /\ suspended' = suspended \ {p}
      /\ brains' = IF p \in roster THEN brains \cup {p} ELSE brains
      /\ hostPlayerId' = Promoted(gone, hostPlayerId)
      /\ UNCHANGED <<replacedSessions, roster>>

(* onLeave during a round: a bot takes the slot, whose user may come back  *)
LeaveToBot(s) ==
  LET p == bySessionId[s]
      gone == [players EXCEPT ![p] = [@ EXCEPT !.session = NoSession,
                                               !.connection = "replaced_by_bot"]]
  IN  /\ s \notin replacedSessions
      /\ HasSlot(s) /\ players[p].session = s
      /\ InActiveRound(p)
      /\ bySessionId' = [bySessionId EXCEPT ![s] = NoPlayer]
      /\ players' = gone
      /\ suspended' = suspended \ {p}
      /\ brains' = IF p \in roster THEN brains \cup {p} ELSE brains
      /\ hostPlayerId' = Promoted(gone, hostPlayerId)
      /\ UNCHANGED <<replacedSessions, roster>>

(* Variant: the connection stays routed to the freed slot.                 *)
LeaveRoomRouted(s) ==
  LET p == bySessionId[s]
      gone == [players EXCEPT ![p] = Vacant]
  IN  /\ s \notin replacedSessions
      /\ HasSlot(s) /\ players[p].session = s
      /\ ~InActiveRound(p)
      /\ players' = gone
      /\ roster' = roster \ {p}
      /\ suspended' = suspended \ {p}
      /\ brains' = brains \ {p}
      /\ hostPlayerId' = Promoted(gone, hostPlayerId)
      /\ UNCHANGED <<replacedSessions, bySessionId>>

(* Variant: the slot is freed and its character stays in the simulation.   *)
LeaveRoomStillSimulated(s) ==
  LET p == bySessionId[s]
      gone == [players EXCEPT ![p] = Vacant]
  IN  /\ s \notin replacedSessions
      /\ HasSlot(s) /\ players[p].session = s
      /\ ~InActiveRound(p)
      /\ bySessionId' = [bySessionId EXCEPT ![s] = NoPlayer]
      /\ players' = gone
      /\ hostPlayerId' = Promoted(gone, hostPlayerId)
      /\ UNCHANGED <<replacedSessions, roster, suspended, brains>>

(* onLeave outside a round: the slot is freed                              *)
LeaveRoom(s) ==
  LET p == bySessionId[s]
      gone == [players EXCEPT ![p] = Vacant]
  IN  /\ s \notin replacedSessions
      /\ HasSlot(s) /\ players[p].session = s
      /\ ~InActiveRound(p)
      /\ bySessionId' = [bySessionId EXCEPT ![s] = NoPlayer]
      /\ players' = gone
      /\ roster' = roster \ {p}
      /\ suspended' = suspended \ {p}
      /\ brains' = brains \ {p}
      /\ hostPlayerId' = Promoted(gone, hostPlayerId)
      /\ UNCHANGED replacedSessions

(* A consented leave, the end of a window, or what follows onDrop when no  *)
(* window was opened.                                                      *)
OnLeave(s) ==
  /\ net[s] \in {"open", "leaving", "dropped", "rejected", "ending"}
  /\ LeaveReplaced(s) \/ LeaveUnknown(s) \/ LeaveToBot(s) \/ LeaveRoom(s)
  /\ net' = [net EXCEPT ![s] = "left"]
  /\ told' = [told EXCEPT ![s] = 0]
  /\ UNCHANGED <<roomVars, nextPlayerId, kicked, optionVars, sim, bots, sinkWrites>>

-----------------------------------------------------------------------------
(*                        The room's messages                              *)

(* guarded(): the 51st invalid message expels the user for a minute        *)
Flood(s) ==
  /\ Speaks(s) /\ net[s] = "open"
  /\ kicked' = kicked \cup {players[bySessionId[s]].user}
  /\ net' = [net EXCEPT ![s] = "leaving"]
  /\ UNCHANGED <<roomVars, players, nextPlayerId, hostPlayerId, bySessionId,
                 replacedSessions, optionVars, simVars, sinkWrites, told>>

(* the minute is over                                                      *)
BanEnds(u) ==
  /\ u \in kicked
  /\ kicked' = kicked \ {u}
  /\ UNCHANGED <<roomVars, players, nextPlayerId, hostPlayerId, bySessionId,
                 replacedSessions, optionVars, simVars, sinkWrites, netVars>>

ChangeSlot(p, new) ==
  /\ players' = [players EXCEPT ![p] = new]
  /\ UNCHANGED <<roomVars, nextPlayerId, hostPlayerId, bySessionId,
                 replacedSessions, kicked, optionVars, simVars, sinkWrites>>

SetTeam(s, t) ==
  LET p == bySessionId[s]
  IN  /\ Speaks(s)
      /\ phase = "lobby"
      /\ players[p].team # t
      /\ Cardinality({q \in Slots : players[q].team = t}) < MaxTeamSize
      /\ ChangeSlot(p, [players[p] EXCEPT !.team = t, !.ready = FALSE])
      /\ UNCHANGED netVars

SetReady(s, ready) ==
  LET p == bySessionId[s]
  IN  /\ Speaks(s)
      /\ phase = "lobby"
      /\ ChangeSlot(p, [players[p] EXCEPT !.ready = ready])
      /\ UNCHANGED netVars

(* SET_BOTS and SET_OPTIONS: only from the host, only in the lobby         *)
SetBots(s, enabled) ==
  /\ Speaks(s)
  /\ bySessionId[s] = hostPlayerId
  /\ phase = "lobby"
  /\ fillWithBots' = enabled
  /\ UNCHANGED <<roomVars, slotVars, formation, simVars, sinkWrites, netVars>>

SetOptions(s, option) ==
  /\ Speaks(s)
  /\ bySessionId[s] = hostPlayerId
  /\ phase = "lobby"
  /\ formation' = option
  /\ UNCHANGED <<roomVars, slotVars, fillWithBots, simVars, sinkWrites, netVars>>

(* LOADED: a client confirms the round it was told of.  A repetition       *)
(* changes nothing here (it may be sent the paint again).                  *)
Loaded(s) ==
  LET p == bySessionId[s]
  IN  /\ Speaks(s)
      /\ told[s] = roundId /\ roundId > 0
      /\ ChangeSlot(p, [players[p] EXCEPT !.loaded = TRUE])
      /\ UNCHANGED netVars

-----------------------------------------------------------------------------
(*                              The round                                  *)

(* plan(): the formation of the people that are connected now              *)
Candidates == [p \in Connected(players) |->
                 [team |-> players[p].team, sitOuts |-> players[p].sitOuts]]
PlanSize == TeamSizeFor(Cardinality(Connected(players)), formation,
                        fillWithBots, MaxTeamSize)
PlanBlocked == Blocked(Candidates, PlanSize)

(* startRound: forgets the slots nobody came back to, seats the players of *)
(* the plan, puts the others on the bench and builds the simulation.       *)
StartRound ==
  LET playing == Playing(Candidates, PlanSize)
      seat(p) == [players[p] EXCEPT
                    !.team = TeamOf(Candidates, PlanSize, p),
                    !.inRound = TRUE, !.sitOuts = 0,
                    !.loaded = FALSE, !.vote = "none"]
      bench(p) == [players[p] EXCEPT
                     !.inRound = FALSE, !.sitOuts = @ + 1,
                     !.loaded = FALSE, !.vote = "none"]
  IN  /\ roundId < MaxRounds
      /\ roundId' = roundId + 1
      /\ phase' = "loading"
      /\ ticksLeft' = LoadingTicks
      /\ players' = [p \in PlayerIds |->
                       IF players[p].connection \in {"vacant", "replaced_by_bot"}
                       THEN Vacant
                       ELSE IF p \in playing THEN seat(p) ELSE bench(p)]
      /\ sim' = "live"
      /\ roster' = playing
      /\ suspended' = {}
      /\ brains' = {}
      /\ bots' = [t \in Teams |-> BotsIn(Candidates, PlanSize, fillWithBots, t)]
      /\ told' = [s \in Sessions |->
                    IF net[s] = "open" /\ HasSlot(s) THEN roundId + 1 ELSE told[s]]

(* START                                                                   *)
Start(s) ==
  LET p == bySessionId[s]
  IN  /\ Speaks(s)
      /\ p = hostPlayerId
      /\ phase = "lobby"
      /\ \A q \in Connected(players) \ {p} : players[q].ready
      /\ ~PlanBlocked
      /\ StartRound
      /\ UNCHANGED <<room, nextPlayerId, hostPlayerId, bySessionId,
                     replacedSessions, kicked, optionVars, sinkWrites, net>>

ReturnToLobby(ps) ==
  LET stays(p) == [ps[p] EXCEPT !.ready = FALSE, !.inRound = TRUE,
                                !.loaded = FALSE, !.vote = "none"]
      table == [p \in PlayerIds |->
                  IF ps[p].connection \in {"vacant", "replaced_by_bot"}
                  THEN Vacant ELSE stays(p)]
  IN  /\ phase' = "lobby"
      /\ ticksLeft' = 0
      /\ sim' = "none"
      /\ roster' = {} /\ suspended' = {} /\ brains' = {}
      /\ bots' = [t \in Teams |-> 0]
      /\ players' = table
      /\ hostPlayerId' = Promoted(table, hostPlayerId)

(* VOTE in the results: the host's "lobby" closes them, the last missing   *)
(* "rematch" starts the next round, any other vote is only recorded.       *)
Vote(s, choice) ==
  LET p == bySessionId[s]
      voted == [players EXCEPT ![p] = [@ EXCEPT !.vote = choice]]
      all == \A q \in Connected(players) : voted[q].vote = "rematch"
  IN  /\ Speaks(s)
      /\ phase = "results"
      /\ UNCHANGED <<room, nextPlayerId, bySessionId, replacedSessions, kicked,
                     optionVars, sinkWrites, net>>
      /\ IF choice = "lobby" /\ p = hostPlayerId
         THEN ReturnToLobby(voted) /\ UNCHANGED <<roundId, told>>
         ELSE IF Connected(players) # {} /\ all /\ ~PlanBlocked
         THEN StartRound /\ UNCHANGED hostPlayerId
         ELSE /\ players' = voted
              /\ UNCHANGED <<phase, roundId, ticksLeft, hostPlayerId, simVars, told>>

-----------------------------------------------------------------------------
(*                         The fixed timestep                              *)

AwaitedPlayers == {p \in Connected(players) : players[p].inRound}
AllLoaded == \A p \in AwaitedPlayers : players[p].loaded

(* Variant: the loading waits for everybody, without a deadline.           *)
LoadingStepPatient ==
  /\ phase = "loading" /\ AllLoaded
  /\ phase' = "countdown" /\ ticksLeft' = CountdownTicks
  /\ UNCHANGED <<sim, sinkWrites, players, hostPlayerId, roster, suspended,
                 brains, bots>>

LoadingStep ==
  /\ phase = "loading"
  /\ IF AllLoaded \/ ticksLeft = 1
     THEN phase' = "countdown" /\ ticksLeft' = CountdownTicks
     ELSE ticksLeft' = ticksLeft - 1 /\ UNCHANGED phase
  /\ UNCHANGED <<sim, sinkWrites, players, hostPlayerId, roster, suspended,
                 brains, bots>>

CountdownStep ==
  /\ phase = "countdown"
  /\ IF ticksLeft = 1
     THEN phase' = "running" /\ ticksLeft' = RoundTicks
     ELSE ticksLeft' = ticksLeft - 1 /\ UNCHANGED phase
  /\ UNCHANGED <<sim, sinkWrites, players, hostPlayerId, roster, suspended,
                 brains, bots>>

RunningStep ==
  /\ phase = "running" /\ ticksLeft > 1
  /\ ticksLeft' = ticksLeft - 1
  /\ UNCHANGED <<phase, sim, sinkWrites, players, hostPlayerId, roster,
                 suspended, brains, bots>>

(* Variant: the end of the round does not leave the running phase.         *)
RoundFinishedEachTick ==
  /\ phase = "running"
  /\ sim' = "finished"
  /\ ticksLeft' = FinishingTicks
  /\ sinkWrites' = Append(sinkWrites, [round |-> roundId, status |-> "completed"])
  /\ UNCHANGED <<phase, players, hostPlayerId, roster, suspended, brains, bots>>

(* onRoundFinished: the clock ran out or the objective was reached         *)
RoundFinished ==
  /\ phase = "running"
  /\ sim' = "finished"
  /\ phase' = "finishing"
  /\ ticksLeft' = FinishingTicks
  /\ sinkWrites' = Append(sinkWrites, [round |-> roundId, status |-> "completed"])
  /\ UNCHANGED <<players, hostPlayerId, roster, suspended, brains, bots>>

FinishingStep ==
  /\ phase = "finishing"
  /\ IF ticksLeft = 1
     THEN phase' = "results" /\ ticksLeft' = ResultsTicks
     ELSE ticksLeft' = ticksLeft - 1 /\ UNCHANGED phase
  /\ UNCHANGED <<sim, sinkWrites, players, hostPlayerId, roster, suspended,
                 brains, bots>>

(* Variant: the results wait for the votes, without a deadline.            *)
ResultsStepPatient ==
  /\ phase = "results" /\ ticksLeft > 1
  /\ ticksLeft' = ticksLeft - 1
  /\ UNCHANGED <<phase, players, hostPlayerId, simVars, sinkWrites>>

ResultsStep ==
  /\ phase = "results"
  /\ IF ticksLeft = 1
     THEN ReturnToLobby(players)
     ELSE /\ ticksLeft' = ticksLeft - 1
          /\ UNCHANGED <<phase, players, hostPlayerId, simVars>>
  /\ UNCHANGED sinkWrites

FixedStep ==
  /\ room # "disposed"
  /\ \/ LoadingStep \/ CountdownStep \/ RunningStep \/ RoundFinished
     \/ FinishingStep \/ ResultsStep
  /\ UNCHANGED <<room, roundId, nextPlayerId, bySessionId, replacedSessions,
                 kicked, optionVars, netVars>>

-----------------------------------------------------------------------------
(*                         The end of the room                             *)

(* onBeforeShutdown: every connection is closed, every window rejected     *)
Shutdown ==
  /\ room = "open"
  /\ room' = "closing"
  /\ net' = [s \in Sessions |-> Displaced(net[s])]
  /\ UNCHANGED <<phase, roundId, ticksLeft, slotVars, optionVars, simVars,
                 sinkWrites, told>>

(* onDispose, once no connection is left                                   *)
Dispose ==
  /\ room # "disposed"
  /\ \A s \in Sessions : net[s] \in {"unused", "left"}
  /\ room' = "disposed"
  /\ sinkWrites' = IF sim = "live" /\ phase \in {"running", "countdown"}
                   THEN Append(sinkWrites, [round |-> roundId, status |-> "interrupted"])
                   ELSE sinkWrites
  /\ sim' = "none"
  /\ UNCHANGED <<phase, roundId, ticksLeft, slotVars, optionVars, roster,
                 suspended, brains, bots, netVars>>

Gone == room = "disposed" /\ UNCHANGED vars

-----------------------------------------------------------------------------
Init ==
  /\ room = "open" /\ phase = "lobby" /\ roundId = 0 /\ ticksLeft = 0
  /\ players = [p \in PlayerIds |-> Vacant]
  /\ nextPlayerId = 1 /\ hostPlayerId = NoPlayer
  /\ bySessionId = [s \in Sessions |-> NoPlayer]
  /\ replacedSessions = {} /\ kicked = {}
  /\ fillWithBots = TRUE /\ formation = Flex
  /\ sim = "none" /\ roster = {} /\ suspended = {} /\ brains = {}
  /\ bots = [t \in Teams |-> 0]
  /\ sinkWrites = <<>>
  /\ net = [s \in Sessions |-> "unused"]
  /\ told = [s \in Sessions |-> 0]

Message(s) ==
  /\ room # "disposed"
  /\ \/ Flood(s) \/ Start(s) \/ Loaded(s)
     \/ \E t \in TeamRequests : SetTeam(s, t)
     \/ \E ready \in ReadyRequests : SetReady(s, ready)
     \/ \E enabled \in BotRequests : SetBots(s, enabled)
     \/ \E option \in Options : SetOptions(s, option)
     \/ \E choice \in {"rematch", "lobby"} : Vote(s, choice)

Connection(s) ==
  \/ \E u \in Users : JoinNew(s, u) \/ Rejoin(s, u)
  \/ OnDrop(s) \/ OnReconnect(s) \/ OnLeave(s)

Next ==
  \/ \E s \in Sessions : Connection(s) \/ Message(s)
  \/ \E u \in Users : BanEnds(u)
  \/ FixedStep \/ Shutdown \/ Dispose \/ Gone

Spec == Init /\ [][Next]_vars
=============================================================================
