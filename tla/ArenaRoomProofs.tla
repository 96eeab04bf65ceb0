---------------------------- MODULE ArenaRoomProofs ----------------------------
(***************************************************************************)
(* Theorems about ArenaRoom, for every number of people, connections and   *)
(* rounds: the types; then the agreement of slots, connections, expulsions *)
(* and the host; then the rounds: who plays, who waits, who drives each    *)
(* slot, who was told, which results are written, when the hosting moves;  *)
(* and that the room is the Membership its people know.                    *)
(***************************************************************************)
EXTENDS ArenaRoomProperties, FormationProofs, FiniteSetTheorems, WellFoundedInduction, TLAPS

-----------------------------------------------------------------------------
(*                              Operators                                  *)

(* A set of player ids that is not empty has a lowest member.              *)
LEMMA LowestIsMember ==
  ASSUME NEW S \in SUBSET Nat, S # {}
  PROVE  Lowest(S) \in S
<1>1. IsWellFoundedOn(OpToRel(<, Nat), Nat)
  BY NatLessThanWellFounded
<1>2. PICK x \in S : \A y \in S : ~ (<<y, x>> \in OpToRel(<, Nat))
  BY <1>1, WFMin
<1>3. \A y \in S : ~ (y < x)
  BY <1>2 DEF OpToRel
<1>4. \E p \in S : \A q \in S : p <= q
  BY <1>3
<1>. QED  BY <1>4 DEF Lowest

(* Sets of player ids are finite, so the room can count them.              *)
LEMMA PlayersAreCountable ==
  ASSUME NEW S \in SUBSET PlayerIds
  PROVE  IsFiniteSet(S) /\ Cardinality(S) \in Nat
<1>1. MaxPlayerId \in Nat
  BY LimitsAreNat
<1>2. IsFiniteSet(PlayerIds)
  BY <1>1, FS_Interval DEF PlayerIds
<1>. QED  BY <1>2, FS_Subset, FS_CardinalityType

(* promoteHostIfNeeded keeps a host that can host; otherwise it finds one  *)
(* that has a connection, if there is any.                                 *)
LEMMA PromotedChooses ==
  ASSUME NEW ps \in Table, NEW host \in PlayerIds \cup {NoPlayer}
  PROVE  LET next == {p \in Present(ps) : ps[p].session # NoSession}
         IN  /\ Promoted(ps, host) \in PlayerIds \cup {NoPlayer}
             /\ CanHost(ps, host) => Promoted(ps, host) = host
             /\ ~CanHost(ps, host) /\ next # {} => Promoted(ps, host) \in next
             /\ ~CanHost(ps, host) /\ next = {} => Promoted(ps, host) = NoPlayer
<1>. DEFINE next == {p \in Present(ps) : ps[p].session # NoSession}
<1>1. next \subseteq PlayerIds /\ PlayerIds \subseteq Nat
  BY LimitsAreNat DEF Present, PlayerIds
<1>2. next # {} => Lowest(next) \in next
  BY <1>1, LowestIsMember
<1>. QED  BY <1>1, <1>2 DEF Promoted

(* An entry of the table is a player or vacant, and says which.            *)
LEMMA TableEntries ==
  ASSUME NEW ps \in Table, NEW p \in PlayerIds
  PROVE  /\ ps[p].connection = "vacant" => ps[p] = Vacant
         /\ ps[p].connection # "vacant" => ps[p] \in RoomPlayer
  BY DEF Table, Vacant, RoomPlayer

(* What plan() computes has the types the round needs, and only people     *)
(* that are connected get a seat.                                          *)
LEMMA PlanTypes ==
  ASSUME TypeOK
  PROVE  /\ PlanSize \in Int
         /\ Playing(Candidates, PlanSize) \subseteq Connected(players)
         /\ \A p \in Connected(players) : TeamOf(Candidates, PlanSize, p) \in Teams
         /\ \A t \in Teams : BotsIn(Candidates, PlanSize, fillWithBots, t) \in Int
<1>. DEFINE people == Connected(players)
<1>1. people \subseteq PlayerIds /\ DOMAIN Candidates = people
  BY DEF Connected, Candidates
<1>2. Cardinality(people) \in Nat
  BY <1>1, PlayersAreCountable
<1>3. PlanSize \in Int
  <2>1. /\ formation \in Int /\ MaxTeamSize \in Int /\ Cardinality(people) \in Int
        /\ (Cardinality(people) + 1) \div 2 \in Int /\ Cardinality(people) \div 2 \in Int
    BY <1>2, LimitsAreNat DEF TypeOK
  <2>2. \A n, option, max \in Int, fill \in BOOLEAN :
          (n + 1) \div 2 \in Int /\ n \div 2 \in Int
            => TeamSizeFor(n, option, fill, max) \in Int
    BY DEF TeamSizeFor, LesserOf, Flex
  <2>. QED  BY <2>1, <2>2 DEF PlanSize, TypeOK
<1>4. Playing(Candidates, PlanSize) \subseteq people
  BY <1>1 DEF Playing
<1>5. ASSUME NEW p \in people
      PROVE  TeamOf(Candidates, PlanSize, p) \in Teams
  <2>1. Candidates[p].team \in Teams
    <3>1. p \in PlayerIds /\ players[p].connection # "vacant" /\ players \in Table
      BY DEF Connected, TypeOK
    <3>2. players[p] \in RoomPlayer
      BY <3>1, TableEntries
    <3>. QED  BY <1>1, <3>2 DEF Candidates, RoomPlayer
  <2>. QED  BY <2>1 DEF TeamOf, Teams
<1>6. ASSUME NEW t \in Teams
      PROVE  BotsIn(Candidates, PlanSize, fillWithBots, t) \in Int
  <2>1. HumansIn(Candidates, PlanSize, t) \in Nat
    BY <1>1, <1>4, PlayersAreCountable DEF HumansIn
  <2>. QED  BY <1>3, <2>1 DEF BotsIn
<1>. QED  BY <1>3, <1>4, <1>5, <1>6

Seated(r, t) == [r EXCEPT !.team = t, !.inRound = TRUE, !.sitOuts = 0,
                          !.loaded = FALSE, !.vote = "none"]
Benched(r) == [r EXCEPT !.inRound = FALSE, !.sitOuts = @ + 1,
                        !.loaded = FALSE, !.vote = "none"]
Rested(r) == [r EXCEPT !.ready = FALSE, !.inRound = TRUE,
                       !.loaded = FALSE, !.vote = "none"]

(* The records the handlers write into the table are players.              *)
LEMMA PlayerRecords ==
  ASSUME NEW r \in RoomPlayer
  PROVE  /\ Benched(r) \in RoomPlayer
         /\ Rested(r) \in RoomPlayer
         /\ \A t \in Teams : Seated(r, t) \in RoomPlayer
         /\ Returned(r) \in RoomPlayer
         /\ \A s \in Sessions : [r EXCEPT !.session = s] \in RoomPlayer
         /\ [r EXCEPT !.connection = "reconnecting"] \in RoomPlayer
         /\ [r EXCEPT !.session = NoSession,
                      !.connection = "replaced_by_bot"] \in RoomPlayer
<1>1. r.sitOuts + 1 \in Nat
  BY DEF RoomPlayer
<1>2. Benched(r) \in RoomPlayer
  BY <1>1 DEF RoomPlayer, Benched
<1>3. Rested(r) \in RoomPlayer
  BY DEF RoomPlayer, Rested
<1>4. \A t \in Teams : Seated(r, t) \in RoomPlayer
  BY DEF RoomPlayer, Seated
<1>5. Returned(r) \in RoomPlayer
  BY DEF RoomPlayer, Returned
<1>6. \A s \in Sessions : [r EXCEPT !.session = s] \in RoomPlayer
  BY DEF RoomPlayer
<1>7. /\ [r EXCEPT !.connection = "reconnecting"] \in RoomPlayer
      /\ [r EXCEPT !.session = NoSession,
                   !.connection = "replaced_by_bot"] \in RoomPlayer
  BY DEF RoomPlayer
<1>. QED  BY <1>2, <1>3, <1>4, <1>5, <1>6, <1>7

(* Both ways out of the results leave a table of the right type.           *)
LEMMA StartRoundTypes ==
  ASSUME TypeOK, StartRound
  PROVE  /\ players' \in Table /\ roundId' \in Nat
         /\ phase' = "loading" /\ ticksLeft' \in Nat \ {0} /\ sim' = "live"
         /\ roster' \subseteq Connected(players) /\ suspended' = {} /\ brains' = {}
         /\ bots' \in [Teams -> Int] /\ told' \in [Sessions -> Nat]
<1>. DEFINE playing == Playing(Candidates, PlanSize)
<1>1. /\ playing \subseteq Connected(players)
      /\ \A p \in playing : TeamOf(Candidates, PlanSize, p) \in Teams
      /\ \A t \in Teams : BotsIn(Candidates, PlanSize, fillWithBots, t) \in Int
  BY PlanTypes
<1>3. ASSUME NEW p \in PlayerIds, players[p].connection # "vacant"
      PROVE  /\ players[p] \in RoomPlayer
             /\ Benched(players[p]) \in RoomPlayer
             /\ \A t \in Teams : Seated(players[p], t) \in RoomPlayer
  BY <1>3, TableEntries, PlayerRecords DEF TypeOK
<1>4. players' \in Table
  BY <1>1, <1>3 DEF StartRound, Seated, Benched, Table
<1>5. told' \in [Sessions -> Nat] /\ roundId' \in Nat
  <2>1. roundId + 1 \in Nat
    BY DEF TypeOK
  <2>2. told' = [s \in Sessions |->
                   IF net[s] = "open" /\ HasSlot(s) THEN roundId + 1 ELSE told[s]]
    BY DEF StartRound
  <2>3. roundId' = roundId + 1
    BY DEF StartRound
  <2>. QED  BY <2>1, <2>2, <2>3 DEF TypeOK
<1>6. bots' \in [Teams -> Int]
  BY <1>1 DEF StartRound
<1>7. /\ phase' = "loading" /\ ticksLeft' \in Nat \ {0} /\ sim' = "live"
      /\ roster' \subseteq Connected(players) /\ suspended' = {} /\ brains' = {}
  BY <1>1, TicksArePositive DEF StartRound
<1>. QED  BY <1>4, <1>5, <1>6, <1>7

(* The cleaning of the table at the return to the lobby is well typed.     *)
LEMMA ReturnToLobbyTypes ==
  ASSUME TypeOK, NEW ps \in Table, ReturnToLobby(ps)
  PROVE  /\ players' \in Table
         /\ hostPlayerId' \in PlayerIds \cup {NoPlayer}
         /\ phase' = "lobby" /\ ticksLeft' = 0 /\ sim' = "none"
         /\ roster' = {} /\ suspended' = {} /\ brains' = {}
         /\ bots' \in [Teams -> Int]
<1>2. ASSUME NEW p \in PlayerIds, ps[p].connection # "vacant"
      PROVE  Rested(ps[p]) \in RoomPlayer
  BY <1>2, TableEntries, PlayerRecords
<1>3. players' \in Table
  BY <1>2 DEF ReturnToLobby, Rested, Table
<1>4. hostPlayerId' = Promoted(players', hostPlayerId)
  BY DEF ReturnToLobby
<1>5. hostPlayerId' \in PlayerIds \cup {NoPlayer}
  BY <1>3, <1>4, PromotedChooses DEF TypeOK
<1>6. bots' \in [Teams -> Int]
  <2>1. bots' = [t \in Teams |-> 0]
    BY DEF ReturnToLobby
  <2>. QED  BY <2>1
<1>7. /\ phase' = "lobby" /\ ticksLeft' = 0 /\ sim' = "none"
      /\ roster' = {} /\ suspended' = {} /\ brains' = {}
  BY DEF ReturnToLobby
<1>. QED  BY <1>3, <1>5, <1>6, <1>7

-----------------------------------------------------------------------------
(*                                Types                                    *)

(* The new room is well typed (the initial values of the fields).          *)
LEMMA InitTypes == Init => TypeInv
<1>. SUFFICES ASSUME Init PROVE TypeInv
  OBVIOUS
<1>2. players \in Table
  BY DEF Init, Table
<1>3. sinkWrites \in Seq(Result)
  BY DEF Init
<1>4. bots \in [Teams -> Int]
  <2>1. bots = [t \in Teams |-> 0]
    BY DEF Init
  <2>. QED  BY <2>1
<1>5. told \in [Sessions -> Nat] /\ net \in [Sessions -> NetStates]
  BY DEF Init, NetStates
<1>6. bySessionId \in [Sessions -> PlayerIds \cup {NoPlayer}]
  BY DEF Init
<1>. QED  BY <1>2, <1>3, <1>4, <1>5, <1>6
     DEF TypeInv, TypeOK, ClockRuns, Init, Phases, Flex

(* Joining, losing and recovering a connection keep the types.             *)
LEMMA ConnectionTypes ==
  ASSUME TypeInv, NEW s \in Sessions, Connection(s)
  PROVE  TypeInv'
<1>. USE DEF TypeInv, ClockRuns, TypeOK
<1>0. HasSlot(s) => /\ bySessionId[s] \in PlayerIds
                     /\ players[bySessionId[s]] \in RoomPlayer
  BY TableEntries DEF HasSlot, Slots, Present
<1>1. ASSUME NEW u \in Users, JoinNew(s, u)
      PROVE  TypeInv'
  <2>1. nextPlayerId \in PlayerIds /\ nextPlayerId + 1 \in Nat \ {0}
    BY <1>1, LimitsAreNat DEF JoinNew, PlayerIds
  <2>2. players' \in Table
    <3>1. [user |-> u, connection |-> "connected", session |-> s,
           team |-> TeamForNewcomer, ready |-> FALSE,
           loaded |-> FALSE, inRound |-> ~MidRound,
           vote |-> "none", sitOuts |-> 0] \in RoomPlayer
      BY DEF RoomPlayer, TeamForNewcomer, MidRound, Teams
    <3>. QED  BY <1>1, <2>1, <3>1 DEF JoinNew, Table
  <2>3. told' \in [Sessions -> Nat] /\ net' \in [Sessions -> NetStates]
    BY <1>1 DEF JoinNew, Announce, NetStates
  <2>4. /\ hostPlayerId' \in PlayerIds \cup {NoPlayer}
        /\ bySessionId' \in [Sessions -> PlayerIds \cup {NoPlayer}]
        /\ nextPlayerId' \in Nat \ {0}
    BY <1>1, <2>1 DEF JoinNew
  <2>. QED  BY <1>1, <2>2, <2>3, <2>4
       DEF JoinNew, roomVars, optionVars, simVars
<1>2. ASSUME NEW u \in Users, Rejoin(s, u)
      PROVE  TypeInv'
  <2>1. PICK p \in SlotsOf(u) :
          /\ players' = [players EXCEPT ![p] =
                           Returned([@ EXCEPT !.session = s])]
          /\ replacedSessions' = replacedSessions \cup ({players[p].session} \ {NoSession})
          /\ bySessionId' = [c \in Sessions |->
                                IF c = s THEN p
                                ELSE IF c = players[p].session THEN NoPlayer
                                ELSE bySessionId[c]]
          /\ net' = [c \in Sessions |->
                        IF c = s THEN "open"
                        ELSE IF c = players[p].session THEN Displaced(net[c])
                        ELSE net[c]]
          /\ brains' = brains \ {p}
          /\ suspended' = suspended \ {p}
          /\ hostPlayerId' = Promoted(players', hostPlayerId)
    BY <1>2 DEF Rejoin
  <2>2. p \in PlayerIds /\ players[p] \in RoomPlayer
    BY TableEntries DEF SlotsOf, Slots, Present
  <2>3. players' \in Table
    <3>1. Returned([players[p] EXCEPT !.session = s]) \in RoomPlayer
      BY <2>2, PlayerRecords
    <3>. QED  BY <2>1, <2>2, <3>1 DEF Table
  <2>4. hostPlayerId' \in PlayerIds \cup {NoPlayer}
    BY <2>1, <2>3, PromotedChooses
  <2>5. bySessionId' \in [Sessions -> PlayerIds \cup {NoPlayer}]
    BY <2>1, <2>2
  <2>6. net' \in [Sessions -> NetStates]
    BY <2>1 DEF NetStates, Displaced
  <2>7. told' \in [Sessions -> Nat]
    BY <1>2 DEF Rejoin, Announce
  <2>8. replacedSessions' \subseteq Sessions
    BY <2>1, <2>2 DEF RoomPlayer
  <2>. QED  BY <1>2, <2>1, <2>3, <2>4, <2>5, <2>6, <2>7, <2>8
       DEF Rejoin, roomVars, optionVars
<1>3. ASSUME OnDrop(s) PROVE TypeInv'
  <2>1. /\ players' \in Table
        /\ suspended' \subseteq PlayerIds
    <3>1. CASE DropReplaced(s) \/ DropRefused(s)
      BY <3>1 DEF DropReplaced, DropRefused
    <3>2. CASE DropWithWindow(s)
      BY <1>0, <3>2, PlayerRecords DEF DropWithWindow, Table
    <3>. QED  BY <1>3, <3>1, <3>2 DEF OnDrop
  <2>2. replacedSessions' \subseteq Sessions /\ net' \in [Sessions -> NetStates]
    BY <1>3 DEF OnDrop, DropReplaced, DropRefused, DropWithWindow, NetStates
  <2>. QED  BY <1>3, <2>1, <2>2 DEF OnDrop, roomVars, optionVars
<1>4. ASSUME OnReconnect(s) PROVE TypeInv'
  <2>1. players' \in Table
    BY <1>0, <1>4, PlayerRecords DEF OnReconnect, Table
  <2>2. told' \in [Sessions -> Nat] /\ net' \in [Sessions -> NetStates]
    BY <1>4 DEF OnReconnect, Announce, NetStates
  <2>. QED  BY <1>4, <2>1, <2>2 DEF OnReconnect, roomVars, optionVars
<1>5. ASSUME OnLeave(s) PROVE TypeInv'
  <2>1. /\ players' \in Table
        /\ hostPlayerId' \in PlayerIds \cup {NoPlayer}
    <3>1. CASE LeaveReplaced(s) \/ LeaveUnknown(s)
      BY <3>1 DEF LeaveReplaced, LeaveUnknown
    <3>2. CASE LeaveToBot(s)
      <4>1. players' \in Table
        BY <1>0, <3>2, PlayerRecords DEF LeaveToBot, Table
      <4>2. hostPlayerId' = Promoted(players', hostPlayerId)
        BY <3>2 DEF LeaveToBot
      <4>. QED  BY <4>1, <4>2, PromotedChooses
    <3>3. CASE LeaveRoom(s)
      <4>1. players' \in Table
        BY <1>0, <3>3 DEF LeaveRoom, Table
      <4>2. hostPlayerId' = Promoted(players', hostPlayerId)
        BY <3>3 DEF LeaveRoom
      <4>. QED  BY <4>1, <4>2, PromotedChooses
    <3>. QED  BY <1>5, <3>1, <3>2, <3>3 DEF OnLeave
  <2>2. /\ bySessionId' \in [Sessions -> PlayerIds \cup {NoPlayer}]
        /\ replacedSessions' \subseteq Sessions
        /\ roster' \subseteq PlayerIds /\ suspended' \subseteq PlayerIds
        /\ brains' \subseteq PlayerIds
    BY <1>5 DEF OnLeave, LeaveReplaced, LeaveUnknown, LeaveToBot, LeaveRoom,
                HasSlot, Slots, Present
  <2>3. told' \in [Sessions -> Nat] /\ net' \in [Sessions -> NetStates]
    BY <1>5 DEF OnLeave, NetStates
  <2>. QED  BY <1>5, <2>1, <2>2, <2>3 DEF OnLeave, roomVars, optionVars
<1>. QED  BY <1>1, <1>2, <1>3, <1>4, <1>5 DEF Connection

(* So do the messages of the room.                                         *)
LEMMA MessageTypes ==
  ASSUME TypeInv, NEW s \in Sessions, Message(s)
  PROVE  TypeInv'
<1>. USE DEF TypeInv, ClockRuns, TypeOK
<1>. DEFINE p == bySessionId[s]
<1>1. Speaks(s) => p \in PlayerIds /\ players[p] \in RoomPlayer
  BY TableEntries DEF Speaks, HasSlot, Slots, Present
<1>2. ASSUME NEW new \in RoomPlayer, Speaks(s), ChangeSlot(p, new), UNCHANGED netVars
      PROVE  TypeInv'
  <2>1. players' \in Table
    BY <1>1, <1>2 DEF ChangeSlot, Table
  <2>. QED  BY <1>2, <2>1
       DEF ChangeSlot, roomVars, optionVars, simVars, netVars
<1>3. ASSUME NEW r \in RoomPlayer
      PROVE  /\ \A t \in Teams : [r EXCEPT !.team = t, !.ready = FALSE] \in RoomPlayer
             /\ \A ready \in BOOLEAN : [r EXCEPT !.ready = ready] \in RoomPlayer
             /\ [r EXCEPT !.loaded = TRUE] \in RoomPlayer
             /\ \A choice \in {"rematch", "lobby"} :
                  [r EXCEPT !.vote = choice] \in RoomPlayer
  BY DEF RoomPlayer
<1>4. ASSUME Flood(s) PROVE TypeInv'
  <2>1. kicked' \subseteq Users
    BY <1>1, <1>4 DEF Flood, RoomPlayer
  <2>. QED  BY <1>4, <2>1 DEF Flood, roomVars, optionVars, simVars, NetStates
<1>5. ASSUME NEW t \in TeamRequests, SetTeam(s, t) PROVE TypeInv'
  BY <1>1, <1>2, <1>3, <1>5, RequestsAreValid DEF SetTeam
<1>6. ASSUME NEW ready \in ReadyRequests, SetReady(s, ready) PROVE TypeInv'
  BY <1>1, <1>2, <1>3, <1>6, RequestsAreValid DEF SetReady
<1>7. ASSUME NEW enabled \in BotRequests, SetBots(s, enabled) PROVE TypeInv'
  BY <1>7, RequestsAreValid DEF SetBots, roomVars, slotVars, simVars, netVars
<1>8. ASSUME NEW option \in Options, SetOptions(s, option) PROVE TypeInv'
  BY <1>8, RequestsAreValid DEF SetOptions, roomVars, slotVars, simVars, netVars
<1>9. ASSUME Loaded(s) PROVE TypeInv'
  BY <1>1, <1>2, <1>3, <1>9 DEF Loaded
<1>10. ASSUME Start(s) PROVE TypeInv'
  BY <1>10, StartRoundTypes
     DEF Start, optionVars, Phases, Connected
<1>11. ASSUME NEW choice \in {"rematch", "lobby"}, Vote(s, choice) PROVE TypeInv'
  <2>. DEFINE voted == [players EXCEPT ![p] = [@ EXCEPT !.vote = choice]]
  <2>1. voted \in Table
    BY <1>1, <1>3, <1>11 DEF Vote, Table
  <2>2. CASE ReturnToLobby(voted) /\ UNCHANGED <<roundId, told>>
    <3>1. /\ players' \in Table /\ hostPlayerId' \in PlayerIds \cup {NoPlayer}
          /\ phase' = "lobby" /\ ticksLeft' = 0 /\ sim' = "none"
          /\ roster' = {} /\ suspended' = {} /\ brains' = {}
          /\ bots' \in [Teams -> Int]
      BY <2>1, <2>2, ReturnToLobbyTypes
    <3>. QED  BY <1>11, <2>2, <3>1 DEF Vote, optionVars, Phases
  <2>3. CASE StartRound /\ UNCHANGED hostPlayerId
    BY <1>11, <2>3, StartRoundTypes DEF Vote, optionVars, Phases, Connected
  <2>4. CASE /\ players' = voted
             /\ UNCHANGED <<phase, roundId, ticksLeft, hostPlayerId, simVars, told>>
    BY <1>11, <2>1, <2>4 DEF Vote, optionVars, simVars
  <2>. QED  BY <1>11, <2>2, <2>3, <2>4 DEF Vote
<1>. QED  BY <1>4, <1>5, <1>6, <1>7, <1>8, <1>9, <1>10, <1>11 DEF Message

(* So does the fixed timestep: no deadline is passed.                      *)
LEMMA FixedStepTypes ==
  ASSUME TypeInv, FixedStep
  PROVE  TypeInv'
<1>. USE DEF TypeInv, ClockRuns, TypeOK
<1>. USE TicksArePositive DEF Phases
<1>1. CASE LoadingStep
  BY <1>1 DEF FixedStep, LoadingStep, optionVars, netVars
<1>2. CASE CountdownStep
  BY <1>2 DEF FixedStep, CountdownStep, optionVars, netVars
<1>3. CASE RunningStep
  BY <1>3 DEF FixedStep, RunningStep, optionVars, netVars
<1>4. CASE RoundFinished
  <2>1. sinkWrites' \in Seq(Result)
    BY <1>4 DEF RoundFinished, Result
  <2>. QED  BY <1>4, <2>1 DEF FixedStep, RoundFinished, optionVars, netVars
<1>5. CASE FinishingStep
  BY <1>5 DEF FixedStep, FinishingStep, optionVars, netVars
<1>6. CASE ResultsStep
  <2>1. CASE ReturnToLobby(players)
    BY <1>6, <2>1, ReturnToLobbyTypes DEF FixedStep, ResultsStep, optionVars, netVars
  <2>2. CASE ~ReturnToLobby(players)
    BY <1>6, <2>2 DEF FixedStep, ResultsStep, optionVars, simVars, netVars
  <2>. QED  BY <2>1, <2>2
<1>. QED  BY <1>1, <1>2, <1>3, <1>4, <1>5, <1>6 DEF FixedStep

(* Every step keeps the types and the clocks.                              *)
LEMMA NextTypes == TypeInv /\ [Next]_vars => TypeInv'
<1>. SUFFICES ASSUME TypeInv, [Next]_vars PROVE TypeInv'
  OBVIOUS
<1>. USE DEF TypeInv, ClockRuns, TypeOK
<1>1. CASE UNCHANGED vars
  BY <1>1 DEF vars, roomVars, slotVars, optionVars, simVars, netVars
<1>2. ASSUME NEW s \in Sessions, Connection(s) PROVE TypeInv'
  BY <1>2, ConnectionTypes
<1>3. ASSUME NEW s \in Sessions, Message(s) PROVE TypeInv'
  BY <1>3, MessageTypes
<1>4. ASSUME NEW u \in Users, BanEnds(u) PROVE TypeInv'
  BY <1>4 DEF BanEnds, roomVars, optionVars, simVars, netVars
<1>5. CASE FixedStep
  BY <1>5, FixedStepTypes
<1>6. CASE Shutdown
  <2>1. net' \in [Sessions -> NetStates]
    BY <1>6 DEF Shutdown, Displaced, NetStates
  <2>. QED  BY <1>6, <2>1 DEF Shutdown, slotVars, optionVars, simVars
<1>7. CASE Dispose
  <2>1. sinkWrites' \in Seq(Result)
    <3>1. [round |-> roundId, status |-> "interrupted"] \in Result
      BY DEF Result
    <3>. QED  BY <1>7, <3>1 DEF Dispose
  <2>. QED  BY <1>7, <2>1 DEF Dispose, slotVars, optionVars, netVars
<1>8. CASE Gone
  BY <1>1, <1>8 DEF Gone
<1>. QED  BY <1>1, <1>2, <1>3, <1>4, <1>5, <1>6, <1>7, <1>8 DEF Next

(* The state of the room is always of its type, and a phase with a         *)
(* deadline ends when the deadline is reached, never after it.             *)
THEOREM TypeCorrect == Spec => []TypeInv
<1>. QED  BY InitTypes, NextTypes, PTL DEF Spec

(* In every reachable state the room has the types its properties assume.  *)
THEOREM TypesHold == Spec => []TypeOK
<1>1. TypeInv => TypeOK
  BY DEF TypeInv
<1>. QED  BY <1>1, TypeCorrect, PTL

-----------------------------------------------------------------------------
(*                     Slots, connections and the host                     *)

(* What a step that is not about connections may do to the table: change   *)
(* what a player wants or did, or forget a slot that a bot drives.         *)
SameWho(p) ==
  /\ players'[p].user = players[p].user
  /\ players'[p].connection = players[p].connection
  /\ players'[p].session = players[p].session

OnlyForgetsBots ==
  \A p \in PlayerIds :
    SameWho(p) \/ (players[p].connection = "replaced_by_bot" /\ players'[p] = Vacant)

(* Such a step keeps everything that SlotsInv says.                        *)
LEMMA TableStepKeepsSlots ==
  ASSUME TypeInv, TypeInv', SlotsInv, OnlyForgetsBots,
         hostPlayerId' = hostPlayerId \/ hostPlayerId' = Promoted(players', hostPlayerId),
         UNCHANGED <<room, nextPlayerId, bySessionId, replacedSessions, kicked, net>>
  PROVE  SlotsInv'
<1>. USE DEF SlotsInv
<1>0. /\ players \in Table /\ players' \in Table
      /\ hostPlayerId \in PlayerIds \cup {NoPlayer}
  BY DEF TypeInv, TypeOK
<1>1. ASSUME NEW p \in PlayerIds
      PROVE  /\ p \in Slots' => p \in Slots /\ SameWho(p)
             /\ p \in Slots /\ players[p].connection # "replaced_by_bot" =>
                  p \in Slots' /\ SameWho(p)
             /\ players'[p].session = players[p].session
             /\ p \notin Slots => players[p].session = NoSession
  <2>1. players[p].connection = "replaced_by_bot" => players[p].session = NoSession
    BY DEF ConnectionIsReal, Slots, Present
  <2>2. p \notin Slots => players[p].session = NoSession
    BY <1>0, TableEntries DEF Slots, Present, Vacant
  <2>. QED  BY <2>1, <2>2 DEF OnlyForgetsBots, SameWho, Slots, Present, Vacant
<1>2. FreshIds'
  BY <1>1 DEF FreshIds, Slots, Present
<1>3. OneSlotPerUser'
  BY <1>1 DEF OneSlotPerUser, SameWho, Slots, Present
<1>4. RoutingAgrees'
  <2>1. \A p \in PlayerIds : players'[p].session = players[p].session
    BY <1>1
  <2>. QED  BY <2>1 DEF RoutingAgrees
<1>5. ConnectionIsReal'
  BY <1>1 DEF ConnectionIsReal, SameWho, Slots, Present
<1>6. ReplacedAreLeaving'
  BY DEF ReplacedAreLeaving
<1>7. NoWindowForKicked'
  BY <1>1 DEF NoWindowForKicked, SameWho, Slots, Present
<1>8. HostIsLive'
  <2>. DEFINE next == {p \in Present(players') : players'[p].session # NoSession}
  <2>1. next = {p \in Slots : players[p].session # NoSession}
    BY <1>1 DEF ConnectionIsReal, Slots, Present
  <2>2. CASE next = {}
    <3>1. hostPlayerId = NoPlayer
      BY <2>1, <2>2 DEF HostIsLive
    <3>2. ~CanHost(players', hostPlayerId)
      BY <3>1 DEF CanHost
    <3>3. hostPlayerId' = NoPlayer
      BY <1>0, <2>2, <3>1, <3>2, PromotedChooses
    <3>. QED  BY <2>2, <3>3 DEF HostIsLive, Slots
  <2>3. CASE next # {}
    <3>1. CanHost(players, hostPlayerId)
      BY <2>1, <2>3 DEF HostIsLive
    <3>2. CanHost(players', hostPlayerId)
      BY <1>0, <1>1, <3>1 DEF CanHost, SameWho, Slots, Present
    <3>3. hostPlayerId' = hostPlayerId
      BY <1>0, <3>2, PromotedChooses
    <3>4. CanHost(players', hostPlayerId')
      BY <3>2, <3>3
    <3>5. \E p \in Slots' : players'[p].session # NoSession
      BY <2>3 DEF Slots
    <3>. QED  BY <3>4, <3>5 DEF HostIsLive
  <2>. QED  BY <2>2, <2>3
<1>. QED  BY <1>2, <1>3, <1>4, <1>5, <1>6, <1>7, <1>8

-----------------------------------------------------------------------------
(*                   Facts that hold in every such state                   *)

(* What the slot invariants say of one entry, in the form the proofs use.  *)
LEMMA SlotFacts ==
  ASSUME TypeInv, SlotsInv
  PROVE  /\ \A p \in PlayerIds : p \notin Slots => players[p] = Vacant
         /\ \A p \in PlayerIds : players[p].session # NoSession => p \in Slots
         /\ \A s \in Sessions : HasSlot(s) <=> bySessionId[s] # NoPlayer
         /\ \A s \in Sessions : HasSlot(s) => players[bySessionId[s]].session = s
         /\ \A s \in Sessions : net[s] \in {"unused", "left"} =>
              /\ bySessionId[s] = NoPlayer
              /\ s \notin replacedSessions
              /\ \A p \in PlayerIds : players[p].session # s
<1>. USE DEF SlotsInv
<1>0. /\ players \in Table /\ NoPlayer \notin PlayerIds
      /\ bySessionId \in [Sessions -> PlayerIds \cup {NoPlayer}]
  BY DEF TypeInv, TypeOK, NoPlayer, PlayerIds
<1>1. ASSUME NEW p \in PlayerIds, p \notin Slots
      PROVE  players[p] = Vacant
  BY <1>0, <1>1, TableEntries DEF Slots, Present
<1>2. ASSUME NEW p \in PlayerIds, players[p].session # NoSession
      PROVE  p \in Slots
  BY <1>1, <1>2 DEF Vacant
<1>3. ASSUME NEW s \in Sessions, bySessionId[s] # NoPlayer
      PROVE  HasSlot(s) /\ players[bySessionId[s]].session = s
  <2>1. bySessionId[s] \in PlayerIds /\ s # NoSession
    BY <1>0, <1>3, NoSessionIsNone
  <2>2. players[bySessionId[s]].session = s
    BY <2>1 DEF RoutingAgrees
  <2>. QED  BY <1>2, <1>3, <2>1, <2>2 DEF HasSlot
<1>4. ASSUME NEW s \in Sessions, net[s] \in {"unused", "left"}
      PROVE  /\ bySessionId[s] = NoPlayer
             /\ s \notin replacedSessions
             /\ \A p \in PlayerIds : players[p].session # s
  <2>1. s # NoSession
    BY NoSessionIsNone
  <2>2. ASSUME NEW p \in PlayerIds, players[p].session = s
        PROVE  FALSE
    <3>1. p \in Slots
      BY <1>2, <2>1, <2>2
    <3>. QED  BY <1>4, <2>1, <2>2, <3>1 DEF ConnectionIsReal
  <2>3. bySessionId[s] = NoPlayer
    BY <1>3, <2>2, <1>0
  <2>4. s \notin replacedSessions
    BY <1>4 DEF ReplacedAreLeaving
  <2>. QED  BY <2>2, <2>3, <2>4
<1>5. \A s \in Sessions : HasSlot(s) => bySessionId[s] # NoPlayer
  BY DEF HasSlot
<1>. QED  BY <1>1, <1>2, <1>3, <1>4, <1>5

(* After promoteHostIfNeeded the host can host, when anybody can.          *)
LEMMA PromotionIsLive ==
  ASSUME players' \in Table, hostPlayerId \in PlayerIds \cup {NoPlayer},
         hostPlayerId' = Promoted(players', hostPlayerId),
         \A p \in Slots' : players'[p].connection = "replaced_by_bot" =>
                             players'[p].session = NoSession
  PROVE  HostIsLive'
<1>. DEFINE next == {p \in Present(players') : players'[p].session # NoSession}
<1>1. next = {p \in Slots' : players'[p].session # NoSession}
  BY DEF Slots
<1>2. \A p \in next : CanHost(players', p)
  <2>1. NoPlayer \notin PlayerIds
    BY DEF NoPlayer, PlayerIds
  <2>. QED  BY <1>1, <2>1 DEF CanHost, Slots, Present
<1>3. CASE CanHost(players', hostPlayerId)
  <2>1. CanHost(players', hostPlayerId')
    BY <1>3, PromotedChooses
  <2>2. hostPlayerId' \in next
    <3>1. hostPlayerId \in PlayerIds /\ hostPlayerId' = hostPlayerId
      BY <1>3, PromotedChooses DEF CanHost
    <3>. QED  BY <2>1, <3>1 DEF CanHost, Present
  <2>. QED  BY <1>1, <2>1, <2>2 DEF HostIsLive
<1>4. CASE ~CanHost(players', hostPlayerId) /\ next # {}
  <2>1. hostPlayerId' \in next
    BY <1>4, PromotedChooses
  <2>. QED  BY <1>1, <1>2, <2>1 DEF HostIsLive
<1>5. CASE ~CanHost(players', hostPlayerId) /\ next = {}
  <2>1. hostPlayerId' = NoPlayer
    BY <1>5, PromotedChooses
  <2>. QED  BY <1>1, <1>5, <2>1 DEF HostIsLive
<1>. QED  BY <1>3, <1>4, <1>5

-----------------------------------------------------------------------------
(*                     The steps of the connections                        *)

(* onJoin of a newcomer: a fresh id and a fresh connection.                *)
LEMMA JoinNewKeepsSlots ==
  ASSUME TypeInv, TypeInv', SlotsInv,
         NEW s \in Sessions, NEW u \in Users, JoinNew(s, u)
  PROVE  SlotsInv'
<1>. USE DEF SlotsInv
<1>. DEFINE n == nextPlayerId
<1>0. /\ players \in Table /\ n \in PlayerIds /\ PlayerIds \subseteq Nat
      /\ net \in [Sessions -> NetStates]
      /\ bySessionId \in [Sessions -> PlayerIds \cup {NoPlayer}]
      /\ NoPlayer \notin PlayerIds /\ s # NoSession
  BY LimitsAreNat, NoSessionIsNone
     DEF TypeInv, TypeOK, JoinNew, PlayerIds, NoPlayer
<1>1. /\ n \notin Slots /\ players[n] = Vacant
      /\ bySessionId[s] = NoPlayer /\ s \notin replacedSessions
      /\ \A p \in PlayerIds : players[p].session # s
  <2>1. n \notin Slots
    BY <1>0 DEF FreshIds
  <2>2. net[s] = "unused"
    BY DEF JoinNew, Admissible
  <2>. QED  BY <1>0, <2>1, <2>2, SlotFacts
<1>2. /\ players'[n].user = u /\ players'[n].session = s
      /\ players'[n].connection = "connected"
      /\ \A p \in PlayerIds \ {n} : players'[p] = players[p]
  BY <1>0 DEF JoinNew, Table
<1>3. Slots' = Slots \cup {n} /\ Slots \subseteq PlayerIds
  BY <1>0, <1>2 DEF Slots, Present
<1>4. /\ bySessionId' = [bySessionId EXCEPT ![s] = n]
      /\ net' = [net EXCEPT ![s] = "open"]
      /\ nextPlayerId' = n + 1
      /\ UNCHANGED <<room, replacedSessions, kicked>>
  BY DEF JoinNew, roomVars
<1>5. u \notin kicked /\ \A p \in Slots : players[p].user # u
  BY DEF JoinNew, Admissible, SlotsOf
<1>6. FreshIds'
  <2>1. \A p \in Slots' : p < n + 1
    BY <1>0, <1>3 DEF FreshIds
  <2>. QED  BY <1>4, <2>1 DEF FreshIds
<1>7. OneSlotPerUser'
  BY <1>1, <1>2, <1>3, <1>5 DEF OneSlotPerUser, Slots, Present
<1>8. RoutingAgrees'
  <2>1. ASSUME NEW c \in Sessions, NEW p \in PlayerIds
        PROVE  bySessionId'[c] = p <=> players'[p].session = c
    <3>1. CASE c = s
      BY <1>0, <1>1, <1>2, <1>4, <3>1
    <3>2. CASE c # s /\ p = n
      <4>1. players[n].session # c
        BY <1>1, NoSessionIsNone DEF Vacant
      <4>. QED  BY <1>0, <1>2, <1>4, <3>2, <4>1 DEF RoutingAgrees
    <3>3. CASE c # s /\ p # n
      BY <1>0, <1>2, <1>4, <3>3 DEF RoutingAgrees
    <3>. QED  BY <3>1, <3>2, <3>3
  <2>. QED  BY <2>1 DEF RoutingAgrees
<1>9. ConnectionIsReal'
  BY <1>0, <1>1, <1>2, <1>3, <1>4 DEF ConnectionIsReal, Slots, Present
<1>10. ReplacedAreLeaving'
  BY <1>0, <1>1, <1>4 DEF ReplacedAreLeaving
<1>11. NoWindowForKicked'
  BY <1>1, <1>2, <1>3, <1>4 DEF NoWindowForKicked
<1>12. HostIsLive'
  <2>1. \E p \in Slots' : players'[p].session # NoSession
    BY <1>0, <1>2, <1>3
  <2>2. CanHost(players', hostPlayerId')
    <3>1. CASE hostPlayerId = NoPlayer
      BY <1>0, <1>2, <3>1 DEF JoinNew, CanHost
    <3>2. CASE hostPlayerId # NoPlayer
      <4>1. CanHost(players, hostPlayerId) /\ hostPlayerId' = hostPlayerId
        BY <3>2 DEF HostIsLive, JoinNew
      <4>2. hostPlayerId # n /\ hostPlayerId \in PlayerIds
        BY <1>1, <3>2, <4>1 DEF CanHost, Vacant, TypeInv, TypeOK
      <4>. QED  BY <1>2, <4>1, <4>2 DEF CanHost
    <3>. QED  BY <3>1, <3>2
  <2>. QED  BY <2>1, <2>2 DEF HostIsLive
<1>. QED  BY <1>6, <1>7, <1>8, <1>9, <1>10, <1>11, <1>12

(* onJoin of somebody with a slot: the old connection stops speaking for it. *)
LEMMA RejoinKeepsSlots ==
  ASSUME TypeInv, TypeInv', SlotsInv,
         NEW s \in Sessions, NEW u \in Users, Rejoin(s, u)
  PROVE  SlotsInv'
<1>. USE DEF SlotsInv
<1>1. PICK p \in SlotsOf(u) :
        /\ players' = [players EXCEPT ![p] = Returned([@ EXCEPT !.session = s])]
        /\ replacedSessions' = replacedSessions \cup ({players[p].session} \ {NoSession})
        /\ bySessionId' = [c \in Sessions |->
                              IF c = s THEN p
                              ELSE IF c = players[p].session THEN NoPlayer
                              ELSE bySessionId[c]]
        /\ net' = [c \in Sessions |->
                      IF c = s THEN "open"
                      ELSE IF c = players[p].session THEN Displaced(net[c])
                      ELSE net[c]]
        /\ hostPlayerId' = Promoted(players', hostPlayerId)
  BY DEF Rejoin
<1>. DEFINE old == players[p].session
<1>2. /\ players \in Table /\ players' \in Table
      /\ Slots \subseteq PlayerIds /\ p \in Slots /\ players[p] \in RoomPlayer
      /\ players[p].user = u
      /\ hostPlayerId \in PlayerIds \cup {NoPlayer}
      /\ NoPlayer \notin PlayerIds /\ s # NoSession
  BY NoSessionIsNone, TableEntries
     DEF TypeInv, TypeOK, SlotsOf, Slots, Present, NoPlayer, PlayerIds
<1>3. /\ room = "open" /\ u \notin kicked /\ s \notin replacedSessions
      /\ bySessionId[s] = NoPlayer
      /\ \A q \in PlayerIds : players[q].session # s
  <2>1. net[s] = "unused" /\ room = "open" /\ u \notin kicked
    BY DEF Rejoin, Admissible
  <2>. QED  BY <2>1, SlotFacts
<1>4. UNCHANGED <<room, kicked, nextPlayerId>>
  BY DEF Rejoin, roomVars
<1>5. /\ players'[p].user = u /\ players'[p].session = s
      /\ players'[p].connection = "connected"
      /\ \A q \in PlayerIds \ {p} : players'[q] = players[q]
  BY <1>1, <1>2 DEF Returned, Table, RoomPlayer
<1>6. Slots' = Slots
  BY <1>2, <1>5 DEF Slots, Present
<1>7. \A q \in PlayerIds \ {p} : old # NoSession => players[q].session # old
  BY <1>2 DEF RoutingAgrees, RoomPlayer
<1>8. FreshIds'
  BY <1>4, <1>6 DEF FreshIds
<1>9. OneSlotPerUser'
  BY <1>2, <1>5, <1>6 DEF OneSlotPerUser
<1>10. RoutingAgrees'
  <2>1. ASSUME NEW c \in Sessions, NEW q \in PlayerIds
        PROVE  bySessionId'[c] = q <=> players'[q].session = c
    <3>1. CASE c = s
      BY <1>1, <1>2, <1>3, <1>5, <3>1
    <3>2. CASE c # s /\ c = old
      <4>1. c # NoSession
        BY NoSessionIsNone
      <4>. QED  BY <1>1, <1>2, <1>5, <1>7, <3>2, <4>1
    <3>3. CASE c # s /\ c # old /\ q = p
      BY <1>1, <1>2, <1>5, <3>3 DEF RoutingAgrees
    <3>4. CASE c # s /\ c # old /\ q # p
      BY <1>1, <1>2, <1>5, <3>4 DEF RoutingAgrees
    <3>. QED  BY <3>1, <3>2, <3>3, <3>4
  <2>. QED  BY <2>1 DEF RoutingAgrees
<1>11. ConnectionIsReal'
  <2>1. ASSUME NEW q \in Slots, q # p
        PROVE  /\ players'[q] = players[q] /\ players[q].session # s
               /\ players[q].session # NoSession =>
                    /\ players[q].session # old
                    /\ players[q].session \in Sessions
                    /\ net'[players[q].session] = net[players[q].session]
    <3>1. players[q].session \in Sessions \cup {NoSession}
      BY <1>2, TableEntries DEF Table, RoomPlayer, Vacant
    <3>2. players[q].session # NoSession => players[q].session # old
      BY <1>2, <1>7, <2>1
    <3>. QED  BY <1>1, <1>2, <1>3, <1>5, <2>1, <3>1, <3>2
  <2>2. net'[s] = "open"
    BY <1>1
  <2>. QED  BY <1>2, <1>4, <1>5, <1>6, <2>1, <2>2 DEF ConnectionIsReal
<1>12. ReplacedAreLeaving'
  <2>1. ASSUME NEW c \in replacedSessions'
        PROVE  /\ net'[c] \in {"leaving", "rejected", "ending"}
               /\ bySessionId'[c] = NoPlayer
    <3>1. CASE c = old
      <4>1. c # NoSession /\ c \in Sessions /\ c # s
        <5>1. c # NoSession
          BY <1>1, <2>1, <3>1, NoSessionIsNone DEF TypeInv, TypeOK
        <5>. QED  BY <1>2, <1>3, <3>1, <5>1 DEF RoomPlayer
      <4>2. net[c] \in {"open", "leaving", "ending", "dropped"}
        BY <1>2, <1>3, <3>1, <4>1 DEF ConnectionIsReal, RoomPlayer
      <4>. QED  BY <1>1, <3>1, <4>1, <4>2 DEF Displaced
    <3>2. CASE c # old
      <4>1. c \in replacedSessions /\ c \in Sessions /\ c # s
        BY <1>1, <1>3, <2>1, <3>2 DEF TypeInv, TypeOK
      <4>. QED  BY <1>1, <3>2, <4>1 DEF ReplacedAreLeaving
    <3>. QED  BY <3>1, <3>2
  <2>. QED  BY <2>1 DEF ReplacedAreLeaving
<1>13. NoWindowForKicked'
  BY <1>2, <1>4, <1>5, <1>6 DEF NoWindowForKicked
<1>14. HostIsLive'
  <2>1. \A q \in Slots' : players'[q].connection = "replaced_by_bot" =>
                           players'[q].session = NoSession
    BY <1>11 DEF ConnectionIsReal
  <2>. QED  BY <1>1, <1>2, <2>1, PromotionIsLive
<1>. QED  BY <1>8, <1>9, <1>10, <1>11, <1>12, <1>13, <1>14

(* onDrop in its three forms.                                              *)
LEMMA OnDropKeepsSlots ==
  ASSUME TypeInv, TypeInv', SlotsInv, NEW s \in Sessions, OnDrop(s)
  PROVE  SlotsInv'
<1>. USE DEF SlotsInv
<1>. DEFINE p == bySessionId[s]
<1>1. /\ room = "open" /\ net[s] \in {"open", "leaving"}
      /\ UNCHANGED <<room, nextPlayerId, hostPlayerId, bySessionId, kicked>>
  BY DEF OnDrop, roomVars
<1>2. /\ players \in Table /\ players' \in Table /\ net \in [Sessions -> NetStates]
      /\ replacedSessions \subseteq Sessions /\ Slots \subseteq PlayerIds
      /\ s # NoSession
  BY NoSessionIsNone DEF TypeInv, TypeOK, Slots, Present
<1>3. ASSUME players' = players, net' = [net EXCEPT ![s] = "ending"],
             replacedSessions' \in SUBSET replacedSessions
      PROVE  SlotsInv'
  <2>1. Slots' = Slots
    BY <1>3 DEF Slots, Present
  <2>2. FreshIds' /\ OneSlotPerUser' /\ RoutingAgrees' /\ NoWindowForKicked'
    BY <1>1, <1>3, <2>1 DEF FreshIds, OneSlotPerUser, RoutingAgrees, NoWindowForKicked
  <2>3. HostIsLive'
    BY <1>1, <1>3, <2>1 DEF HostIsLive, CanHost
  <2>4. ConnectionIsReal'
    BY <1>1, <1>2, <1>3, <2>1 DEF ConnectionIsReal
  <2>5. ReplacedAreLeaving'
    BY <1>1, <1>2, <1>3 DEF ReplacedAreLeaving
  <2>. QED  BY <2>2, <2>3, <2>4, <2>5
<1>4. CASE DropReplaced(s)
  BY <1>3, <1>4 DEF DropReplaced
<1>5. CASE DropRefused(s)
  BY <1>3, <1>5 DEF DropRefused
<1>6. CASE DropWithWindow(s)
  <2>1. /\ s \notin replacedSessions /\ HasSlot(s) /\ players[p].user \notin kicked
        /\ players' = [players EXCEPT ![p] = [@ EXCEPT !.connection = "reconnecting"]]
        /\ net' = [net EXCEPT ![s] = "dropped"]
        /\ replacedSessions' = replacedSessions
    BY <1>6 DEF DropWithWindow
  <2>2. p \in Slots /\ players[p] \in RoomPlayer /\ players[p].session = s
    BY <1>2, <2>1, SlotFacts, TableEntries DEF HasSlot, Slots, Present
  <2>3. /\ players'[p].user = players[p].user /\ players'[p].session = s
        /\ players'[p].connection = "reconnecting"
        /\ \A q \in PlayerIds \ {p} : players'[q] = players[q]
    BY <1>2, <2>1, <2>2 DEF Table, RoomPlayer
  <2>4. Slots' = Slots
    BY <1>2, <2>2, <2>3 DEF Slots, Present
  <2>5. FreshIds' /\ OneSlotPerUser' /\ NoWindowForKicked'
    BY <1>1, <1>2, <2>1, <2>2, <2>3, <2>4 DEF FreshIds, OneSlotPerUser, NoWindowForKicked
  <2>6. RoutingAgrees'
    BY <1>1, <2>2, <2>3 DEF RoutingAgrees
  <2>7. ConnectionIsReal'
    <3>1. \A q \in Slots \ {p} : players[q].session # s
      BY <1>2, <2>2 DEF RoutingAgrees
    <3>. QED  BY <1>1, <1>2, <2>1, <2>2, <2>3, <2>4, <3>1 DEF ConnectionIsReal
  <2>8. ReplacedAreLeaving'
    BY <1>1, <1>2, <2>1 DEF ReplacedAreLeaving
  <2>9. HostIsLive'
    <3>1. players[p].connection = "connected"
      BY <1>1, <1>2, <2>2 DEF ConnectionIsReal, RoomPlayer
    <3>2. CanHost(players, hostPlayerId) => CanHost(players', hostPlayerId)
      BY <2>2, <2>3, <1>2 DEF CanHost, TypeInv, TypeOK
    <3>3. \E q \in Slots : players[q].session # NoSession
      BY <1>2, <2>2
    <3>4. CanHost(players', hostPlayerId')
      BY <1>1, <3>2, <3>3 DEF HostIsLive
    <3>5. \E q \in Slots' : players'[q].session # NoSession
      BY <1>2, <2>2, <2>3, <2>4
    <3>. QED  BY <3>4, <3>5 DEF HostIsLive
  <2>. QED  BY <2>5, <2>6, <2>7, <2>8, <2>9
<1>. QED  BY <1>4, <1>5, <1>6 DEF OnDrop

(* onReconnect: the slot and its connection are as before the drop.        *)
LEMMA OnReconnectKeepsSlots ==
  ASSUME TypeInv, TypeInv', SlotsInv, NEW s \in Sessions, OnReconnect(s)
  PROVE  SlotsInv'
<1>. USE DEF SlotsInv
<1>. DEFINE p == bySessionId[s]
<1>1. /\ net[s] = "dropped" /\ HasSlot(s)
      /\ players' = [players EXCEPT ![p] = Returned(@)]
      /\ net' = [net EXCEPT ![s] = "open"]
      /\ UNCHANGED <<room, nextPlayerId, hostPlayerId, bySessionId, kicked, replacedSessions>>
  BY DEF OnReconnect, roomVars
<1>2. /\ players \in Table /\ players' \in Table /\ net \in [Sessions -> NetStates]
      /\ replacedSessions \subseteq Sessions /\ Slots \subseteq PlayerIds
      /\ s # NoSession
  BY NoSessionIsNone DEF TypeInv, TypeOK, Slots, Present
<1>3. p \in Slots /\ players[p] \in RoomPlayer /\ players[p].session = s
  BY <1>1, <1>2, SlotFacts, TableEntries DEF HasSlot, Slots, Present
<1>4. /\ players'[p].user = players[p].user /\ players'[p].session = s
      /\ players'[p].connection = "connected"
      /\ \A q \in PlayerIds \ {p} : players'[q] = players[q]
  BY <1>1, <1>2, <1>3 DEF Table, RoomPlayer, Returned
<1>5. Slots' = Slots
  BY <1>2, <1>3, <1>4 DEF Slots, Present
<1>6. FreshIds' /\ OneSlotPerUser' /\ NoWindowForKicked'
  BY <1>1, <1>2, <1>3, <1>4, <1>5 DEF FreshIds, OneSlotPerUser, NoWindowForKicked
<1>7. RoutingAgrees'
  BY <1>1, <1>3, <1>4 DEF RoutingAgrees
<1>8. ConnectionIsReal'
  <2>1. \A q \in Slots \ {p} : players[q].session # s
    BY <1>2, <1>3 DEF RoutingAgrees
  <2>. QED  BY <1>1, <1>2, <1>3, <1>4, <1>5, <2>1 DEF ConnectionIsReal
<1>9. ReplacedAreLeaving'
  BY <1>1, <1>2 DEF ReplacedAreLeaving
<1>10. HostIsLive'
  <2>1. CanHost(players, hostPlayerId) => CanHost(players', hostPlayerId)
    BY <1>2, <1>3, <1>4 DEF CanHost, TypeInv, TypeOK
  <2>2. \E q \in Slots : players[q].session # NoSession
    BY <1>2, <1>3
  <2>3. CanHost(players', hostPlayerId')
    BY <1>1, <2>1, <2>2 DEF HostIsLive
  <2>4. \E q \in Slots' : players'[q].session # NoSession
    BY <1>2, <1>3, <1>4, <1>5
  <2>. QED  BY <2>3, <2>4 DEF HostIsLive
<1>. QED  BY <1>6, <1>7, <1>8, <1>9, <1>10

(* A connection that leaves and the slot it spoke for.                     *)
LEMMA OnLeaveKeepsSlots ==
  ASSUME TypeInv, TypeInv', SlotsInv, NEW s \in Sessions, OnLeave(s)
  PROVE  SlotsInv'
<1>. USE DEF SlotsInv
<1>. DEFINE p == bySessionId[s]
<1>1. /\ net' = [net EXCEPT ![s] = "left"]
      /\ UNCHANGED <<room, nextPlayerId, kicked>>
  BY DEF OnLeave, roomVars
<1>2. /\ players \in Table /\ players' \in Table /\ net \in [Sessions -> NetStates]
      /\ replacedSessions \subseteq Sessions /\ Slots \subseteq PlayerIds
      /\ hostPlayerId \in PlayerIds \cup {NoPlayer}
      /\ bySessionId \in [Sessions -> PlayerIds \cup {NoPlayer}]
      /\ NoPlayer \notin PlayerIds /\ s # NoSession
  BY NoSessionIsNone DEF TypeInv, TypeOK, Slots, Present, NoPlayer, PlayerIds
<1>3. ASSUME players' = players, hostPlayerId' = hostPlayerId, bySessionId' = bySessionId,
             bySessionId[s] = NoPlayer, replacedSessions' = replacedSessions \ {s}
      PROVE  SlotsInv'
  <2>1. Slots' = Slots
    BY <1>3 DEF Slots, Present
  <2>2. \A q \in PlayerIds : players[q].session # s
    BY <1>2, <1>3 DEF RoutingAgrees
  <2>3. FreshIds' /\ OneSlotPerUser' /\ RoutingAgrees' /\ NoWindowForKicked'
    BY <1>1, <1>3, <2>1 DEF FreshIds, OneSlotPerUser, RoutingAgrees, NoWindowForKicked
  <2>4. HostIsLive'
    BY <1>3, <2>1 DEF HostIsLive, CanHost
  <2>5. ConnectionIsReal'
    BY <1>1, <1>2, <1>3, <2>1, <2>2 DEF ConnectionIsReal
  <2>6. ReplacedAreLeaving'
    BY <1>1, <1>2, <1>3 DEF ReplacedAreLeaving
  <2>. QED  BY <2>3, <2>4, <2>5, <2>6
<1>4. CASE LeaveReplaced(s)
  <2>1. bySessionId[s] = NoPlayer
    BY <1>4 DEF LeaveReplaced, ReplacedAreLeaving
  <2>. QED  BY <1>3, <1>4, <2>1 DEF LeaveReplaced
<1>5. CASE LeaveUnknown(s)
  <2>1. bySessionId[s] = NoPlayer
    BY <1>5, SlotFacts DEF LeaveUnknown
  <2>2. bySessionId' = bySessionId /\ replacedSessions' = replacedSessions \ {s}
    BY <1>2, <1>5, <2>1 DEF LeaveUnknown
  <2>. QED  BY <1>3, <1>5, <2>1, <2>2 DEF LeaveUnknown
\* the slot loses its connection: it is a bot's, or vacant
<1>6. ASSUME s \notin replacedSessions, HasSlot(s),
             bySessionId' = [bySessionId EXCEPT ![s] = NoPlayer],
             replacedSessions' = replacedSessions,
             hostPlayerId' = Promoted(players', hostPlayerId),
             players'[p].session = NoSession,
             \/ players'[p].connection = "vacant"
             \/ players'[p].connection = "replaced_by_bot" /\ players'[p].user = players[p].user,
             \A q \in PlayerIds \ {p} : players'[q] = players[q]
      PROVE  SlotsInv'
  <2>1. p \in Slots /\ p \in PlayerIds /\ players[p].session = s
    BY <1>2, <1>6, SlotFacts DEF HasSlot
  <2>2. Slots' \subseteq Slots
    BY <1>2, <1>6, <2>1 DEF Slots, Present
  <2>3. FreshIds' /\ OneSlotPerUser' /\ NoWindowForKicked'
    <3>1. \A q \in Slots' : q \in Slots /\ players'[q].user = players[q].user
      BY <1>2, <1>6, <2>1, <2>2 DEF Slots, Present
    <3>2. \A q \in Slots' : players'[q].connection = "reconnecting" =>
                              players[q].connection = "reconnecting"
      BY <1>2, <1>6, <2>1, <2>2
    <3>. QED  BY <1>1, <3>1, <3>2 DEF FreshIds, OneSlotPerUser, NoWindowForKicked
  <2>4. \A q \in PlayerIds \ {p} : players[q].session # s
    BY <2>1 DEF RoutingAgrees
  <2>5. RoutingAgrees'
    <3>1. ASSUME NEW c \in Sessions, NEW q \in PlayerIds
          PROVE  bySessionId'[c] = q <=> players'[q].session = c
      <4>1. CASE c = s
        BY <1>2, <1>6, <2>1, <2>4, <4>1
      <4>2. CASE c # s /\ q = p
        BY <1>2, <1>6, <2>1, <4>2, NoSessionIsNone DEF RoutingAgrees
      <4>3. CASE c # s /\ q # p
        BY <1>2, <1>6, <4>3 DEF RoutingAgrees
      <4>. QED  BY <4>1, <4>2, <4>3
    <3>. QED  BY <3>1 DEF RoutingAgrees
  <2>6. ConnectionIsReal'
    <3>1. ASSUME NEW q \in Slots', q # p
          PROVE  /\ q \in Slots /\ players'[q] = players[q] /\ players[q].session # s
                 /\ players[q].session # NoSession =>
                      net'[players[q].session] = net[players[q].session]
      <4>1. players[q].session \in Sessions \cup {NoSession}
        BY <1>2, <2>2, <3>1, TableEntries DEF Table, RoomPlayer, Vacant
      <4>. QED  BY <1>1, <1>2, <1>6, <2>2, <2>4, <3>1, <4>1
    <3>2. p \in Slots' => players'[p].connection = "replaced_by_bot"
      BY <1>6 DEF Slots, Present
    <3>. QED  BY <1>1, <1>6, <3>1, <3>2 DEF ConnectionIsReal
  <2>7. ReplacedAreLeaving'
    BY <1>1, <1>2, <1>6 DEF ReplacedAreLeaving
  <2>8. HostIsLive'
    <3>1. \A q \in Slots' : players'[q].connection = "replaced_by_bot" =>
                             players'[q].session = NoSession
      BY <2>6 DEF ConnectionIsReal
    <3>. QED  BY <1>2, <1>6, <3>1, PromotionIsLive
  <2>. QED  BY <2>3, <2>5, <2>6, <2>7, <2>8
<1>7. HasSlot(s) => p \in PlayerIds /\ players[p] \in RoomPlayer
  BY <1>2, TableEntries DEF HasSlot, Slots, Present
<1>8. CASE LeaveToBot(s)
  <2>1. /\ players' = [players EXCEPT ![p] = [@ EXCEPT !.session = NoSession,
                                                     !.connection = "replaced_by_bot"]]
        /\ HasSlot(s)
    BY <1>8 DEF LeaveToBot
  <2>2. /\ players'[p].session = NoSession /\ players'[p].user = players[p].user
        /\ players'[p].connection = "replaced_by_bot"
        /\ \A q \in PlayerIds \ {p} : players'[q] = players[q]
    BY <1>2, <1>7, <2>1 DEF Table, RoomPlayer
  <2>. QED  BY <1>6, <1>8, <2>2 DEF LeaveToBot
<1>9. CASE LeaveRoom(s)
  <2>1. players' = [players EXCEPT ![p] = Vacant] /\ HasSlot(s)
    BY <1>9 DEF LeaveRoom
  <2>2. /\ players'[p].session = NoSession /\ players'[p].connection = "vacant"
        /\ \A q \in PlayerIds \ {p} : players'[q] = players[q]
    BY <1>2, <1>7, <2>1 DEF Table, Vacant
  <2>. QED  BY <1>6, <1>9, <2>2 DEF LeaveRoom
<1>. QED  BY <1>4, <1>5, <1>8, <1>9 DEF OnLeave

-----------------------------------------------------------------------------
(*                          The other steps                                *)

(* A round that starts, and a return to the lobby, forget the slots that   *)
(* bots drive and leave the others to their people.                        *)
LEMMA StartRoundTable ==
  ASSUME TypeInv, StartRound
  PROVE  OnlyForgetsBots
<1>. SUFFICES ASSUME NEW p \in PlayerIds
              PROVE  \/ SameWho(p)
                     \/ players[p].connection = "replaced_by_bot" /\ players'[p] = Vacant
  BY DEF OnlyForgetsBots
<1>1. players \in Table
  BY DEF TypeInv, TypeOK
<1>2. players'[p] =
        IF players[p].connection \in {"vacant", "replaced_by_bot"} THEN Vacant
        ELSE IF p \in Playing(Candidates, PlanSize)
        THEN Seated(players[p], TeamOf(Candidates, PlanSize, p))
        ELSE Benched(players[p])
  BY DEF StartRound, Seated, Benched
<1>3. CASE players[p].connection \in {"vacant", "replaced_by_bot"}
  BY <1>1, <1>2, <1>3, TableEntries DEF SameWho
<1>4. CASE players[p].connection \notin {"vacant", "replaced_by_bot"}
  <2>1. players[p] \in RoomPlayer
    BY <1>1, <1>4, TableEntries
  <2>. QED  BY <1>2, <1>4, <2>1 DEF SameWho, Seated, Benched, RoomPlayer
<1>. QED  BY <1>3, <1>4

(* returnToLobby changes no routing, only drops slots without a connection. *)
LEMMA ReturnToLobbyTable ==
  ASSUME TypeInv, NEW ps \in Table, ReturnToLobby(ps),
         \A p \in PlayerIds : /\ ps[p].user = players[p].user
                              /\ ps[p].connection = players[p].connection
                              /\ ps[p].session = players[p].session
  PROVE  OnlyForgetsBots /\ hostPlayerId' = Promoted(players', hostPlayerId)
<1>1. hostPlayerId' = Promoted(players', hostPlayerId)
  BY DEF ReturnToLobby
<1>2. ASSUME NEW p \in PlayerIds
      PROVE  \/ SameWho(p)
             \/ players[p].connection = "replaced_by_bot" /\ players'[p] = Vacant
  <2>0. players \in Table
    BY DEF TypeInv, TypeOK
  <2>1. players'[p] = IF ps[p].connection \in {"vacant", "replaced_by_bot"} THEN Vacant
                      ELSE Rested(ps[p])
    BY DEF ReturnToLobby, Rested
  <2>2. CASE ps[p].connection \in {"vacant", "replaced_by_bot"}
    BY <2>0, <2>1, <2>2, TableEntries DEF SameWho
  <2>3. CASE ps[p].connection \notin {"vacant", "replaced_by_bot"}
    <3>1. ps[p] \in RoomPlayer
      BY <2>3, TableEntries
    <3>. QED  BY <2>1, <2>3, <3>1 DEF SameWho, Rested, RoomPlayer
  <2>. QED  BY <2>2, <2>3
<1>. QED  BY <1>1, <1>2 DEF OnlyForgetsBots

(* What a person asks for in the lobby, or votes, changes no identity.     *)
LEMMA SpeakerChanges ==
  ASSUME TypeInv, NEW s \in Sessions, Speaks(s), NEW new,
         new.user = players[bySessionId[s]].user,
         new.connection = players[bySessionId[s]].connection,
         new.session = players[bySessionId[s]].session,
         NEW ps, ps = [players EXCEPT ![bySessionId[s]] = new]
  PROVE  \A p \in PlayerIds : /\ ps[p].user = players[p].user
                              /\ ps[p].connection = players[p].connection
                              /\ ps[p].session = players[p].session
<1>1. players \in Table /\ bySessionId[s] \in PlayerIds
  BY DEF TypeInv, TypeOK, Speaks, HasSlot, Slots, Present
<1>. QED  BY <1>1 DEF Table

(* No message of a client disturbs slots and routing.                      *)
LEMMA MessageKeepsSlots ==
  ASSUME TypeInv, TypeInv', SlotsInv, NEW s \in Sessions, Message(s)
  PROVE  SlotsInv'
<1>. DEFINE p == bySessionId[s]
<1>1. /\ players \in Table /\ net \in [Sessions -> NetStates]
      /\ hostPlayerId \in PlayerIds \cup {NoPlayer}
      /\ Speaks(s) => /\ p \in PlayerIds /\ p \in Slots /\ players[p] \in RoomPlayer
                      /\ players[p].session = s
  BY TableEntries DEF TypeInv, TypeOK, Speaks, HasSlot, Slots, Present
<1>2. ASSUME players' = players, hostPlayerId' = hostPlayerId,
             UNCHANGED <<room, nextPlayerId, bySessionId, replacedSessions, kicked, net>>
      PROVE  SlotsInv'
  BY <1>2, TableStepKeepsSlots DEF OnlyForgetsBots, SameWho
<1>3. ASSUME NEW new, Speaks(s), ChangeSlot(p, new), UNCHANGED netVars,
             new.user = players[p].user, new.connection = players[p].connection,
             new.session = players[p].session
      PROVE  SlotsInv'
  <2>1. /\ players' = [players EXCEPT ![p] = new] /\ hostPlayerId' = hostPlayerId
        /\ UNCHANGED <<room, nextPlayerId, bySessionId, replacedSessions, kicked, net>>
    BY <1>3 DEF ChangeSlot, roomVars, netVars
  <2>2. OnlyForgetsBots
    BY <1>3, <2>1, SpeakerChanges DEF OnlyForgetsBots, SameWho
  <2>. QED  BY <2>1, <2>2, TableStepKeepsSlots
<1>4. CASE Flood(s)
  <2>1. /\ players' = players /\ net[s] = "open" /\ net' = [net EXCEPT ![s] = "leaving"]
        /\ Speaks(s) /\ kicked' = kicked \cup {players[p].user}
        /\ UNCHANGED <<room, nextPlayerId, hostPlayerId, bySessionId, replacedSessions>>
    BY <1>4 DEF Flood, roomVars
  <2>2. Slots' = Slots
    BY <2>1 DEF Slots, Present
  <2>3. FreshIds' /\ OneSlotPerUser' /\ RoutingAgrees'
    BY <2>1, <2>2 DEF SlotsInv, FreshIds, OneSlotPerUser, RoutingAgrees
  <2>4. HostIsLive'
    BY <2>1, <2>2 DEF SlotsInv, HostIsLive, CanHost
  <2>5. ConnectionIsReal'
    BY <1>1, <2>1, <2>2 DEF SlotsInv, ConnectionIsReal
  <2>6. ReplacedAreLeaving'
    BY <1>1, <2>1 DEF SlotsInv, ReplacedAreLeaving, TypeInv, TypeOK
  \* the slot of the expelled user is connected, and it has no other
  <2>7. NoWindowForKicked'
    <3>1. players[p].connection # "reconnecting"
      BY <1>1, <2>1 DEF SlotsInv, ConnectionIsReal
    <3>2. \A q \in Slots : players[q].user = players[p].user => q = p
      BY <1>1, <2>1 DEF SlotsInv, OneSlotPerUser
    <3>. QED  BY <2>1, <2>2, <3>1, <3>2 DEF SlotsInv, NoWindowForKicked
  <2>. QED  BY <2>3, <2>4, <2>5, <2>6, <2>7 DEF SlotsInv
<1>5. ASSUME NEW t \in TeamRequests, SetTeam(s, t) PROVE SlotsInv'
  BY <1>1, <1>3, <1>5 DEF SetTeam, RoomPlayer
<1>6. ASSUME NEW ready \in ReadyRequests, SetReady(s, ready) PROVE SlotsInv'
  BY <1>1, <1>3, <1>6 DEF SetReady, RoomPlayer
<1>7. ASSUME NEW enabled \in BotRequests, SetBots(s, enabled) PROVE SlotsInv'
  BY <1>2, <1>7 DEF SetBots, roomVars, slotVars, netVars
<1>8. ASSUME NEW option \in Options, SetOptions(s, option) PROVE SlotsInv'
  BY <1>2, <1>8 DEF SetOptions, roomVars, slotVars, netVars
<1>9. CASE Loaded(s)
  BY <1>1, <1>3, <1>9 DEF Loaded, RoomPlayer
<1>10. CASE Start(s)
  <2>1. OnlyForgetsBots
    BY <1>10, StartRoundTable DEF Start
  <2>. QED  BY <1>10, <2>1, TableStepKeepsSlots DEF Start
<1>11. ASSUME NEW choice \in {"rematch", "lobby"}, Vote(s, choice) PROVE SlotsInv'
  <2>. DEFINE new == [players[p] EXCEPT !.vote = choice]
              voted == [players EXCEPT ![p] = new]
  <2>1. /\ Speaks(s)
        /\ UNCHANGED <<room, nextPlayerId, bySessionId, replacedSessions, kicked, net>>
        /\ \/ ReturnToLobby(voted)
           \/ StartRound /\ UNCHANGED hostPlayerId
           \/ players' = voted /\ UNCHANGED hostPlayerId
    BY <1>11 DEF Vote
  <2>2. /\ new.user = players[p].user /\ new.connection = players[p].connection
        /\ new.session = players[p].session /\ new \in RoomPlayer
    BY <1>1, <2>1 DEF RoomPlayer
  <2>3. voted \in Table
    BY <1>1, <2>1, <2>2 DEF Table
  <2>4. \A q \in PlayerIds : /\ voted[q].user = players[q].user
                             /\ voted[q].connection = players[q].connection
                             /\ voted[q].session = players[q].session
    BY <2>1, <2>2, SpeakerChanges
  <2>5. CASE ReturnToLobby(voted)
    BY <2>1, <2>3, <2>4, <2>5, ReturnToLobbyTable, TableStepKeepsSlots
  <2>6. CASE StartRound /\ UNCHANGED hostPlayerId
    BY <2>1, <2>6, StartRoundTable, TableStepKeepsSlots
  <2>7. CASE players' = voted /\ UNCHANGED hostPlayerId
    <3>1. OnlyForgetsBots
      BY <2>4, <2>7 DEF OnlyForgetsBots, SameWho
    <3>. QED  BY <2>1, <2>7, <3>1, TableStepKeepsSlots
  <2>. QED  BY <2>1, <2>5, <2>6, <2>7
<1>. QED  BY <1>4, <1>5, <1>6, <1>7, <1>8, <1>9, <1>10, <1>11 DEF Message

(* No tick disturbs slots and routing.                                     *)
LEMMA FixedStepKeepsSlots ==
  ASSUME TypeInv, TypeInv', SlotsInv, FixedStep
  PROVE  SlotsInv'
<1>1. UNCHANGED <<room, nextPlayerId, bySessionId, replacedSessions, kicked, net>>
  BY DEF FixedStep, netVars
<1>2. CASE players' = players /\ hostPlayerId' = hostPlayerId
  BY <1>1, <1>2, TableStepKeepsSlots DEF OnlyForgetsBots, SameWho
<1>3. CASE ReturnToLobby(players)
  <2>1. players \in Table
    BY DEF TypeInv, TypeOK
  <2>. QED  BY <1>1, <1>3, <2>1, ReturnToLobbyTable, TableStepKeepsSlots
<1>4. (players' = players /\ hostPlayerId' = hostPlayerId) \/ ReturnToLobby(players)
  BY DEF FixedStep, LoadingStep, CountdownStep, RunningStep, RoundFinished,
         FinishingStep, ResultsStep
<1>. QED  BY <1>2, <1>3, <1>4

(* Bans that end, the shutdown and the disposal.                           *)
LEMMA RoomStepsKeepSlots ==
  ASSUME TypeInv, TypeInv', SlotsInv,
         Shutdown \/ Dispose \/ \E u \in Users : BanEnds(u)
  PROVE  SlotsInv'
<1>1. /\ UNCHANGED <<players, nextPlayerId, hostPlayerId, bySessionId, replacedSessions>>
      /\ kicked' \in SUBSET kicked
  BY DEF Shutdown, Dispose, BanEnds, slotVars
<1>2. /\ players \in Table /\ net \in [Sessions -> NetStates]
      /\ Slots \subseteq PlayerIds /\ replacedSessions \subseteq Sessions
  BY DEF TypeInv, TypeOK, Slots, Present
<1>3. Slots' = Slots
  BY <1>1 DEF Slots, Present
<1>4. /\ FreshIds' /\ OneSlotPerUser' /\ RoutingAgrees' /\ NoWindowForKicked'
  BY <1>1, <1>3 DEF SlotsInv, FreshIds, OneSlotPerUser, RoutingAgrees, NoWindowForKicked
<1>5. HostIsLive'
  BY <1>1, <1>3 DEF SlotsInv, HostIsLive, CanHost
<1>6. \A q \in Slots : players[q].session # NoSession => players[q].session \in Sessions
  BY <1>2, TableEntries DEF Slots, Present, RoomPlayer
<1>7. CASE Shutdown
  <2>1. /\ room = "open" /\ room' = "closing"
        /\ net' = [s \in Sessions |-> Displaced(net[s])]
    BY <1>7 DEF Shutdown
  <2>2. ConnectionIsReal'
    BY <1>1, <1>2, <1>3, <1>6, <2>1 DEF SlotsInv, ConnectionIsReal, Displaced
  <2>3. ReplacedAreLeaving'
    BY <1>1, <1>2, <2>1 DEF SlotsInv, ReplacedAreLeaving, Displaced
  <2>. QED  BY <1>4, <1>5, <2>2, <2>3 DEF SlotsInv
<1>8. CASE Dispose
  <2>1. net' = net /\ \A s \in Sessions : net[s] \in {"unused", "left"}
    BY <1>8 DEF Dispose, netVars
  <2>2. \A q \in Slots : players[q].connection = "replaced_by_bot"
                         /\ players[q].session = NoSession
    <3>1. ASSUME NEW q \in Slots PROVE players[q].session = NoSession
      BY <1>2, <1>6, <2>1, SlotFacts
    <3>2. \A q \in Slots : players[q] \in RoomPlayer
      BY <1>2, TableEntries DEF Slots, Present
    <3>. QED  BY <3>1, <3>2 DEF SlotsInv, ConnectionIsReal, RoomPlayer
  <2>3. ConnectionIsReal'
    BY <1>1, <1>3, <2>2 DEF ConnectionIsReal
  <2>4. ReplacedAreLeaving'
    BY <1>1, <2>1 DEF SlotsInv, ReplacedAreLeaving
  <2>. QED  BY <1>4, <1>5, <2>3, <2>4 DEF SlotsInv
<1>9. CASE \E u \in Users : BanEnds(u)
  <2>1. net' = net /\ room' = room
    BY <1>9 DEF BanEnds, netVars, roomVars
  <2>. QED  BY <1>1, <1>3, <1>4, <1>5, <2>1
       DEF SlotsInv, ConnectionIsReal, ReplacedAreLeaving
<1>. QED  BY <1>7, <1>8, <1>9

-----------------------------------------------------------------------------
(* The empty room has no slot to be wrong about.                           *)
LEMMA InitSlots == Init => SlotsInv
<1>. SUFFICES ASSUME Init PROVE SlotsInv
  OBVIOUS
<1>1. Slots = {}
  BY DEF Init, Slots, Present, Vacant
<1>2. RoutingAgrees
  BY NoSessionIsNone DEF Init, RoutingAgrees, Vacant, NoPlayer, PlayerIds
<1>. QED  BY <1>1, <1>2
     DEF SlotsInv, Init, FreshIds, OneSlotPerUser, ConnectionIsReal,
         ReplacedAreLeaving, NoWindowForKicked, HostIsLive

(* Every step keeps the slot invariants, action by action.                 *)
LEMMA NextSlots == TypeInv /\ TypeInv' /\ SlotsInv /\ [Next]_vars => SlotsInv'
<1>. SUFFICES ASSUME TypeInv, TypeInv', SlotsInv, [Next]_vars
              PROVE  SlotsInv'
  OBVIOUS
<1>1. CASE UNCHANGED vars
  BY <1>1, TableStepKeepsSlots
     DEF OnlyForgetsBots, SameWho, vars, roomVars, slotVars, netVars
<1>2. ASSUME NEW s \in Sessions, Connection(s) PROVE SlotsInv'
  BY <1>2, JoinNewKeepsSlots, RejoinKeepsSlots, OnDropKeepsSlots,
     OnReconnectKeepsSlots, OnLeaveKeepsSlots DEF Connection
<1>3. ASSUME NEW s \in Sessions, Message(s) PROVE SlotsInv'
  BY <1>3, MessageKeepsSlots
<1>4. CASE FixedStep
  BY <1>4, FixedStepKeepsSlots
<1>5. CASE Shutdown \/ Dispose \/ \E u \in Users : BanEnds(u)
  BY <1>5, RoomStepsKeepSlots
<1>6. CASE Gone
  BY <1>1, <1>6 DEF Gone
<1>. QED  BY <1>1, <1>2, <1>3, <1>4, <1>5, <1>6 DEF Next

(* Slots, connections, expulsions and the host agree at all times.         *)
THEOREM SlotsCorrect == Spec => [](TypeInv /\ SlotsInv)
<1>1. Init => TypeInv /\ SlotsInv
  BY InitTypes, InitSlots
<1>2. TypeInv /\ SlotsInv /\ [Next]_vars => (TypeInv /\ SlotsInv)'
  BY NextTypes, NextSlots
<1>. QED  BY <1>1, <1>2, PTL DEF Spec

(* No sequence of joins, drops, takeovers and rounds gives a user two      *)
(* slots (onJoin, takeOverSlot).                                           *)
THEOREM OneSlotHolds == Spec => []OneSlotPerUser
<1>1. SlotsInv => OneSlotPerUser
  BY DEF SlotsInv
<1>. QED  BY <1>1, SlotsCorrect, PTL

(* A connection is routed to a slot exactly when the slot names it.        *)
THEOREM RoutingHolds == Spec => []RoutingAgrees
<1>1. SlotsInv => RoutingAgrees
  BY DEF SlotsInv
<1>. QED  BY <1>1, SlotsCorrect, PTL

(* The mark of a displaced connection ends with its departure, and no      *)
(* message of it reaches a slot.                                           *)
THEOREM ReplacedHold == Spec => []ReplacedAreLeaving
<1>1. SlotsInv => ReplacedAreLeaving
  BY DEF SlotsInv
<1>. QED  BY <1>1, SlotsCorrect, PTL

(* The table's account of each connection is the transport's.              *)
THEOREM ConnectionsHold == Spec => []ConnectionIsReal
<1>1. SlotsInv => ConnectionIsReal
  BY DEF SlotsInv
<1>. QED  BY <1>1, SlotsCorrect, PTL

(* No slot is kept for somebody expelled while the ban lasts.              *)
THEOREM ExpelledHold == Spec => []NoWindowForKicked
<1>1. SlotsInv => NoWindowForKicked
  BY DEF SlotsInv
<1>. QED  BY <1>1, SlotsCorrect, PTL

(* While anybody speaks for a slot, the host is somebody who can host.     *)
THEOREM HostHolds == Spec => []HostIsLive
<1>1. SlotsInv => HostIsLive
  BY DEF SlotsInv
<1>. QED  BY <1>1, SlotsCorrect, PTL

-----------------------------------------------------------------------------
(*                                  Rounds                                 *)

(* The simulation follows the phase; a room is disposed once nobody is     *)
(* connected.                                                              *)
Stages ==
  /\ room = "disposed" => /\ sim = "none"
                          /\ \A s \in Sessions : net[s] \in {"unused", "left"}
  /\ room # "disposed" =>
       /\ sim = "none" <=> phase = "lobby"
       /\ sim = "live" <=> phase \in {"loading", "countdown", "running"}

(* RosterIsTable, slot by slot.                                            *)
RosterAgrees ==
  /\ roster \subseteq Slots
  /\ sim # "none" /\ phase \in ActivePhases =>
       \A p \in Slots : p \in roster <=> players[p].inRound

RosterInv == RosterAgrees /\ DriverMatchesConnection

(* The results so far, none of which is of the round being played.         *)
Written ==
  /\ ResultsOnce
  /\ sim = "live" => \A i \in 1..Len(sinkWrites) : sinkWrites[i].round < roundId

RoundInv == Stages /\ RosterInv /\ EverybodyTold /\ Written

HostMoves == hostPlayerId' # hostPlayerId => ~CanHost(players', hostPlayerId)

-----------------------------------------------------------------------------
(*                       Who plays and who drives                          *)

(* A step that changes one slot of the round, and keeps its person, its    *)
(* team and its part in the round.                                         *)
LEMMA OneSlotChanges ==
  ASSUME TypeInv, RosterInv, NEW p \in Slots,
         UNCHANGED <<phase, roundId, sim, roster>>,
         \A q \in PlayerIds \ {p} : players'[q] = players[q],
         players'[p].inRound = players[p].inRound,
         players'[p].team = players[p].team, players'[p].user = players[p].user,
         players'[p].connection # "vacant",
         \A q \in PlayerIds \ {p} : /\ q \in suspended' <=> q \in suspended
                                    /\ q \in brains' <=> q \in brains,
         sim # "none" /\ p \in roster =>
           /\ p \in suspended' <=> players'[p].connection = "reconnecting"
           /\ p \in brains' <=> players'[p].connection = "replaced_by_bot"
  PROVE  RosterInv' /\ RosterKept
<1>1. p \in PlayerIds /\ Slots' = Slots /\ Slots \subseteq PlayerIds
  BY DEF Slots, Present
<1>2. RosterAgrees'
  BY <1>1 DEF RosterInv, RosterAgrees
<1>3. DriverMatchesConnection'
  BY <1>1 DEF RosterInv, RosterAgrees, DriverMatchesConnection
<1>4. RosterKept
  BY <1>1 DEF RosterInv, RosterAgrees, RosterKept
<1>. QED  BY <1>2, <1>3, <1>4 DEF RosterInv

(* A step that leaves the table and the round as they are.                 *)
LEMMA NothingChanges ==
  ASSUME TypeInv, RosterInv, UNCHANGED <<players, roster, suspended, brains>>,
         sim' # "none" => sim # "none",
         phase' \in ActivePhases => phase \in ActivePhases
  PROVE  RosterInv' /\ RosterKept
<1>1. Slots' = Slots
  BY DEF Slots, Present
<1>2. RosterAgrees'
  BY <1>1 DEF RosterInv, RosterAgrees
<1>3. DriverMatchesConnection'
  BY DEF RosterInv, DriverMatchesConnection
<1>4. RosterKept
  BY DEF RosterKept
<1>. QED  BY <1>2, <1>3, <1>4 DEF RosterInv

(* Joins: of somebody new, and of somebody who has a slot.                 *)
LEMMA JoinsKeepRoster ==
  ASSUME TypeInv, SlotsInv, RosterInv, NEW s \in Sessions, NEW u \in Users,
         JoinNew(s, u) \/ Rejoin(s, u)
  PROVE  RosterInv' /\ RosterKept
<1>. USE DEF SlotsInv
<1>0. players \in Table /\ Slots \subseteq PlayerIds /\ roster \subseteq Slots
  BY DEF TypeInv, TypeOK, Slots, Present, RosterInv, RosterAgrees
<1>1. CASE JoinNew(s, u)
  <2>. DEFINE n == nextPlayerId
  <2>1. /\ n \in PlayerIds /\ n \notin Slots
        /\ UNCHANGED <<phase, roundId, sim, roster, suspended, brains>>
    BY <1>1, LimitsAreNat DEF JoinNew, TypeInv, TypeOK, FreshIds, PlayerIds, roomVars, simVars
  <2>2. /\ \A q \in PlayerIds \ {n} : players'[q] = players[q]
        /\ players'[n].connection = "connected" /\ players'[n].inRound = ~MidRound
    BY <1>0, <1>1, <2>1 DEF JoinNew, Table
  <2>3. Slots' = Slots \cup {n}
    BY <2>1, <2>2 DEF Slots, Present
  <2>4. RosterAgrees'
    BY <1>0, <2>1, <2>2, <2>3 DEF RosterInv, RosterAgrees, MidRound, ActivePhases
  <2>5. DriverMatchesConnection' /\ RosterKept
    BY <1>0, <2>1, <2>2 DEF RosterInv, DriverMatchesConnection, RosterKept
  <2>. QED  BY <2>4, <2>5 DEF RosterInv
<1>2. CASE Rejoin(s, u)
  <2>1. PICK p \in SlotsOf(u) :
          /\ players' = [players EXCEPT ![p] = Returned([@ EXCEPT !.session = s])]
          /\ brains' = brains \ {p} /\ suspended' = suspended \ {p}
    BY <1>2 DEF Rejoin
  <2>2. /\ p \in Slots /\ players[p] \in RoomPlayer
        /\ UNCHANGED <<phase, roundId, sim, roster>>
    BY <1>0, <1>2, <2>1, TableEntries DEF SlotsOf, Slots, Present, Rejoin, roomVars
  <2>3. /\ \A q \in PlayerIds \ {p} : players'[q] = players[q]
        /\ players'[p].connection = "connected"
        /\ players'[p].inRound = players[p].inRound
        /\ players'[p].team = players[p].team /\ players'[p].user = players[p].user
    BY <1>0, <2>1, <2>2 DEF Returned, Table, RoomPlayer
  <2>. QED  BY <2>1, <2>2, <2>3, OneSlotChanges
<1>. QED  BY <1>1, <1>2

(* Drops and returns of a connection.                                      *)
LEMMA DropsKeepRoster ==
  ASSUME TypeInv, SlotsInv, RosterInv, NEW s \in Sessions,
         OnDrop(s) \/ OnReconnect(s)
  PROVE  RosterInv' /\ RosterKept
<1>. USE DEF SlotsInv
<1>. DEFINE p == bySessionId[s]
<1>0. /\ players \in Table
      /\ HasSlot(s) => p \in Slots /\ players[p] \in RoomPlayer /\ players[p].session = s
  BY SlotFacts, TableEntries DEF TypeInv, TypeOK, HasSlot, Slots, Present
<1>1. UNCHANGED <<phase, roundId, sim, roster, brains>>
  BY DEF OnDrop, OnReconnect, roomVars
<1>2. CASE OnDrop(s)
  <2>1. CASE players' = players /\ suspended' = suspended
    BY <1>1, <2>1, NothingChanges
  <2>2. CASE DropWithWindow(s)
    <3>1. /\ HasSlot(s) /\ suspended' = IF p \in roster THEN suspended \cup {p} ELSE suspended
          /\ players' = [players EXCEPT ![p] = [@ EXCEPT !.connection = "reconnecting"]]
      BY <2>2 DEF DropWithWindow
    <3>2. /\ \A q \in PlayerIds \ {p} : players'[q] = players[q]
          /\ players'[p].connection = "reconnecting"
          /\ players'[p].inRound = players[p].inRound
          /\ players'[p].team = players[p].team /\ players'[p].user = players[p].user
      BY <1>0, <3>1 DEF Table, RoomPlayer, Slots, Present
    <3>3. sim # "none" /\ p \in roster => p \notin brains
      <4>1. s # NoSession
        BY NoSessionIsNone
      <4>2. players[p].connection # "replaced_by_bot"
        BY <1>0, <3>1, <4>1 DEF ConnectionIsReal
      <4>. QED  BY <4>2 DEF RosterInv, DriverMatchesConnection
    <3>. QED  BY <1>0, <1>1, <3>1, <3>2, <3>3, OneSlotChanges
  <2>. QED  BY <1>2, <2>1, <2>2 DEF OnDrop, DropReplaced, DropRefused
<1>3. CASE OnReconnect(s)
  <2>1. /\ HasSlot(s) /\ net[s] = "dropped" /\ suspended' = suspended \ {p}
        /\ players' = [players EXCEPT ![p] = Returned(@)]
    BY <1>3 DEF OnReconnect
  <2>2. /\ \A q \in PlayerIds \ {p} : players'[q] = players[q]
        /\ players'[p].connection = "connected"
        /\ players'[p].inRound = players[p].inRound
        /\ players'[p].team = players[p].team /\ players'[p].user = players[p].user
    BY <1>0, <2>1 DEF Table, RoomPlayer, Slots, Present, Returned
  <2>3. sim # "none" /\ p \in roster => p \notin brains
    <3>1. s # NoSession
      BY NoSessionIsNone
    <3>2. players[p].connection # "replaced_by_bot"
      BY <1>0, <2>1, <3>1 DEF ConnectionIsReal
    <3>. QED  BY <3>2 DEF RosterInv, DriverMatchesConnection
  <2>. QED  BY <1>0, <1>1, <2>1, <2>2, <2>3, OneSlotChanges
<1>. QED  BY <1>2, <1>3

(* A connection that leaves: its slot is a bot's, or it was not playing.   *)
LEMMA LeavesKeepRoster ==
  ASSUME TypeInv, SlotsInv, Stages, RosterInv, NEW s \in Sessions, OnLeave(s)
  PROVE  RosterInv' /\ RosterKept
<1>. USE DEF SlotsInv
<1>. DEFINE p == bySessionId[s]
<1>1. /\ players \in Table /\ Slots \subseteq PlayerIds /\ roster \subseteq Slots
      /\ HasSlot(s) => p \in Slots /\ players[p] \in RoomPlayer
  BY TableEntries DEF TypeInv, TypeOK, HasSlot, Slots, Present, RosterInv, RosterAgrees
<1>2. UNCHANGED <<phase, roundId, sim>> /\ room # "disposed"
  BY DEF OnLeave, roomVars, Stages
<1>3. CASE LeaveReplaced(s) \/ LeaveUnknown(s)
  BY <1>2, <1>3, NothingChanges DEF LeaveReplaced, LeaveUnknown
<1>4. CASE LeaveToBot(s)
  <2>1. /\ HasSlot(s) /\ InActiveRound(p) /\ roster' = roster
        /\ players' = [players EXCEPT ![p] = [@ EXCEPT !.session = NoSession,
                                                      !.connection = "replaced_by_bot"]]
        /\ suspended' = suspended \ {p}
        /\ brains' = IF p \in roster THEN brains \cup {p} ELSE brains
    BY <1>4 DEF LeaveToBot
  <2>2. p \in roster
    BY <1>1, <2>1 DEF InActiveRound, RosterInv, RosterAgrees
  <2>3. /\ \A q \in PlayerIds \ {p} : players'[q] = players[q]
        /\ players'[p].connection = "replaced_by_bot"
        /\ players'[p].inRound = players[p].inRound
        /\ players'[p].team = players[p].team /\ players'[p].user = players[p].user
    BY <1>1, <2>1 DEF Table, RoomPlayer
  <2>. QED  BY <1>1, <1>2, <2>1, <2>2, <2>3, OneSlotChanges
<1>5. CASE LeaveRoom(s)
  <2>1. /\ HasSlot(s) /\ ~InActiveRound(p) /\ roster' = roster \ {p}
        /\ suspended' = suspended \ {p} /\ brains' = brains \ {p}
        /\ players' = [players EXCEPT ![p] = Vacant]
    BY <1>5 DEF LeaveRoom
  <2>2. /\ \A q \in PlayerIds \ {p} : players'[q] = players[q]
        /\ players'[p].connection = "vacant"
    BY <1>1, <2>1 DEF Table, Vacant
  <2>3. Slots' = Slots \ {p}
    BY <1>1, <2>2 DEF Slots, Present
  <2>4. phase \in ActivePhases => p \notin roster
    BY <1>1, <1>2, <2>1 DEF Stages, InActiveRound, ActivePhases, RosterInv, RosterAgrees
  <2>5. RosterAgrees'
    BY <1>1, <1>2, <2>1, <2>2, <2>3 DEF RosterInv, RosterAgrees
  <2>6. DriverMatchesConnection' /\ RosterKept
    BY <1>1, <1>2, <2>1, <2>2, <2>4 DEF RosterInv, DriverMatchesConnection, RosterKept
  <2>. QED  BY <2>5, <2>6 DEF RosterInv
<1>. QED  BY <1>3, <1>4, <1>5 DEF OnLeave

-----------------------------------------------------------------------------
(* A round that starts has its own roster, which nobody has dropped from.  *)
LEMMA StartsWithRoster ==
  ASSUME TypeInv, StartRound
  PROVE  RosterInv' /\ RosterKept
<1>. DEFINE playing == Playing(Candidates, PlanSize)
<1>1. /\ players \in Table /\ roundId \in Nat /\ playing \subseteq Connected(players)
  BY PlanTypes DEF TypeInv, TypeOK
<1>2. ASSUME NEW p \in PlayerIds
      PROVE  /\ p \in playing => /\ players'[p].connection = "connected"
                                 /\ players'[p].inRound
             /\ p \in Slots' /\ p \notin playing => ~players'[p].inRound
  <2>1. players'[p] =
          IF players[p].connection \in {"vacant", "replaced_by_bot"} THEN Vacant
          ELSE IF p \in playing
          THEN Seated(players[p], TeamOf(Candidates, PlanSize, p))
          ELSE Benched(players[p])
    BY DEF StartRound, Seated, Benched
  <2>2. CASE players[p].connection \in {"vacant", "replaced_by_bot"}
    BY <1>1, <2>1, <2>2 DEF Connected, Slots, Present, Vacant
  <2>3. CASE players[p].connection \notin {"vacant", "replaced_by_bot"}
    <3>1. players[p] \in RoomPlayer
      BY <1>1, <2>3, TableEntries
    <3>. QED  BY <1>1, <2>1, <2>3, <3>1 DEF Connected, Seated, Benched, RoomPlayer
  <2>. QED  BY <2>2, <2>3
<1>3. /\ roster' = playing /\ suspended' = {} /\ brains' = {}
      /\ roundId' = roundId + 1
  BY DEF StartRound
<1>4. Slots' \subseteq PlayerIds /\ roster' \subseteq Slots'
  BY <1>1, <1>2, <1>3 DEF Slots, Present, Connected
<1>5. RosterAgrees'
  BY <1>2, <1>3, <1>4 DEF RosterAgrees
<1>6. DriverMatchesConnection' /\ RosterKept
  BY <1>1, <1>2, <1>3, <1>4 DEF DriverMatchesConnection, RosterKept
<1>. QED  BY <1>5, <1>6 DEF RosterInv

(* Back in the lobby there is no roster.                                   *)
LEMMA LobbyHasNoRoster ==
  ASSUME NEW ps, ReturnToLobby(ps)
  PROVE  RosterInv' /\ RosterKept
BY DEF ReturnToLobby, RosterInv, RosterAgrees, DriverMatchesConnection, RosterKept,
       ActivePhases

(* What a person asks for, or votes.                                       *)
LEMMA MessagesKeepRoster ==
  ASSUME TypeInv, Stages, RosterInv, NEW s \in Sessions, Message(s)
  PROVE  RosterInv' /\ RosterKept
<1>. DEFINE p == bySessionId[s]
<1>1. /\ players \in Table /\ Slots \subseteq PlayerIds /\ roster \subseteq Slots
      /\ Speaks(s) => p \in Slots /\ players[p] \in RoomPlayer
      /\ room # "disposed"
  BY TableEntries DEF TypeInv, TypeOK, Speaks, HasSlot, Slots, Present, RosterInv,
                      RosterAgrees, Message
<1>2. ASSUME Speaks(s), NEW new, players' = [players EXCEPT ![p] = new],
             UNCHANGED <<phase, roundId, sim, roster, suspended, brains>>,
             new.connection = players[p].connection, new.inRound = players[p].inRound,
             new.team = players[p].team, new.user = players[p].user
      PROVE  RosterInv' /\ RosterKept
  <2>1. /\ \A q \in PlayerIds \ {p} : players'[q] = players[q]
        /\ players'[p] = new /\ p \in Slots
    BY <1>1, <1>2 DEF Table
  <2>2. /\ new.connection # "vacant"
        /\ sim # "none" /\ p \in roster =>
             /\ p \in suspended <=> players[p].connection = "reconnecting"
             /\ p \in brains <=> players[p].connection = "replaced_by_bot"
    BY <1>1, <1>2 DEF RosterInv, DriverMatchesConnection, RoomPlayer
  <2>. QED  BY <1>2, <2>1, <2>2, OneSlotChanges
<1>3. CASE Flood(s) \/ (\E enabled \in BotRequests : SetBots(s, enabled))
           \/ (\E option \in Options : SetOptions(s, option))
  BY <1>3, NothingChanges DEF Flood, SetBots, SetOptions, simVars, roomVars, slotVars
<1>4. CASE Start(s)
  BY <1>4, StartsWithRoster DEF Start
<1>5. CASE Loaded(s)
  BY <1>1, <1>2, <1>5 DEF Loaded, ChangeSlot, roomVars, simVars, RoomPlayer
<1>6. ASSUME NEW ready \in ReadyRequests, SetReady(s, ready)
      PROVE  RosterInv' /\ RosterKept
  BY <1>1, <1>2, <1>6 DEF SetReady, ChangeSlot, roomVars, simVars, RoomPlayer
\* a change of team: there is no round yet
<1>7. ASSUME NEW t \in TeamRequests, SetTeam(s, t)
      PROVE  RosterInv' /\ RosterKept
  <2>1. /\ Speaks(s) /\ phase = "lobby" /\ sim = "none" /\ phase' = phase /\ sim' = sim
        /\ players' = [players EXCEPT ![p] = [players[p] EXCEPT !.team = t, !.ready = FALSE]]
        /\ roster' = roster
    BY <1>1, <1>7 DEF SetTeam, ChangeSlot, roomVars, simVars, Stages
  <2>2. Slots' = Slots
    BY <1>1, <2>1 DEF Slots, Present, Table, RoomPlayer
  <2>3. RosterAgrees' /\ DriverMatchesConnection' /\ RosterKept
    BY <1>1, <2>1, <2>2 DEF RosterAgrees, DriverMatchesConnection, RosterKept, ActivePhases
  <2>. QED  BY <2>3 DEF RosterInv
<1>8. ASSUME NEW choice \in {"rematch", "lobby"}, Vote(s, choice)
      PROVE  RosterInv' /\ RosterKept
  <2>. DEFINE new == [players[p] EXCEPT !.vote = choice]
              voted == [players EXCEPT ![p] = new]
  <2>1. /\ Speaks(s)
        /\ \/ ReturnToLobby(voted)
           \/ StartRound
           \/ players' = voted /\ UNCHANGED <<phase, roundId, simVars>>
    BY <1>8 DEF Vote
  <2>2. CASE players' = voted /\ UNCHANGED <<phase, roundId, simVars>>
    BY <1>1, <1>2, <2>1, <2>2 DEF simVars, RoomPlayer
  <2>. QED  BY <2>1, <2>2, StartsWithRoster, LobbyHasNoRoster
<1>. QED  BY <1>3, <1>4, <1>5, <1>6, <1>7, <1>8 DEF Message

(* Ticks, bans that end, the shutdown and the disposal.                    *)
LEMMA OtherStepsKeepRoster ==
  ASSUME TypeInv, Stages, RosterInv,
         FixedStep \/ Shutdown \/ Dispose \/ \E u \in Users : BanEnds(u)
  PROVE  RosterInv' /\ RosterKept
<1>1. CASE FixedStep
  <2>1. CASE LoadingStep \/ CountdownStep \/ RunningStep \/ RoundFinished \/ FinishingStep
    <3>1. UNCHANGED <<players, roster, suspended, brains>> /\ sim # "none"
      BY <1>1, <2>1 DEF LoadingStep, CountdownStep, RunningStep, RoundFinished,
                        FinishingStep, FixedStep, Stages
    <3>2. phase \in ActivePhases
      BY <2>1 DEF LoadingStep, CountdownStep, RunningStep, RoundFinished,
                  FinishingStep, ActivePhases
    <3>. QED  BY <3>1, <3>2, NothingChanges
  <2>2. CASE ResultsStep
    <3>1. CASE ReturnToLobby(players)
      BY <3>1, LobbyHasNoRoster
    <3>2. CASE UNCHANGED <<phase, players, hostPlayerId, simVars>>
      BY <3>2, NothingChanges DEF simVars
    <3>. QED  BY <2>2, <3>1, <3>2 DEF ResultsStep
  <2>. QED  BY <1>1, <2>1, <2>2 DEF FixedStep
<1>2. CASE Shutdown \/ Dispose \/ \E u \in Users : BanEnds(u)
  BY <1>2, NothingChanges DEF Shutdown, Dispose, BanEnds, simVars, slotVars, roomVars
<1>. QED  BY <1>1, <1>2

-----------------------------------------------------------------------------
(*                       Stages and results                                *)

(* A step outside the clockwork changes neither the stage nor the results. *)
LEMMA StagesStay ==
  ASSUME Stages, Written, room # "disposed", room' # "disposed",
         UNCHANGED <<phase, roundId, sim, sinkWrites>>
  PROVE  Stages' /\ Written'
BY DEF Stages, Written, ResultsOnce

(* What the sink was asked to write names rounds.                          *)
LEMMA WritesAreTyped ==
  ASSUME TypeInv
  PROVE  /\ roundId \in Nat /\ sinkWrites \in Seq(Result) /\ Len(sinkWrites) \in Nat
         /\ \A i \in 1..Len(sinkWrites) : sinkWrites[i].round \in Nat
<1>1. roundId \in Nat /\ sinkWrites \in Seq(Result)
  BY DEF TypeInv, TypeOK
<1>2. Len(sinkWrites) \in Nat /\ \A i \in 1..Len(sinkWrites) : sinkWrites[i] \in Result
  BY <1>1
<1>3. \A r \in Result : r.round \in Nat
  BY DEF Result
<1>. QED  BY <1>1, <1>2, <1>3

(* The next round is none of those that have a result.                     *)
LEMMA StartsStage ==
  ASSUME TypeInv, Written, StartRound, room' # "disposed", UNCHANGED sinkWrites
  PROVE  Stages' /\ Written'
<1>1. /\ roundId \in Nat /\ sinkWrites \in Seq(Result) /\ Len(sinkWrites) \in Nat
      /\ \A i \in 1..Len(sinkWrites) : sinkWrites[i].round \in Nat
  BY WritesAreTyped
<1>2. phase' = "loading" /\ sim' = "live" /\ roundId' = roundId + 1
  BY DEF StartRound
<1>3. Stages'
  BY <1>2 DEF Stages
<1>4. Written'
  BY <1>1, <1>2 DEF Written, ResultsOnce
<1>. QED  BY <1>3, <1>4

(* The lobby has neither a simulation nor a result to give.                *)
LEMMA LobbyIsStage ==
  ASSUME Written, NEW ps, ReturnToLobby(ps), room' # "disposed",
         UNCHANGED <<roundId, sinkWrites>>
  PROVE  Stages' /\ Written'
BY DEF ReturnToLobby, Stages, Written, ResultsOnce

(* A result written now comes after the others, and is the last.           *)
LEMMA AppendsResult ==
  ASSUME TypeInv, Written, sim = "live", NEW st \in {"completed", "interrupted"},
         sinkWrites' = Append(sinkWrites, [round |-> roundId, status |-> st]),
         roundId' = roundId
  PROVE  /\ \A i, j \in 1..Len(sinkWrites') :
              i < j => sinkWrites'[i].round < sinkWrites'[j].round
         /\ \A i \in 1..Len(sinkWrites') : sinkWrites'[i].round <= roundId'
         /\ \E i \in 1..Len(sinkWrites') : sinkWrites'[i] = [round |-> roundId', status |-> st]
<1>. DEFINE n == Len(sinkWrites)
            r == [round |-> roundId, status |-> st]
<1>1. /\ roundId \in Nat /\ sinkWrites \in Seq(Result) /\ r \in Result /\ n \in Nat
      /\ \A i \in 1..n : sinkWrites[i].round \in Nat /\ sinkWrites[i].round < roundId
  BY WritesAreTyped DEF Result, Written
<1>2. /\ Len(sinkWrites') = n + 1 /\ sinkWrites'[n + 1] = r /\ r.round = roundId
      /\ \A i \in 1..n : sinkWrites'[i] = sinkWrites[i]
  BY <1>1
<1>3. ASSUME NEW i \in 1..(n + 1), NEW j \in 1..(n + 1), i < j
      PROVE  sinkWrites'[i].round < sinkWrites'[j].round
  <2>1. i \in 1..n /\ (j \in 1..n \/ j = n + 1)
    BY <1>1, <1>3
  <2>2. CASE j = n + 1
    BY <1>1, <1>2, <2>1, <2>2
  <2>3. CASE j \in 1..n
    BY <1>2, <1>3, <2>1, <2>3 DEF Written, ResultsOnce
  <2>. QED  BY <2>1, <2>2, <2>3
<1>4. ASSUME NEW i \in 1..(n + 1)
      PROVE  sinkWrites'[i].round <= roundId
  <2>1. i \in 1..n \/ i = n + 1
    BY <1>1
  <2>. QED  BY <1>1, <1>2, <2>1
<1>5. n + 1 \in 1..Len(sinkWrites')
  BY <1>1, <1>2
<1>. QED  BY <1>2, <1>3, <1>4, <1>5

(* The ticks of the room.                                                  *)
LEMMA TicksKeepStages ==
  ASSUME TypeInv, Stages, Written, FixedStep
  PROVE  Stages' /\ Written'
<1>1. room # "disposed" /\ UNCHANGED <<room, roundId>>
  BY DEF FixedStep
<1>2. CASE LoadingStep \/ CountdownStep \/ RunningStep \/ FinishingStep
  <2>1. /\ UNCHANGED <<sim, sinkWrites>>
        /\ \/ phase \in {"loading", "countdown", "running"}
              /\ phase' \in {"loading", "countdown", "running"}
           \/ phase = "finishing" /\ phase' \in {"finishing", "results"}
    BY <1>2 DEF LoadingStep, CountdownStep, RunningStep, FinishingStep
  <2>. QED  BY <1>1, <2>1 DEF Stages, Written, ResultsOnce
<1>3. CASE RoundFinished
  <2>1. /\ sim = "live" /\ sim' = "finished" /\ phase' = "finishing"
        /\ sinkWrites' = Append(sinkWrites, [round |-> roundId, status |-> "completed"])
    BY <1>1, <1>3 DEF RoundFinished, Stages
  <2>2. Stages'
    BY <1>1, <2>1 DEF Stages
  <2>3. ResultsOnce'
    BY <1>1, <2>1, AppendsResult DEF ResultsOnce
  <2>. QED  BY <2>1, <2>2, <2>3 DEF Written
<1>4. CASE ResultsStep
  <2>1. CASE ReturnToLobby(players)
    BY <1>1, <1>4, <2>1, LobbyIsStage DEF ResultsStep
  <2>2. CASE UNCHANGED <<phase, players, hostPlayerId, simVars>>
    BY <1>1, <1>4, <2>2, StagesStay DEF ResultsStep, simVars
  <2>. QED  BY <1>4, <2>1, <2>2 DEF ResultsStep
<1>. QED  BY <1>2, <1>3, <1>4 DEF FixedStep

(* The disposal: a round that was being played has its interrupted result. *)
LEMMA DisposalKeepsStages ==
  ASSUME TypeInv, Stages, Written, Dispose
  PROVE  Stages' /\ Written'
<1>1. /\ room # "disposed" /\ room' = "disposed" /\ sim' = "none"
      /\ UNCHANGED <<phase, roundId, net>>
      /\ \A s \in Sessions : net[s] \in {"unused", "left"}
  BY DEF Dispose, netVars
<1>2. Stages'
  BY <1>1 DEF Stages
<1>3. CASE phase \in {"running", "countdown"}
  <2>1. /\ sim = "live"
        /\ sinkWrites' = Append(sinkWrites, [round |-> roundId, status |-> "interrupted"])
    BY <1>1, <1>3 DEF Dispose, Stages
  <2>2. ResultsOnce'
    BY <1>1, <1>3, <2>1, AppendsResult DEF ResultsOnce
  <2>. QED  BY <1>1, <1>2, <2>2 DEF Written
<1>4. CASE phase \notin {"running", "countdown"}
  BY <1>1, <1>2, <1>4 DEF Dispose, Written, ResultsOnce
<1>. QED  BY <1>3, <1>4

(* Connections, messages, bans and the shutdown.                           *)
LEMMA OthersKeepStages ==
  ASSUME TypeInv, Stages, Written,
         \/ \E s \in Sessions : Connection(s) \/ Message(s)
         \/ Shutdown \/ \E u \in Users : BanEnds(u)
  PROVE  Stages' /\ Written'
<1>1. ASSUME NEW s \in Sessions, Connection(s) PROVE Stages' /\ Written'
  <2>1. UNCHANGED <<room, phase, roundId, sim, sinkWrites>>
    BY <1>1 DEF Connection, JoinNew, Rejoin, OnDrop, OnReconnect, OnLeave, roomVars, simVars
  <2>2. room # "disposed"
    BY <1>1 DEF Connection, JoinNew, Rejoin, Admissible, OnDrop, OnReconnect, OnLeave, Stages
  <2>. QED  BY <2>1, <2>2, StagesStay
<1>2. ASSUME NEW s \in Sessions, Message(s) PROVE Stages' /\ Written'
  <2>1. room # "disposed"
    BY <1>2 DEF Message
  <2>2. CASE Start(s)
    BY <2>1, <2>2, StartsStage DEF Start
  <2>3. ASSUME NEW choice \in {"rematch", "lobby"}, Vote(s, choice)
        PROVE  Stages' /\ Written'
    <3>. DEFINE voted == [players EXCEPT ![bySessionId[s]] = [@ EXCEPT !.vote = choice]]
    <3>1. /\ UNCHANGED <<room, sinkWrites>>
          /\ \/ ReturnToLobby(voted) /\ UNCHANGED roundId
             \/ StartRound
             \/ UNCHANGED <<phase, roundId, sim>>
      BY <2>3 DEF Vote, simVars
    <3>. QED  BY <2>1, <3>1, StagesStay, StartsStage, LobbyIsStage
  <2>4. CASE Flood(s) \/ Loaded(s)
             \/ (\E t \in TeamRequests : SetTeam(s, t))
             \/ (\E ready \in ReadyRequests : SetReady(s, ready))
             \/ (\E enabled \in BotRequests : SetBots(s, enabled))
             \/ (\E option \in Options : SetOptions(s, option))
    <3>1. UNCHANGED <<room, phase, roundId, sim, sinkWrites>>
      BY <2>4 DEF Flood, Loaded, SetTeam, SetReady, SetBots, SetOptions, ChangeSlot,
                  roomVars, simVars
    <3>. QED  BY <2>1, <3>1, StagesStay
  <2>. QED  BY <1>2, <2>2, <2>3, <2>4 DEF Message
<1>3. CASE Shutdown
  BY <1>3, StagesStay DEF Shutdown, simVars
<1>4. ASSUME NEW u \in Users, BanEnds(u) PROVE Stages' /\ Written'
  <2>1. UNCHANGED <<room, phase, roundId, sim, sinkWrites, net>>
    BY <1>4 DEF BanEnds, roomVars, simVars, netVars
  <2>. QED  BY <2>1 DEF Stages, Written, ResultsOnce
<1>. QED  BY <1>1, <1>2, <1>3, <1>4

-----------------------------------------------------------------------------
(*                          Who was told                                   *)

(* Whoever speaks is routed, and the other way round.                      *)
LEMMA SpeakersAreRouted ==
  ASSUME TypeInv, SlotsInv
  PROVE  \A c \in Sessions : net[c] = "open" => (Speaks(c) <=> bySessionId[c] # NoPlayer)
BY SlotFacts DEF Speaks, HasSlot

(* A step keeps everybody told when it gives no connection to a slot       *)
(* without telling it of the round, and shows no new round.                *)
LEMMA ToldStays ==
  ASSUME TypeInv, SlotsInv, EverybodyTold, RoundVisible' => RoundVisible,
         UNCHANGED roundId,
         \A c \in Sessions :
           \/ RoundVisible => told'[c] = roundId
           \/ /\ told'[c] = told[c]
              /\ net'[c] = "open" /\ bySessionId'[c] # NoPlayer =>
                   net[c] = "open" /\ bySessionId[c] # NoPlayer
  PROVE  EverybodyTold'
<1>. SUFFICES ASSUME RoundVisible', NEW c \in Sessions, Speaks(c)', net'[c] = "open"
              PROVE  told'[c] = roundId'
  BY DEF EverybodyTold
<1>1. bySessionId'[c] # NoPlayer /\ RoundVisible
  BY DEF Speaks, HasSlot
<1>2. net[c] = "open" /\ bySessionId[c] # NoPlayer => told[c] = roundId
  BY <1>1, SpeakersAreRouted DEF EverybodyTold
<1>. QED  BY <1>1, <1>2

(* startRound tells every connection that speaks for a slot.               *)
LEMMA StartTellsAll ==
  ASSUME TypeInv, SlotsInv, StartRound, UNCHANGED <<net, bySessionId>>
  PROVE  EverybodyTold'
<1>1. ASSUME NEW c \in Sessions, Speaks(c)', net'[c] = "open"
      PROVE  told'[c] = roundId'
  <2>1. bySessionId[c] # NoPlayer /\ net[c] = "open"
    BY <1>1 DEF Speaks, HasSlot
  <2>2. HasSlot(c)
    BY <2>1, SlotFacts
  <2>. QED  BY <2>1, <2>2 DEF StartRound
<1>. QED  BY <1>1 DEF EverybodyTold

(* Joins, drops, returns and departures.                                   *)
LEMMA ConnectionsKeepTold ==
  ASSUME TypeInv, SlotsInv, EverybodyTold, NEW s \in Sessions, Connection(s)
  PROVE  EverybodyTold'
<1>0. /\ net \in [Sessions -> NetStates] /\ told \in [Sessions -> Nat]
      /\ bySessionId \in [Sessions -> PlayerIds \cup {NoPlayer}]
  BY DEF TypeInv, TypeOK
<1>1. UNCHANGED <<roundId, sim, phase>>
  BY DEF Connection, JoinNew, Rejoin, OnDrop, OnReconnect, OnLeave, roomVars, simVars
<1>2. RoundVisible' = RoundVisible
  BY <1>1 DEF RoundVisible
<1>3. ASSUME NEW u \in Users, JoinNew(s, u) PROVE EverybodyTold'
  BY <1>0, <1>1, <1>2, <1>3, ToldStays DEF JoinNew, Announce
<1>4. ASSUME NEW u \in Users, Rejoin(s, u) PROVE EverybodyTold'
  <2>1. PICK p \in SlotsOf(u) :
          /\ bySessionId' = [c \in Sessions |->
                                IF c = s THEN p
                                ELSE IF c = players[p].session THEN NoPlayer
                                ELSE bySessionId[c]]
          /\ net' = [c \in Sessions |->
                        IF c = s THEN "open"
                        ELSE IF c = players[p].session THEN Displaced(net[c])
                        ELSE net[c]]
    BY <1>4 DEF Rejoin
  <2>2. Announce(s)
    BY <1>4 DEF Rejoin
  <2>3. ASSUME NEW c \in Sessions, c # s, net'[c] = "open", bySessionId'[c] # NoPlayer
        PROVE  net[c] = "open" /\ bySessionId[c] # NoPlayer
    BY <2>1, <2>3
  <2>4. /\ RoundVisible => told'[s] = roundId
        /\ \A c \in Sessions \ {s} : told'[c] = told[c]
    BY <1>0, <2>2 DEF Announce
  <2>. QED  BY <1>1, <1>2, <2>3, <2>4, ToldStays
<1>5. CASE OnDrop(s)
  <2>1. /\ UNCHANGED <<told, bySessionId>>
        /\ \A c \in Sessions : net'[c] = "open" => net[c] = "open"
    BY <1>0, <1>5 DEF OnDrop, DropReplaced, DropRefused, DropWithWindow
  <2>. QED  BY <1>1, <1>2, <2>1, ToldStays
<1>6. CASE OnReconnect(s)
  BY <1>0, <1>1, <1>2, <1>6, ToldStays DEF OnReconnect, Announce
<1>7. CASE OnLeave(s)
  <2>1. /\ net' = [net EXCEPT ![s] = "left"] /\ told' = [told EXCEPT ![s] = 0]
        /\ \A c \in Sessions \ {s} : bySessionId'[c] = bySessionId[c]
    BY <1>0, <1>7 DEF OnLeave, LeaveReplaced, LeaveUnknown, LeaveToBot, LeaveRoom
  <2>2. ASSUME NEW c \in Sessions
        PROVE  \/ net'[c] # "open" /\ c = s
               \/ /\ net'[c] = net[c] /\ told'[c] = told[c]
                  /\ bySessionId'[c] = bySessionId[c]
    BY <1>0, <2>1
  <2>. SUFFICES ASSUME RoundVisible', NEW c \in Sessions, Speaks(c)', net'[c] = "open"
                PROVE  told'[c] = roundId'
    BY DEF EverybodyTold
  <2>3. bySessionId'[c] # NoPlayer
    BY DEF Speaks, HasSlot
  <2>. QED  BY <1>1, <1>2, <2>2, <2>3, SpeakersAreRouted DEF EverybodyTold
<1>. QED  BY <1>3, <1>4, <1>5, <1>6, <1>7 DEF Connection

(* What people ask for: only startRound shows a new round.                 *)
LEMMA MessagesKeepTold ==
  ASSUME TypeInv, SlotsInv, EverybodyTold, NEW s \in Sessions, Message(s)
  PROVE  EverybodyTold'
<1>1. CASE Start(s)
  BY <1>1, StartTellsAll DEF Start
<1>2. ASSUME NEW choice \in {"rematch", "lobby"}, Vote(s, choice)
      PROVE  EverybodyTold'
  <2>. DEFINE voted == [players EXCEPT ![bySessionId[s]] = [@ EXCEPT !.vote = choice]]
  <2>1. /\ UNCHANGED <<net, bySessionId>>
        /\ \/ ReturnToLobby(voted)
           \/ StartRound
           \/ UNCHANGED <<phase, roundId, sim, told>>
    BY <1>2 DEF Vote, simVars
  <2>2. CASE ReturnToLobby(voted)
    BY <2>2 DEF ReturnToLobby, EverybodyTold, RoundVisible
  <2>3. CASE UNCHANGED <<phase, roundId, sim, told>>
    BY <2>1, <2>3, ToldStays DEF RoundVisible
  <2>. QED  BY <2>1, <2>2, <2>3, StartTellsAll
<1>3. CASE Flood(s)
  <2>1. /\ UNCHANGED <<phase, roundId, sim, told, bySessionId>>
        /\ \A c \in Sessions : net'[c] = "open" => net[c] = "open"
    BY <1>3 DEF Flood, roomVars, simVars, TypeInv, TypeOK
  <2>. QED  BY <2>1, ToldStays DEF RoundVisible
<1>4. CASE Loaded(s) \/ (\E t \in TeamRequests : SetTeam(s, t))
           \/ (\E ready \in ReadyRequests : SetReady(s, ready))
           \/ (\E enabled \in BotRequests : SetBots(s, enabled))
           \/ (\E option \in Options : SetOptions(s, option))
  <2>1. UNCHANGED <<phase, roundId, sim, told, bySessionId, net>>
    BY <1>4 DEF Loaded, SetTeam, SetReady, SetBots, SetOptions, ChangeSlot, roomVars,
                simVars, slotVars, netVars
  <2>. QED  BY <2>1, ToldStays DEF RoundVisible
<1>. QED  BY <1>1, <1>2, <1>3, <1>4 DEF Message

(* Ticks, bans that end, the shutdown and the disposal.                    *)
LEMMA OthersKeepTold ==
  ASSUME TypeInv, SlotsInv, Stages, EverybodyTold,
         FixedStep \/ Shutdown \/ Dispose \/ \E u \in Users : BanEnds(u)
  PROVE  EverybodyTold'
<1>1. UNCHANGED <<roundId, told, bySessionId>>
  BY DEF FixedStep, Shutdown, Dispose, BanEnds, netVars, roomVars, slotVars
<1>2. \A c \in Sessions : net'[c] = "open" => net[c] = "open"
  BY DEF FixedStep, Shutdown, Dispose, BanEnds, netVars, Displaced
<1>3. RoundVisible' => RoundVisible
  BY DEF FixedStep, LoadingStep, CountdownStep, RunningStep, RoundFinished, FinishingStep,
         ResultsStep, ReturnToLobby, Shutdown, Dispose, BanEnds, roomVars, simVars,
         RoundVisible, Stages
<1>. QED  BY <1>1, <1>2, <1>3, ToldStays

-----------------------------------------------------------------------------
(*                            The bench                                    *)

(* Whoever is left out of a plan has waited no longer than whoever plays:  *)
(* those ahead of the first include those ahead of the second.             *)
LEMMA LeftOutWaitedLess ==
  ASSUME TypeInv, NEW p \in Connected(players), NEW q \in Connected(players),
         p \notin Playing(Candidates, PlanSize), q \in Playing(Candidates, PlanSize)
  PROVE  players[p].sitOuts <= players[q].sitOuts
<1>. DEFINE C == Connected(players)
            aheadOf(x) == {y \in C : Ahead(Candidates, y, x)}
<1>1. C \in SUBSET PlayerIds /\ PlayerIds \subseteq Nat
  BY DEF Connected, PlayerIds
<1>2. \A x \in C : Candidates[x].sitOuts = players[x].sitOuts /\ players[x].sitOuts \in Nat
  BY <1>1, TableEntries DEF TypeInv, TypeOK, Connected, Candidates, RoomPlayer
<1>3. DOMAIN Candidates = C
  BY DEF Candidates
<1>4. SUFFICES ASSUME players[q].sitOuts < players[p].sitOuts PROVE FALSE
  BY <1>2
<1>5. aheadOf(p) \subseteq aheadOf(q)
  BY <1>1, <1>2, <1>4 DEF Ahead
<1>6. aheadOf(q) \in SUBSET PlayerIds /\ aheadOf(p) \in SUBSET PlayerIds
  BY <1>1
<1>7. /\ IsFiniteSet(aheadOf(q)) /\ Cardinality(aheadOf(q)) \in Nat
      /\ Cardinality(aheadOf(p)) \in Nat
  BY <1>6, PlayersAreCountable
<1>8. Cardinality(aheadOf(p)) <= Cardinality(aheadOf(q))
  BY <1>5, <1>7, FS_Subset
<1>9. PlanSize \in Int
  BY PlanTypes DEF TypeInv
<1>10. Cardinality(aheadOf(q)) < 2 * PlanSize /\ ~(Cardinality(aheadOf(p)) < 2 * PlanSize)
  BY <1>3 DEF Playing
<1>. QED  BY <1>7, <1>8, <1>9, <1>10

(* Only startRound begins a round.                                         *)
LEMMA RoundsBegin ==
  ASSUME TypeInv, [Next]_vars, roundId' = roundId + 1
  PROVE  StartRound
<1>1. roundId \in Nat
  BY DEF TypeInv, TypeOK
<1>2. CASE UNCHANGED roundId
  BY <1>1, <1>2
<1>3. ASSUME NEW s \in Sessions, Connection(s) PROVE UNCHANGED roundId
  BY <1>3 DEF Connection, JoinNew, Rejoin, OnDrop, OnReconnect, OnLeave, roomVars
<1>4. ASSUME NEW s \in Sessions, Message(s) PROVE StartRound \/ UNCHANGED roundId
  BY <1>4 DEF Message, Flood, Start, Loaded, SetTeam, SetReady, SetBots, SetOptions,
              ChangeSlot, Vote, roomVars
<1>. QED  BY <1>2, <1>3, <1>4 DEF Next, FixedStep, Shutdown, Dispose, BanEnds, Gone,
          vars, roomVars

-----------------------------------------------------------------------------
(*                        When the hosting moves                           *)

(* promoteHostIfNeeded is the only way the hosting leaves somebody.        *)
LEMMA HostingMoves ==
  ASSUME TypeInv, TypeInv', [Next]_vars
  PROVE  HostMoves
<1>1. /\ players' \in Table /\ hostPlayerId \in PlayerIds \cup {NoPlayer}
  BY DEF TypeInv, TypeOK
<1>2. CASE UNCHANGED hostPlayerId
  BY <1>2 DEF HostMoves
<1>3. CASE hostPlayerId' = Promoted(players', hostPlayerId)
  BY <1>1, <1>3, PromotedChooses DEF HostMoves
<1>4. CASE hostPlayerId = NoPlayer
  BY <1>4 DEF HostMoves, CanHost
<1>5. ASSUME NEW s \in Sessions, Connection(s) PROVE HostMoves
  <2>1. ASSUME NEW u \in Users, JoinNew(s, u) PROVE HostMoves
    BY <1>2, <1>4, <2>1 DEF JoinNew
  <2>2. ASSUME NEW u \in Users, Rejoin(s, u) PROVE HostMoves
    BY <1>3, <2>2 DEF Rejoin
  <2>3. CASE OnDrop(s) \/ OnReconnect(s)
    BY <1>2, <2>3 DEF OnDrop, OnReconnect
  <2>4. CASE OnLeave(s)
    BY <1>2, <1>3, <2>4 DEF OnLeave, LeaveReplaced, LeaveUnknown, LeaveToBot, LeaveRoom
  <2>. QED  BY <1>5, <2>1, <2>2, <2>3, <2>4 DEF Connection
<1>6. ASSUME NEW s \in Sessions, Message(s) PROVE HostMoves
  <2>1. ASSUME NEW choice \in {"rematch", "lobby"}, Vote(s, choice) PROVE HostMoves
    BY <1>2, <1>3, <2>1 DEF Vote, ReturnToLobby
  <2>2. ASSUME ~\E choice \in {"rematch", "lobby"} : Vote(s, choice) PROVE HostMoves
    BY <1>2, <1>6, <2>2 DEF Message, Flood, Start, Loaded, SetTeam, SetReady, SetBots,
                            SetOptions, ChangeSlot, slotVars
  <2>. QED  BY <2>1, <2>2
<1>7. CASE FixedStep
  BY <1>2, <1>3, <1>7 DEF FixedStep, LoadingStep, CountdownStep, RunningStep,
     RoundFinished, FinishingStep, ResultsStep, ReturnToLobby
<1>8. CASE Shutdown \/ Dispose \/ (\E u \in Users : BanEnds(u)) \/ UNCHANGED vars
  BY <1>2, <1>8 DEF Shutdown, Dispose, BanEnds, slotVars, vars
<1>. QED  BY <1>5, <1>6, <1>7, <1>8 DEF Next, Gone

-----------------------------------------------------------------------------
(* The empty room has no round.                                            *)
LEMMA InitRound == Init => RoundInv
<1>. SUFFICES ASSUME Init PROVE RoundInv
  OBVIOUS
<1>1. Stages /\ RosterInv
  BY DEF Init, Stages, RosterInv, RosterAgrees, DriverMatchesConnection
<1>2. EverybodyTold
  BY DEF Init, EverybodyTold, RoundVisible
<1>3. Written
  BY DEF Init, Written, ResultsOnce
<1>. QED  BY <1>1, <1>2, <1>3 DEF RoundInv

(* Every step keeps the round in order and its roster as it was.           *)
LEMMA NextRound ==
  ASSUME TypeInv, SlotsInv, RoundInv, [Next]_vars
  PROVE  RoundInv' /\ RosterKept
<1>. USE DEF RoundInv
<1>1. CASE UNCHANGED vars
  <2>1. RosterInv' /\ RosterKept
    BY <1>1, NothingChanges DEF vars, roomVars, slotVars, simVars
  <2>2. Stages' /\ Written'
    BY <1>1 DEF vars, roomVars, simVars, netVars, Stages, Written, ResultsOnce
  <2>3. EverybodyTold'
    BY <1>1, ToldStays DEF vars, roomVars, slotVars, simVars, netVars, RoundVisible
  <2>. QED  BY <2>1, <2>2, <2>3
<1>2. ASSUME NEW s \in Sessions, Connection(s) PROVE RoundInv' /\ RosterKept
  <2>1. RosterInv' /\ RosterKept
    BY <1>2, JoinsKeepRoster, DropsKeepRoster, LeavesKeepRoster DEF Connection
  <2>. QED  BY <1>2, <2>1, OthersKeepStages, ConnectionsKeepTold
<1>3. ASSUME NEW s \in Sessions, Message(s) PROVE RoundInv' /\ RosterKept
  BY <1>3, MessagesKeepRoster, OthersKeepStages, MessagesKeepTold
<1>4. CASE FixedStep
  BY <1>4, OtherStepsKeepRoster, TicksKeepStages, OthersKeepTold
<1>5. CASE Dispose
  BY <1>5, OtherStepsKeepRoster, DisposalKeepsStages, OthersKeepTold
<1>6. CASE Shutdown \/ \E u \in Users : BanEnds(u)
  BY <1>6, OtherStepsKeepRoster, OthersKeepStages, OthersKeepTold
<1>. QED  BY <1>1, <1>2, <1>3, <1>4, <1>5, <1>6 DEF Next, Gone

(* Slots and rounds are in order at all times.                             *)
THEOREM RoundsCorrect == Spec => [](TypeInv /\ SlotsInv /\ RoundInv)
<1>1. Init => TypeInv /\ SlotsInv /\ RoundInv
  BY InitTypes, InitSlots, InitRound
<1>2. TypeInv /\ SlotsInv /\ RoundInv /\ [Next]_vars => (TypeInv /\ SlotsInv /\ RoundInv)'
  BY NextTypes, NextSlots, NextRound
<1>. QED  BY <1>1, <1>2, PTL DEF Spec

(* From the loading to its end a round simulates exactly the slots that    *)
(* are marked inRound, whoever comes and goes.                             *)
THEOREM RosterHolds == Spec => []RosterIsTable
<1>1. TypeInv /\ SlotsInv /\ RoundInv => RosterIsTable
  <2>. SUFFICES ASSUME RoundInv PROVE RosterIsTable
    OBVIOUS
  <2>1. sim = "none" <=> phase = "lobby" \/ room = "disposed"
    BY DEF RoundInv, Stages
  <2>2. sim # "none" /\ phase \in ActivePhases => roster = {p \in Slots : players[p].inRound}
    BY DEF RoundInv, RosterInv, RosterAgrees
  <2>. QED  BY <2>1, <2>2 DEF RosterIsTable, RoundInv, RosterInv, RosterAgrees
<1>. QED  BY <1>1, RoundsCorrect, PTL

(* A simulated slot is suspended exactly in its reconnection window and    *)
(* driven by a bot exactly when the window is over.                        *)
THEOREM DriversHold == Spec => []DriverMatchesConnection
<1>1. TypeInv /\ SlotsInv /\ RoundInv => DriverMatchesConnection
  BY DEF RoundInv, RosterInv
<1>. QED  BY <1>1, RoundsCorrect, PTL

(* Every connection that speaks for a slot was told of the round on.       *)
THEOREM TellingHolds == Spec => []EverybodyTold
<1>1. TypeInv /\ SlotsInv /\ RoundInv => EverybodyTold
  BY DEF RoundInv
<1>. QED  BY <1>1, RoundsCorrect, PTL

(* The sink gets at most one result of a round, in the order of the        *)
(* rounds, and one of each round that ended or was cut while played.       *)
THEOREM ResultsHold == Spec => []ResultsOnce
<1>1. TypeInv /\ SlotsInv /\ RoundInv => ResultsOnce
  BY DEF RoundInv, Written
<1>. QED  BY <1>1, RoundsCorrect, PTL

(* No step of a round changes who is simulated, their team or their user.  *)
THEOREM RosterStays == Spec => RosterIsFrozen
<1>1. TypeInv /\ SlotsInv /\ RoundInv /\ [Next]_vars => RosterKept
  BY NextRound
<1>. QED  BY <1>1, RoundsCorrect, PTL DEF Spec, RosterIsFrozen

(* The hosting moves only when the host can no longer host.                *)
THEOREM HostingStays == Spec => HostIsStable
<1>1. TypeInv /\ TypeInv' /\ [Next]_vars => HostMoves
  BY HostingMoves
<1>. QED  BY <1>1, TypeCorrect, PTL DEF Spec, HostIsStable, HostMoves

(* When a round starts, nobody connected stays out while somebody who has  *)
(* waited less plays.                                                      *)
THEOREM BenchIsFair == Spec => BenchTakesTurns
<1>1. TypeInv /\ [Next]_vars => LongestWaitFirst
  <2>. SUFFICES ASSUME TypeInv, [Next]_vars, roundId' = roundId + 1,
                       NEW p \in Connected(players), NEW q \in Connected(players),
                       p \notin roster', q \in roster'
                PROVE  players[p].sitOuts <= players[q].sitOuts
    BY DEF LongestWaitFirst
  <2>1. roster' = Playing(Candidates, PlanSize)
    BY RoundsBegin DEF StartRound
  <2>. QED  BY <2>1, LeftOutWaitedLess
<1>. QED  BY <1>1, TypeCorrect, PTL DEF Spec, BenchTakesTurns
-----------------------------------------------------------------------------
(*                             Equal teams                                 *)

(* The room hands people and their teams to the plan.                      *)
LEMMA CandidatesAre ==
  ASSUME TypeOK
  PROVE  /\ DOMAIN Candidates = Connected(players) /\ Candidacy(Candidates)
         /\ Cardinality(Connected(players)) \in Nat
<1>1. Connected(players) \in SUBSET PlayerIds /\ PlayerIds \subseteq Int
  BY DEF Connected, PlayerIds
<1>2. IsFiniteSet(Connected(players)) /\ Cardinality(Connected(players)) \in Nat
  BY <1>1, PlayersAreCountable
<1>3. ASSUME NEW p \in Connected(players)
      PROVE  players[p].team \in Teams /\ players[p].sitOuts \in Int
  <2>1. p \in PlayerIds /\ players[p].connection # "vacant" /\ players \in Table
    BY DEF Connected, TypeOK
  <2>2. players[p] \in RoomPlayer
    BY <2>1, TableEntries
  <2>. QED  BY <2>2 DEF RoomPlayer
<1>4. DOMAIN Candidates = Connected(players)
  BY DEF Candidates
<1>5. \A p \in Connected(players) : Candidates[p].team \in Teams /\ Candidates[p].sitOuts \in Int
  BY <1>3 DEF Candidates
<1>. QED  BY <1>1, <1>2, <1>4, <1>5 DEF Candidacy

\* the members of a team in the round, without its bots
Members(t) == {p \in roster : players[p].team = t}
Balance ==
  phase \in ActivePhases =>
    /\ \A t \in Teams : Cardinality(Members(t)) \in Nat /\ bots[t] \in Nat
    /\ Cardinality(Members(0)) + bots[0] = Cardinality(Members(1)) + bots[1]
    /\ Cardinality(Members(0)) + bots[0] \in 1..MaxTeamSize

(* Whoever plays is seated in the team of the plan.                        *)
LEMMA SeatsAreTaken ==
  ASSUME StartRound, NEW p \in PlayerIds, players[p].connection = "connected",
         p \in Playing(Candidates, PlanSize)
  PROVE  players'[p] = Seated(players[p], TeamOf(Candidates, PlanSize, p))
<1>1. players'[p] =
        IF players[p].connection \in {"vacant", "replaced_by_bot"} THEN Vacant
        ELSE IF p \in Playing(Candidates, PlanSize)
        THEN Seated(players[p], TeamOf(Candidates, PlanSize, p))
        ELSE Benched(players[p])
  BY DEF StartRound, Seated, Benched
<1>. QED  BY <1>1

(* A round begins with the teams of its plan.                              *)
LEMMA StartsBalanced ==
  ASSUME TypeOK, StartRound, ~ PlanBlocked
  PROVE  Balance'
<1>. DEFINE c == Candidates
            size == PlanSize
            playing == Playing(c, size)
<1>1. /\ DOMAIN c = Connected(players) /\ Candidacy(c)
      /\ formation \in Nat /\ fillWithBots \in BOOLEAN /\ MaxTeamSize \in Nat \ {0}
  BY CandidatesAre, LimitsAreNat DEF TypeOK
<1>2. size = TeamSizeFor(Cardinality(DOMAIN c), formation, fillWithBots, MaxTeamSize)
  BY <1>1 DEF PlanSize
<1>3. ~ Blocked(c, size)
  BY DEF PlanBlocked
<1>4. Fair(c, size, fillWithBots) /\ size \in 1..MaxTeamSize
  <2>. HIDE DEF c, size
  <2>. QED  BY <1>1, <1>2, <1>3, PlansAreFair
<1>5. /\ roster' = playing /\ playing \subseteq Connected(players)
      /\ bots' = [t \in Teams |-> BotsIn(c, size, fillWithBots, t)]
  <2>1. Playing(Candidates, PlanSize) \subseteq Connected(players)
    BY PlanTypes
  <2>2. roster' = playing
    BY DEF StartRound
  <2>3. bots' = [t \in Teams |-> BotsIn(c, size, fillWithBots, t)]
    BY Zenon DEF StartRound
  <2>. QED  BY <2>1, <2>2, <2>3
<1>6. ASSUME NEW p \in playing PROVE players'[p].team = TeamOf(c, size, p)
  <2>1. p \in PlayerIds /\ players[p].connection = "connected"
    BY <1>5 DEF Connected
  <2>2. players[p] \in RoomPlayer
    BY <2>1, TableEntries DEF TypeOK
  <2>4. players'[p] = Seated(players[p], TeamOf(c, size, p))
    BY <2>1, SeatsAreTaken
  <2>5. \A t : Seated(players[p], t).team = t
    BY <2>2 DEF Seated, RoomPlayer
  <2>. QED  BY <2>4, <2>5
<1>7. \A t \in Teams : Members(t)' = {p \in playing : TeamOf(c, size, p) = t}
  BY <1>5, <1>6 DEF Members
<1>8. \A t \in Teams : Cardinality(Members(t)') = HumansIn(c, size, t)
  BY <1>7 DEF HumansIn
<1>. HIDE DEF c, size
<1>9. \A t \in Teams : /\ Cardinality(Members(t)') \in Nat /\ bots'[t] \in Nat
                       /\ Cardinality(Members(t)') + bots'[t] = size
  BY <1>4, <1>5, <1>8 DEF Fair
<1>10. 0 \in Teams /\ 1 \in Teams
  BY DEF Teams
<1>. QED  BY <1>4, <1>9, <1>10 DEF Balance

(* Between its start and its end nothing touches the bots of a round.      *)
LEMMA BotsStay ==
  ASSUME TypeInv, [Next]_vars
  PROVE  \/ (StartRound /\ ~ PlanBlocked)
         \/ phase' \notin ActivePhases
         \/ (phase \in ActivePhases /\ UNCHANGED <<roundId, bots>>)
<1>. DEFINE Stays == phase \in ActivePhases /\ UNCHANGED <<roundId, bots>>
            Idle == phase' \notin ActivePhases
<1>1. CASE UNCHANGED <<phase, roundId, bots>>
  BY <1>1
<1>2. ASSUME NEW s \in Sessions, Connection(s) PROVE UNCHANGED <<phase, roundId, bots>>
  BY <1>2 DEF Connection, JoinNew, Rejoin, OnDrop, OnReconnect, OnLeave, LeaveReplaced,
              LeaveUnknown, LeaveToBot, LeaveRoom, roomVars, simVars
<1>3. ASSUME NEW s \in Sessions, Message(s)
      PROVE  (StartRound /\ ~ PlanBlocked) \/ Idle \/ UNCHANGED <<phase, roundId, bots>>
  <2>1. ASSUME NEW choice \in {"rematch", "lobby"}, Vote(s, choice)
        PROVE  (StartRound /\ ~ PlanBlocked) \/ Idle \/ UNCHANGED <<phase, roundId, bots>>
    <3>1. CASE phase' = "lobby"
      BY <3>1 DEF ActivePhases
    <3>2. CASE StartRound /\ ~ PlanBlocked
      BY <3>2
    <3>3. CASE UNCHANGED <<phase, roundId, bots>>
      BY <3>3
    <3>. QED  BY <2>1, <3>1, <3>2, <3>3 DEF Vote, ReturnToLobby, simVars
  <2>2. CASE Start(s)
    BY <2>2 DEF Start
  <2>3. CASE Flood(s) \/ Loaded(s)
    BY <2>3 DEF Flood, Loaded, ChangeSlot, roomVars, simVars
  <2>4. ASSUME NEW t \in TeamRequests, SetTeam(s, t) PROVE UNCHANGED <<phase, roundId, bots>>
    BY <2>4 DEF SetTeam, ChangeSlot, roomVars, simVars
  <2>5. ASSUME NEW ready \in ReadyRequests, SetReady(s, ready)
        PROVE  UNCHANGED <<phase, roundId, bots>>
    BY <2>5 DEF SetReady, ChangeSlot, roomVars, simVars
  <2>6. ASSUME NEW enabled \in BotRequests, SetBots(s, enabled)
        PROVE  UNCHANGED <<phase, roundId, bots>>
    BY <2>6 DEF SetBots, roomVars, simVars
  <2>7. ASSUME NEW option \in Options, SetOptions(s, option)
        PROVE  UNCHANGED <<phase, roundId, bots>>
    BY <2>7 DEF SetOptions, roomVars, simVars
  <2>. QED  BY <1>3, <2>1, <2>2, <2>3, <2>4, <2>5, <2>6, <2>7 DEF Message
<1>4. ASSUME FixedStep
      PROVE  (phase \in ActivePhases /\ UNCHANGED <<roundId, bots>>)
             \/ phase' \notin ActivePhases
  <2>1. UNCHANGED roundId
    BY <1>4 DEF FixedStep
  <2>2. CASE ResultsStep
    <3>1. phase' = "lobby" \/ phase' = "results"
      BY <2>2 DEF ResultsStep, ReturnToLobby
    <3>. QED  BY <3>1 DEF ActivePhases
  <2>3. CASE LoadingStep \/ CountdownStep \/ RunningStep
    BY <2>1, <2>3 DEF LoadingStep, CountdownStep, RunningStep, ActivePhases
  <2>4. CASE RoundFinished \/ FinishingStep
    BY <2>1, <2>4 DEF RoundFinished, FinishingStep, ActivePhases
  <2>. QED  BY <1>4, <2>2, <2>3, <2>4 DEF FixedStep
<1>5. CASE Shutdown \/ Dispose \/ (\E u \in Users : BanEnds(u)) \/ UNCHANGED vars
  BY <1>5 DEF Shutdown, Dispose, BanEnds, vars, roomVars, simVars
<1>. QED  BY <1>1, <1>2, <1>3, <1>4, <1>5 DEF Next, Gone

(* Every step keeps the teams equal.                                       *)
LEMMA NextBalance ==
  ASSUME TypeInv, Balance, RosterKept, [Next]_vars
  PROVE  Balance'
<1>1. CASE StartRound /\ ~ PlanBlocked
  BY <1>1, StartsBalanced DEF TypeInv
<1>2. CASE phase' \notin ActivePhases
  BY <1>2 DEF Balance
<1>3. CASE phase \in ActivePhases /\ UNCHANGED <<roundId, bots>> /\ phase' \in ActivePhases
  <2>1. \A t : Members(t)' = Members(t)
    BY <1>3 DEF RosterKept, Members
  <2>. QED  BY <1>3, <2>1 DEF Balance
<1>. QED  BY <1>1, <1>2, <1>3, BotsStay

(* Every round is played by two equal teams, bots included, of at most     *)
(* MaxTeamSize members, from its start to its end.                         *)
THEOREM TeamsAreBalanced == Spec => []BalancedTeams
<1>1. Init => Balance
  BY DEF Init, Balance, ActivePhases
<1>2. TypeInv /\ SlotsInv /\ RoundInv /\ [Next]_vars => RosterKept
  BY NextRound
<1>3. TypeInv /\ Balance /\ RosterKept /\ [Next]_vars => Balance'
  BY NextBalance
<1>4. Balance => BalancedTeams
  <2>1. 0 \in Teams /\ 1 \in Teams
    BY DEF Teams
  <2>2. ASSUME Balance, phase \in ActivePhases
        PROVE  /\ Cardinality(Members(0)) + bots[0] = Cardinality(Members(1)) + bots[1]
               /\ Cardinality(Members(0)) + bots[0] \in 1..MaxTeamSize
               /\ bots[0] >= 0 /\ bots[1] >= 0
    BY <2>1, <2>2 DEF Balance
  <2>. QED  BY <2>2 DEF BalancedTeams, Members
<1>. QED  BY <1>1, <1>2, <1>3, <1>4, RoundsCorrect, PTL DEF Spec

-----------------------------------------------------------------------------
(*                 The room as its people know it                          *)

(* A table in which everybody has one entry at most.                       *)
OneEach(ps) ==
  \A p, q \in PlayerIds : ps[p].user \in Users /\ ps[p].user = ps[q].user => p = q

(* Such are the tables of the room.                                        *)
LEMMA TablesHaveOneEach ==
  ASSUME NEW ps \in Table, \A p, q \in Present(ps) : ps[p].user = ps[q].user => p = q
  PROVE  OneEach(ps)
<1>. SUFFICES ASSUME NEW p \in PlayerIds, NEW q \in PlayerIds,
                     ps[p].user \in Users, ps[p].user = ps[q].user
              PROVE  p = q
  BY DEF OneEach
<1>1. ps[p] # Vacant /\ ps[q] # Vacant
  BY NoUserIsNobody DEF Vacant
<1>2. p \in Present(ps) /\ q \in Present(ps)
  BY <1>1, TableEntries DEF Present
<1>. QED  BY <1>2

(* The entry of somebody is the one that names the user.                   *)
LEMMA EntryIsOwn ==
  ASSUME NEW ps, OneEach(ps), NEW u \in Users
  PROVE  /\ \A p \in PlayerIds : ps[p].user = u => EntryIn(ps, u) = ps[p]
         /\ (\A p \in PlayerIds : ps[p].user # u) => EntryIn(ps, u) = Vacant
<1>1. ASSUME NEW p \in PlayerIds, ps[p].user = u PROVE EntryIn(ps, u) = ps[p]
  <2>. DEFINE q == CHOOSE r \in PlayerIds : ps[r].user = u
  <2>1. q \in PlayerIds /\ ps[q].user = u
    BY <1>1
  <2>2. EntryIn(ps, u) = ps[q]
    BY <1>1 DEF EntryIn
  <2>. HIDE DEF q
  <2>. QED  BY <1>1, <2>1, <2>2 DEF OneEach
<1>. QED  BY <1>1 DEF EntryIn

(* A step that changes one entry of the table changes one place.           *)
LEMMA OneEntryChanges ==
  ASSUME NEW ps, NEW qs, OneEach(ps), OneEach(qs), NEW p \in PlayerIds, NEW u \in Users,
         \A q \in PlayerIds \ {p} : qs[q] = ps[q],
         ps[p].user \in {u, NoUser}, qs[p].user \in {u, NoUser},
         ps[p].user = u \/ qs[p].user = u
  PROVE  /\ EntryIn(qs, u) = IF qs[p].user = u THEN qs[p] ELSE Vacant
         /\ \A v \in Users \ {u} : EntryIn(qs, v) = EntryIn(ps, v)
<1>1. ASSUME qs[p].user = u PROVE EntryIn(qs, u) = qs[p]
  BY <1>1, EntryIsOwn
<1>2. ASSUME qs[p].user # u PROVE EntryIn(qs, u) = Vacant
  <2>1. ps[p].user = u
    BY <1>2
  <2>2. ASSUME NEW q \in PlayerIds PROVE qs[q].user # u
    <3>1. CASE q = p
      BY <1>2, <3>1
    <3>2. CASE q # p
      <4>1. ps[q].user # u
        BY <2>1, <3>2 DEF OneEach
      <4>. QED  BY <3>2, <4>1
    <3>. QED  BY <3>1, <3>2
  <2>. QED  BY <2>2, EntryIsOwn
<1>3. ASSUME NEW v \in Users \ {u} PROVE EntryIn(qs, v) = EntryIn(ps, v)
  <2>1. ps[p].user # v /\ qs[p].user # v
    BY NoUserIsNobody
  <2>2. CASE \E q \in PlayerIds : ps[q].user = v
    <3>1. PICK q \in PlayerIds : ps[q].user = v
      BY <2>2
    <3>2. q # p /\ qs[q] = ps[q]
      BY <2>1, <3>1
    <3>. QED  BY <3>1, <3>2, EntryIsOwn
  <2>3. CASE \A q \in PlayerIds : ps[q].user # v
    <3>1. \A q \in PlayerIds : qs[q].user # v
      BY <2>1, <2>3
    <3>. QED  BY <2>3, <3>1, EntryIsOwn
  <2>. QED  BY <2>2, <2>3
<1>. QED  BY <1>1, <1>2, <1>3

(* What the room knows of its people.                                      *)
LEMMA MemberFacts ==
  ASSUME TypeInv, SlotsInv
  PROVE  /\ OneEach(players)
         /\ \A p \in Slots : /\ players[p] \in RoomPlayer /\ players[p].user \in Users
                             /\ PlaceOf[players[p].user] = players[p].connection
                             /\ VoiceOf[players[p].user] = players[p].session
         /\ \A u \in Users : PlaceOf[u] # "vacant" \/ VoiceOf[u] # NoSession =>
                               \E p \in Slots : players[p].user = u
         /\ \A p \in PlayerIds : p \notin Slots => players[p] = Vacant
<1>1. players \in Table
  BY DEF TypeInv, TypeOK
<1>2. OneEach(players)
  <2>1. \A p, q \in Present(players) : players[p].user = players[q].user => p = q
    BY DEF SlotsInv, OneSlotPerUser, Slots
  <2>. QED  BY <1>1, <2>1, TablesHaveOneEach
<1>3. \A p \in PlayerIds : p \notin Slots => players[p] = Vacant
  BY SlotFacts
<1>4. ASSUME NEW p \in Slots
      PROVE  /\ players[p] \in RoomPlayer /\ players[p].user \in Users
             /\ EntryIn(players, players[p].user) = players[p]
  <2>1. p \in PlayerIds /\ players[p].connection # "vacant"
    BY DEF Slots, Present
  <2>2. players[p] \in RoomPlayer
    BY <1>1, <2>1, TableEntries
  <2>3. players[p].user \in Users
    BY <2>2 DEF RoomPlayer
  <2>. QED  BY <1>2, <2>1, <2>2, <2>3, EntryIsOwn
<1>5. ASSUME NEW u \in Users, ~ \E p \in Slots : players[p].user = u
      PROVE  EntryIn(players, u) = Vacant
  <2>1. \A p \in PlayerIds : players[p].user # u
    BY <1>3, <1>5, NoUserIsNobody DEF Vacant
  <2>. QED  BY <1>2, <2>1, EntryIsOwn
<1>6. ASSUME NEW p \in Slots
      PROVE  /\ PlaceOf[players[p].user] = players[p].connection
             /\ VoiceOf[players[p].user] = players[p].session
  BY <1>4 DEF PlaceOf, VoiceOf
<1>7. ASSUME NEW u \in Users, PlaceOf[u] # "vacant" \/ VoiceOf[u] # NoSession
      PROVE  \E p \in Slots : players[p].user = u
  <2>1. EntryIn(players, u) # Vacant
    BY <1>7 DEF PlaceOf, VoiceOf, Vacant
  <2>. QED  BY <1>5, <2>1
<1>. QED  BY <1>2, <1>3, <1>4, <1>6, <1>7

(* The host as the people know it.                                         *)
LEMMA HostIsMember ==
  ASSUME TypeInv, SlotsInv
  PROVE  /\ (HostUser = NoUser) <=> (hostPlayerId = NoPlayer)
         /\ hostPlayerId # NoPlayer => /\ hostPlayerId \in Slots
                                       /\ players[hostPlayerId].session # NoSession
                                       /\ HostUser = players[hostPlayerId].user
         /\ hostPlayerId = NoPlayer => \A p \in Slots : players[p].session = NoSession
<1>1. hostPlayerId \in PlayerIds \cup {NoPlayer} /\ NoPlayer \notin PlayerIds
  BY DEF TypeInv, TypeOK, NoPlayer, PlayerIds
<1>2. /\ hostPlayerId # NoPlayer => CanHost(players, hostPlayerId)
      /\ hostPlayerId = NoPlayer => \A p \in Slots : players[p].session = NoSession
  BY DEF SlotsInv, HostIsLive, CanHost
<1>3. hostPlayerId # NoPlayer => /\ hostPlayerId \in Slots
                                 /\ players[hostPlayerId].session # NoSession
  BY <1>1, <1>2 DEF CanHost, Slots, Present
<1>4. \A p \in Slots : players[p].user # NoUser
  BY MemberFacts, NoUserIsNobody
<1>. QED  BY <1>2, <1>3, <1>4 DEF HostUser

(* The membership counts as the room does.                                 *)
LEMMA CountsAreSame == \A S : M!Cardinality(S) = Cardinality(S)
BY DEF M!Cardinality, Cardinality

(* As many people are members as have a place that no bot keeps.           *)
LEMMA MembersAreSeated ==
  ASSUME TypeInv, SlotsInv
  PROVE  Cardinality(M!Members) = Cardinality(PeopleSeated)
<1>. DEFINE f == [p \in PeopleSeated |-> players[p].user]
<1>1. IsFiniteSet(PeopleSeated)
  BY PlayersAreCountable DEF PeopleSeated, Slots, Present
<1>2. \A p \in Slots : players[p].session = NoSession <=> players[p].connection = "replaced_by_bot"
  <2>. SUFFICES ASSUME NEW p \in Slots
                PROVE  players[p].session = NoSession <=> players[p].connection = "replaced_by_bot"
    OBVIOUS
  <2>1. players[p] \in RoomPlayer
    BY MemberFacts
  <2>. QED  BY <2>1 DEF SlotsInv, ConnectionIsReal, RoomPlayer
<1>3. \A p \in PeopleSeated : f[p] \in M!Members
  <2>. SUFFICES ASSUME NEW p \in PeopleSeated PROVE f[p] \in M!Members
    OBVIOUS
  <2>1. p \in Slots /\ players[p].session # NoSession
    BY <1>2 DEF PeopleSeated
  <2>. QED  BY <2>1, MemberFacts DEF M!Members
<1>4. \A u \in M!Members : \E p \in PeopleSeated : f[p] = u
  <2>. SUFFICES ASSUME NEW u \in M!Members PROVE \E p \in PeopleSeated : f[p] = u
    OBVIOUS
  <2>1. u \in Users /\ VoiceOf[u] # NoSession
    BY DEF M!Members
  <2>2. PICK p \in Slots : players[p].user = u
    BY <2>1, MemberFacts
  <2>3. players[p].session # NoSession
    BY <2>1, <2>2, MemberFacts
  <2>. QED  BY <1>2, <2>2, <2>3 DEF PeopleSeated
<1>5. \A p, q \in PeopleSeated : f[p] = f[q] => p = q
  BY DEF SlotsInv, OneSlotPerUser, PeopleSeated
<1>6. f \in Bijection(PeopleSeated, M!Members)
  <2>1. f \in [PeopleSeated -> M!Members]
    BY <1>3
  <2>. HIDE DEF f
  <2>. QED  BY <1>4, <1>5, <2>1 DEF Bijection, Injection, IsInjective, Surjection
<1>. HIDE DEF f
<1>. QED  BY <1>1, <1>6, FS_Bijection DEF ExistsBijection
-----------------------------------------------------------------------------
\* both states are those of a room
RoomInv == TypeInv /\ SlotsInv

(* A handler that changes one entry changes the place of one person.       *)
LEMMA OnePlaceChanges ==
  ASSUME RoomInv, RoomInv', NEW p \in PlayerIds, NEW u \in Users,
         \A q \in PlayerIds \ {p} : players'[q] = players[q],
         players[p].user \in {u, NoUser}, players'[p].user \in {u, NoUser},
         players[p].user = u \/ players'[p].user = u
  PROVE  /\ PlaceOf' = [PlaceOf EXCEPT ![u] = players'[p].connection]
         /\ VoiceOf' = [VoiceOf EXCEPT ![u] = players'[p].session]
<1>1. players \in Table /\ players' \in Table
  BY DEF RoomInv, TypeInv, TypeOK
<1>2. OneEach(players) /\ OneEach(players')
  <2>1. /\ \A q, r \in Present(players) : players[q].user = players[r].user => q = r
        /\ \A q, r \in Present(players') : players'[q].user = players'[r].user => q = r
    BY DEF RoomInv, SlotsInv, OneSlotPerUser, Slots
  <2>. QED  BY <1>1, <2>1, TablesHaveOneEach
<1>3. players'[p].user # u => players'[p] = Vacant
  BY <1>1, TableEntries, NoUserIsNobody DEF RoomPlayer
<1>4. /\ EntryIn(players', u) = players'[p]
      /\ \A v \in Users \ {u} : EntryIn(players', v) = EntryIn(players, v)
  BY <1>2, <1>3, OneEntryChanges
<1>. QED  BY <1>4 DEF PlaceOf, VoiceOf

(* A step that keeps users, connections and sessions keeps the places, and *)
(* one that forgets what bots keep gives up just those.                    *)
LEMMA PlacesStay ==
  ASSUME RoomInv, RoomInv', NEW all \in BOOLEAN,
         \A p \in PlayerIds :
           IF all /\ players[p].connection = "replaced_by_bot"
           THEN players'[p] = Vacant ELSE SameWho(p)
  PROVE  /\ PlaceOf' = [u \in Users |-> IF all /\ PlaceOf[u] = "replaced_by_bot"
                                        THEN "vacant" ELSE PlaceOf[u]]
         /\ VoiceOf' = VoiceOf
<1>1. players \in Table /\ players' \in Table
  BY DEF RoomInv, TypeInv, TypeOK
<1>2. OneEach(players) /\ OneEach(players')
  <2>1. /\ \A q, r \in Present(players) : players[q].user = players[r].user => q = r
        /\ \A q, r \in Present(players') : players'[q].user = players'[r].user => q = r
    BY DEF RoomInv, SlotsInv, OneSlotPerUser, Slots
  <2>. QED  BY <1>1, <2>1, TablesHaveOneEach
<1>3. \A p \in PlayerIds : players[p].connection = "replaced_by_bot" => players[p].session = NoSession
  BY DEF RoomInv, SlotsInv, ConnectionIsReal, Slots, Present
<1>4. ASSUME NEW u \in Users
      PROVE  /\ EntryIn(players', u).session = EntryIn(players, u).session
             /\ EntryIn(players', u).connection =
                  IF all /\ EntryIn(players, u).connection = "replaced_by_bot"
                  THEN "vacant" ELSE EntryIn(players, u).connection
  <2>1. CASE \E p \in PlayerIds : players[p].user = u
    <3>1. PICK p \in PlayerIds : players[p].user = u
      BY <2>1
    <3>2. EntryIn(players, u) = players[p]
      BY <1>2, <3>1, EntryIsOwn
    <3>3. CASE all /\ players[p].connection = "replaced_by_bot"
      <4>1. players'[p] = Vacant
        BY <3>3
      <4>2. \A q \in PlayerIds : players'[q].user # u
        <5>. SUFFICES ASSUME NEW q \in PlayerIds, players'[q].user = u PROVE FALSE
          OBVIOUS
        <5>1. players'[q] # Vacant /\ q # p
          BY <4>1, NoUserIsNobody DEF Vacant
        <5>2. players[q].user = u
          BY <5>1 DEF SameWho
        <5>. QED  BY <1>2, <3>1, <5>1, <5>2 DEF OneEach
      <4>3. EntryIn(players', u) = Vacant
        BY <1>2, <4>2, EntryIsOwn
      <4>. QED  BY <1>3, <3>2, <3>3, <4>3 DEF Vacant
    <3>4. CASE ~ (all /\ players[p].connection = "replaced_by_bot")
      <4>1. SameWho(p)
        BY <3>4
      <4>2. EntryIn(players', u) = players'[p]
        BY <1>2, <3>1, <4>1, EntryIsOwn DEF SameWho
      <4>. QED  BY <3>2, <3>4, <4>1, <4>2 DEF SameWho
    <3>. QED  BY <3>3, <3>4
  <2>2. CASE \A p \in PlayerIds : players[p].user # u
    <3>1. \A p \in PlayerIds : players'[p].user # u
      BY <2>2, NoUserIsNobody DEF SameWho, Vacant
    <3>2. EntryIn(players, u) = Vacant /\ EntryIn(players', u) = Vacant
      BY <1>2, <2>2, <3>1, EntryIsOwn
    <3>. QED  BY <3>2 DEF Vacant
  <2>. QED  BY <2>1, <2>2
<1>. QED  BY <1>4 DEF PlaceOf, VoiceOf

(* A step that leaves the connections to their slots leaves the hosting.   *)
LEMMA HostUserStays ==
  ASSUME RoomInv, RoomInv', HostMoves,
         \A p \in PlayerIds : /\ players'[p].session = players[p].session
                              /\ players[p].session # NoSession =>
                                   players'[p].user = players[p].user
  PROVE  HostUser' = HostUser
<1>1. players \in Table /\ players' \in Table /\ hostPlayerId \in PlayerIds \cup {NoPlayer}
  BY DEF RoomInv, TypeInv, TypeOK
<1>2. CASE hostPlayerId # NoPlayer
  <2>1. hostPlayerId \in PlayerIds /\ players[hostPlayerId].session # NoSession
    BY <1>1, <1>2, HostIsMember DEF RoomInv
  <2>2. players'[hostPlayerId].session # NoSession
    BY <2>1
  <2>3. hostPlayerId \in Present(players')
    BY <1>1, <2>1, <2>2, TableEntries DEF Present, Vacant
  <2>4. players'[hostPlayerId].connection # "replaced_by_bot"
    BY <2>2, <2>3 DEF RoomInv, SlotsInv, ConnectionIsReal, Slots
  <2>5. CanHost(players', hostPlayerId)
    BY <1>2, <2>2, <2>3, <2>4 DEF CanHost, Present
  <2>6. hostPlayerId' = hostPlayerId
    BY <2>5 DEF HostMoves
  <2>. QED  BY <2>1, <2>6 DEF HostUser
<1>3. CASE hostPlayerId = NoPlayer
  <2>1. \A p \in PlayerIds : players[p].session = NoSession
    BY <1>3, HostIsMember, MemberFacts DEF RoomInv, Vacant
  <2>2. \A p \in Slots' : players'[p].session = NoSession
    BY <2>1 DEF Slots, Present
  <2>3. hostPlayerId' = NoPlayer
    BY <2>2 DEF RoomInv, SlotsInv, HostIsLive
  <2>. QED  BY <1>3, <2>3 DEF HostUser
<1>. QED  BY <1>2, <1>3

-----------------------------------------------------------------------------
(* Somebody enters, in a new slot or the own one.                          *)
LEMMA JoinsEnter ==
  ASSUME RoomInv, RoomInv', NEW s \in Sessions, NEW u \in Users, JoinNew(s, u) \/ Rejoin(s, u)
  PROVE  M!Enters(u, s)
<1>1. /\ players \in Table /\ hostPlayerId \in PlayerIds \cup {NoPlayer}
      /\ net \in [Sessions -> NetStates] /\ nextPlayerId \in Nat \ {0}
  BY DEF RoomInv, TypeInv, TypeOK
<1>2. Admissible(s, u) /\ UNCHANGED <<room, kicked>>
  BY DEF JoinNew, Rejoin, roomVars
<1>3. room = "open" /\ u \notin kicked /\ net[s] = "unused"
  BY <1>2 DEF Admissible
<1>4. u \in Creators \/ \E v \in Users : PlaceOf[v] # "vacant"
  <2>1. CASE Slots # {}
    <3>1. PICK p \in Slots : TRUE
      BY <2>1
    <3>2. players[p].user \in Users /\ PlaceOf[players[p].user] = players[p].connection
      BY MemberFacts DEF RoomInv
    <3>. QED  BY <3>2 DEF Slots, Present
  <2>. QED  BY <1>2, <2>1 DEF Admissible
<1>5. s \notin UsedSessions
  BY <1>3 DEF UsedSessions
<1>6. CASE JoinNew(s, u)
  <2>. DEFINE p == nextPlayerId
  <2>1. p \in PlayerIds /\ SlotsOf(u) = {} /\ Cardinality(PeopleSeated) < MaxRoomHumans
    BY <1>1, <1>6, LimitsAreNat DEF JoinNew, PlayerIds
  <2>2. p \notin Slots
    <3>1. \A q \in Slots : q < p
      BY DEF RoomInv, SlotsInv, FreshIds
    <3>. QED  BY <1>1, <3>1
  <2>3. players[p] = Vacant
    BY <2>1, <2>2, MemberFacts DEF RoomInv
  <2>4. /\ \A q \in PlayerIds \ {p} : players'[q] = players[q]
        /\ players'[p].user = u /\ players'[p].connection = "connected"
        /\ players'[p].session = s
    BY <1>1, <1>6, <2>1 DEF JoinNew, Table
  <2>5. /\ PlaceOf' = [PlaceOf EXCEPT ![u] = "connected"]
        /\ VoiceOf' = [VoiceOf EXCEPT ![u] = s]
    <3>1. players[p].user \in {u, NoUser} /\ players'[p].user \in {u, NoUser}
      BY <2>3, <2>4 DEF Vacant
    <3>. HIDE DEF p
    <3>. QED  BY <2>1, <2>4, <3>1, OnePlaceChanges
  <2>6. M!Cardinality(M!Members) < MaxRoomHumans
    BY <2>1, MembersAreSeated, CountsAreSame DEF RoomInv
  <2>7. UsedSessions' = UsedSessions \cup {s}
    BY <1>1, <1>6 DEF JoinNew, UsedSessions
  <2>8. HostUser' = IF HostUser = NoUser THEN u ELSE HostUser
    <3>1. hostPlayerId' = IF hostPlayerId = NoPlayer THEN p ELSE hostPlayerId
      BY <1>6 DEF JoinNew
    <3>2. CASE hostPlayerId = NoPlayer
      <4>1. HostUser = NoUser /\ hostPlayerId' = p /\ p # NoPlayer
        BY <1>1, <3>1, <3>2, HostIsMember DEF RoomInv, NoPlayer
      <4>. QED  BY <2>4, <4>1 DEF HostUser
    <3>3. CASE hostPlayerId # NoPlayer
      <4>1. HostUser # NoUser /\ hostPlayerId \in Slots /\ hostPlayerId' = hostPlayerId
        BY <3>1, <3>3, HostIsMember DEF RoomInv
      <4>2. players'[hostPlayerId] = players[hostPlayerId]
        BY <2>2, <2>4, <4>1 DEF Slots, Present
      <4>. QED  BY <4>1, <4>2 DEF HostUser
    <3>. QED  BY <3>2, <3>3
  <2>. QED  BY <1>2, <1>3, <1>4, <1>5, <2>5, <2>6, <2>7, <2>8 DEF M!Enters
<1>7. CASE Rejoin(s, u)
  <2>1. PICK p \in SlotsOf(u) :
          LET back == [players EXCEPT ![p] = Returned([@ EXCEPT !.session = s])]
              old == players[p].session
          IN  /\ players' = back
              /\ hostPlayerId' = Promoted(back, hostPlayerId)
              /\ net' = [c \in Sessions |->
                           IF c = s THEN "open"
                           ELSE IF c = old THEN Displaced(net[c]) ELSE net[c]]
    BY <1>7 DEF Rejoin
  <2>2. p \in Slots /\ p \in PlayerIds /\ players[p].user = u /\ players[p] \in RoomPlayer
    BY MemberFacts DEF SlotsOf, RoomInv, Slots, Present
  <2>3. /\ \A q \in PlayerIds \ {p} : players'[q] = players[q]
        /\ players'[p].user = u /\ players'[p].connection = "connected"
        /\ players'[p].session = s
    BY <1>1, <2>1, <2>2 DEF Returned, RoomPlayer, Table
  <2>4. /\ PlaceOf' = [PlaceOf EXCEPT ![u] = "connected"]
        /\ VoiceOf' = [VoiceOf EXCEPT ![u] = s]
    BY <2>2, <2>3, OnePlaceChanges
  <2>5. PlaceOf[u] # "vacant"
    BY <2>2, MemberFacts DEF RoomInv, Slots, Present
  <2>6. UsedSessions' = UsedSessions \cup {s}
    BY <1>1, <2>1 DEF UsedSessions, Displaced
  <2>7. HostUser' = IF HostUser = NoUser THEN u ELSE HostUser
    <3>1. hostPlayerId' = Promoted(players', hostPlayerId) /\ players' \in Table
      BY <2>1 DEF RoomInv, TypeInv, TypeOK
    <3>2. p # NoPlayer /\ s # NoSession
      BY <2>2, NoSessionIsNone DEF PlayerIds, NoPlayer
    <3>3. CASE hostPlayerId = NoPlayer
      <4>1. \A q \in PlayerIds : q # p => players'[q].session = NoSession
        BY <2>3, <3>3, HostIsMember, MemberFacts DEF RoomInv, Vacant
      <4>2. {q \in Present(players') : players'[q].session # NoSession} = {p}
        BY <2>2, <2>3, <3>2, <4>1 DEF Present
      <4>3. ~CanHost(players', hostPlayerId)
        BY <3>3 DEF CanHost
      <4>4. Promoted(players', hostPlayerId) = p
        BY <1>1, <3>1, <4>2, <4>3, PromotedChooses
      <4>5. HostUser = NoUser /\ HostUser' = u
        BY <2>3, <3>1, <3>2, <3>3, <4>4 DEF HostUser
      <4>. QED  BY <4>5
    <3>4. CASE hostPlayerId # NoPlayer
      <4>1. /\ HostUser # NoUser /\ hostPlayerId \in Slots
            /\ players[hostPlayerId].session # NoSession
            /\ players[hostPlayerId].connection # "replaced_by_bot"
        BY <3>4, HostIsMember DEF RoomInv, SlotsInv, ConnectionIsReal
      <4>2. /\ players'[hostPlayerId].user = players[hostPlayerId].user
            /\ players'[hostPlayerId].session # NoSession
            /\ players'[hostPlayerId].connection \notin {"vacant", "replaced_by_bot"}
        <5>1. CASE hostPlayerId = p
          BY <2>2, <2>3, <3>2, <5>1
        <5>2. CASE hostPlayerId # p
          BY <2>3, <4>1, <5>2 DEF Slots, Present
        <5>. QED  BY <5>1, <5>2
      <4>3. CanHost(players', hostPlayerId)
        BY <3>4, <4>2 DEF CanHost
      <4>4. hostPlayerId' = hostPlayerId
        BY <1>1, <3>1, <4>3, PromotedChooses
      <4>. QED  BY <3>4, <4>1, <4>2, <4>4 DEF HostUser
    <3>. QED  BY <3>3, <3>4
  <2>. QED  BY <1>2, <1>3, <1>4, <1>5, <2>4, <2>5, <2>6, <2>7 DEF M!Enters
<1>. QED  BY <1>6, <1>7

(* A connection is lost, or its person is expelled: a place is kept, or    *)
(* nothing changes.                                                        *)
LEMMA DropsLose ==
  ASSUME RoomInv, RoomInv', NEW s \in Sessions, OnDrop(s)
  PROVE  (\E u \in Users : M!Loses(u)) \/ UNCHANGED M!memberVars
<1>1. /\ players \in Table /\ net \in [Sessions -> NetStates]
      /\ room = "open" /\ net[s] \in {"open", "leaving"}
      /\ UNCHANGED <<room, hostPlayerId, kicked>>
  BY DEF OnDrop, RoomInv, TypeInv, TypeOK, roomVars
<1>2. UsedSessions' = UsedSessions
  <2>1. \E st \in {"ending", "dropped"} : net' = [net EXCEPT ![s] = st]
    BY DEF OnDrop, DropReplaced, DropRefused, DropWithWindow
  <2>2. net[s] # "unused" /\ \A c \in Sessions : net'[c] # "unused" <=> net[c] # "unused"
    BY <1>1, <2>1
  <2>. QED  BY <2>2 DEF UsedSessions
<1>3. CASE DropReplaced(s) \/ DropRefused(s)
  <2>1. players' = players
    BY <1>3 DEF DropReplaced, DropRefused
  <2>. QED  BY <1>1, <1>2, <2>1 DEF M!memberVars, PlaceOf, VoiceOf, HostUser
<1>4. CASE DropWithWindow(s)
  <2>. DEFINE p == bySessionId[s]
              u == players[p].user
  <2>1. HasSlot(s) /\ u \notin kicked
        /\ players' = [players EXCEPT ![p] = [@ EXCEPT !.connection = "reconnecting"]]
    BY <1>4 DEF DropWithWindow
  <2>2. p \in Slots /\ p \in PlayerIds /\ players[p] \in RoomPlayer /\ u \in Users
    BY <2>1, MemberFacts DEF HasSlot, RoomInv, Slots, Present
  <2>3. players[p].session = s
    BY <2>1, SlotFacts DEF RoomInv
  <2>4. players[p].connection = "connected"
    BY <1>1, <2>2, <2>3, NoSessionIsNone DEF RoomInv, SlotsInv, ConnectionIsReal, RoomPlayer
  <2>5. /\ \A q \in PlayerIds \ {p} : players'[q] = players[q]
        /\ players'[p].user = u /\ players'[p].connection = "reconnecting"
        /\ players'[p].session = s
    BY <1>1, <2>1, <2>2, <2>3 DEF RoomPlayer, Table
  <2>6. PlaceOf[u] = "connected" /\ VoiceOf[u] = s
    BY <2>2, <2>3, <2>4, MemberFacts DEF RoomInv
  <2>7. PlaceOf' = [PlaceOf EXCEPT ![u] = "reconnecting"] /\ VoiceOf' = [VoiceOf EXCEPT ![u] = s]
    <3>1. players[p].user \in {u, NoUser} /\ players'[p].user \in {u, NoUser}
      BY <2>5
    <3>. HIDE DEF p, u
    <3>. QED  BY <2>2, <2>5, <3>1, OnePlaceChanges
  <2>8. VoiceOf' = VoiceOf
    BY <2>6, <2>7 DEF VoiceOf
  <2>9. HostUser' = HostUser
    BY <1>1, <2>5, HostIsMember DEF HostUser, RoomInv, Slots, Present
  <2>10. M!Loses(u)
    BY <1>1, <1>2, <2>1, <2>6, <2>7, <2>8, <2>9 DEF M!Loses
  <2>. QED  BY <2>2, <2>10
<1>. QED  BY <1>3, <1>4 DEF OnDrop

(* The same connection is back.                                            *)
LEMMA ReturnsRegain ==
  ASSUME RoomInv, RoomInv', NEW s \in Sessions, OnReconnect(s)
  PROVE  \E u \in Users : M!Regains(u)
<1>. DEFINE p == bySessionId[s]
            u == players[p].user
<1>1. /\ players \in Table /\ net \in [Sessions -> NetStates]
      /\ net[s] = "dropped" /\ net' = [net EXCEPT ![s] = "open"] /\ HasSlot(s)
      /\ players' = [players EXCEPT ![p] = Returned(@)]
      /\ UNCHANGED <<room, hostPlayerId, kicked>>
  BY DEF OnReconnect, RoomInv, TypeInv, TypeOK, roomVars
<1>2. UsedSessions' = UsedSessions
  BY <1>1 DEF UsedSessions
<1>3. p \in Slots /\ p \in PlayerIds /\ players[p] \in RoomPlayer /\ u \in Users
  BY <1>1, MemberFacts DEF HasSlot, RoomInv, Slots, Present
<1>4. players[p].session = s
  BY <1>1, SlotFacts DEF RoomInv
<1>5. players[p].connection = "reconnecting"
  BY <1>1, <1>3, <1>4, NoSessionIsNone DEF RoomInv, SlotsInv, ConnectionIsReal, RoomPlayer
<1>6. /\ \A q \in PlayerIds \ {p} : players'[q] = players[q]
      /\ players'[p].user = u /\ players'[p].connection = "connected"
      /\ players'[p].session = s
  BY <1>1, <1>3, <1>4 DEF RoomPlayer, Table, Returned
<1>7. PlaceOf[u] = "reconnecting" /\ VoiceOf[u] = s
  BY <1>3, <1>4, <1>5, MemberFacts DEF RoomInv
<1>8. PlaceOf' = [PlaceOf EXCEPT ![u] = "connected"] /\ VoiceOf' = [VoiceOf EXCEPT ![u] = s]
  <2>1. players[p].user \in {u, NoUser} /\ players'[p].user \in {u, NoUser}
    BY <1>6
  <2>. HIDE DEF p, u
  <2>. QED  BY <1>3, <1>6, <2>1, OnePlaceChanges
<1>9. VoiceOf' = VoiceOf
  BY <1>7, <1>8 DEF VoiceOf
<1>10. HostUser' = HostUser
  BY <1>1, <1>6, HostIsMember DEF HostUser, RoomInv, Slots, Present
<1>11. M!Regains(u)
  BY <1>1, <1>2, <1>7, <1>8, <1>9, <1>10 DEF M!Regains
<1>. QED  BY <1>3, <1>11

(* A connection leaves: its person does, unless it had been displaced.     *)
LEMMA LeavesLeave ==
  ASSUME RoomInv, RoomInv', NEW s \in Sessions, OnLeave(s)
  PROVE  (\E u \in Users : M!Leaves(u)) \/ UNCHANGED M!memberVars
<1>1. /\ players \in Table /\ players' \in Table /\ net \in [Sessions -> NetStates]
      /\ hostPlayerId \in PlayerIds \cup {NoPlayer}
      /\ net[s] # "unused" /\ net' = [net EXCEPT ![s] = "left"]
      /\ UNCHANGED <<room, kicked>>
  BY DEF OnLeave, RoomInv, TypeInv, TypeOK, roomVars
<1>2. UsedSessions' = UsedSessions
  BY <1>1 DEF UsedSessions
<1>3. CASE LeaveReplaced(s) \/ LeaveUnknown(s)
  <2>1. players' = players /\ hostPlayerId' = hostPlayerId
    BY <1>3 DEF LeaveReplaced, LeaveUnknown
  <2>. QED  BY <1>1, <1>2, <2>1 DEF M!memberVars, PlaceOf, VoiceOf, HostUser
<1>4. CASE LeaveToBot(s) \/ LeaveRoom(s)
  <2>. DEFINE p == bySessionId[s]
              u == players[p].user
              others == {q \in Present(players') : players'[q].session # NoSession}
  <2>1. /\ HasSlot(s) /\ players[p].session = s
        /\ hostPlayerId' = Promoted(players', hostPlayerId)
    BY <1>4 DEF LeaveToBot, LeaveRoom
  <2>2. p \in Slots /\ p \in PlayerIds /\ players[p] \in RoomPlayer /\ u \in Users /\ p # NoPlayer
    BY <2>1, MemberFacts DEF HasSlot, RoomInv, Slots, Present, PlayerIds, NoPlayer
  <2>3. \A q \in PlayerIds \ {p} : players'[q] = players[q]
    BY <1>1, <1>4, <2>2 DEF LeaveToBot, LeaveRoom, Table
  <2>4. /\ players'[p].user \in {u, NoUser} /\ players'[p].session = NoSession
        /\ players'[p].connection \in {"vacant", "replaced_by_bot"}
    <3>1. CASE LeaveToBot(s)
      BY <1>1, <2>2, <3>1 DEF LeaveToBot, Table, RoomPlayer
    <3>2. CASE LeaveRoom(s)
      BY <1>1, <2>2, <3>2 DEF LeaveRoom, Table, Vacant
    <3>. QED  BY <1>4, <3>1, <3>2
  <2>5. /\ PlaceOf' = [PlaceOf EXCEPT ![u] = players'[p].connection]
        /\ VoiceOf' = [VoiceOf EXCEPT ![u] = NoSession]
    <3>1. players[p].user = u /\ players[p].user \in {u, NoUser}
      OBVIOUS
    <3>. HIDE DEF p, u
    <3>. QED  BY <2>2, <2>3, <2>4, <3>1, OnePlaceChanges
  <2>6. u \in M!Members
    BY <2>1, <2>2, MemberFacts, NoSessionIsNone DEF M!Members, RoomInv
  <2>7. hostPlayerId # NoPlayer /\ hostPlayerId \in Slots /\ hostPlayerId \in PlayerIds
        /\ players[hostPlayerId].session # NoSession
        /\ HostUser = players[hostPlayerId].user
    BY <2>1, <2>2, HostIsMember, NoSessionIsNone DEF RoomInv, Slots, Present
  <2>8. HostUser = u <=> hostPlayerId = p
    BY <2>2, <2>7 DEF RoomInv, SlotsInv, OneSlotPerUser
  <2>9. \A q \in PlayerIds : q \in others <=>
          q # p /\ q \in Slots /\ players[q].session # NoSession
    BY <2>3, <2>4 DEF Slots, Present
  <2>10. ASSUME hostPlayerId # p PROVE HostUser' = HostUser
    <3>1. players'[hostPlayerId] = players[hostPlayerId]
      BY <2>3, <2>7, <2>10
    <3>2. players[hostPlayerId].connection \notin {"vacant", "replaced_by_bot"}
      BY <2>7 DEF RoomInv, SlotsInv, ConnectionIsReal, Slots, Present
    <3>3. CanHost(players', hostPlayerId)
      BY <2>7, <3>1, <3>2 DEF CanHost
    <3>4. hostPlayerId' = hostPlayerId
      BY <1>1, <2>1, <3>3, PromotedChooses
    <3>. QED  BY <2>7, <3>1, <3>4 DEF HostUser
  <2>11. ASSUME hostPlayerId = p, M!Members = {u} PROVE HostUser' = NoUser
    <3>1. others = {}
      <4>. SUFFICES ASSUME NEW q \in others PROVE FALSE
        OBVIOUS
      <4>1. q \in PlayerIds /\ q # p /\ q \in Slots /\ players[q].session # NoSession
        BY <2>9 DEF Present
      <4>2. players[q].user \in M!Members
        BY <4>1, MemberFacts DEF M!Members, RoomInv
      <4>. QED  BY <2>2, <2>11, <4>1, <4>2 DEF RoomInv, SlotsInv, OneSlotPerUser
    <3>2. ~CanHost(players', hostPlayerId)
      BY <2>4, <2>11 DEF CanHost
    <3>3. hostPlayerId' = NoPlayer
      BY <1>1, <2>1, <3>1, <3>2, PromotedChooses
    <3>. QED  BY <3>3 DEF HostUser
  <2>12. ASSUME hostPlayerId = p, M!Members # {u} PROVE HostUser' \in M!Members \ {u}
    <3>1. PICK v \in M!Members : v # u
      BY <2>6, <2>12
    <3>2. PICK q \in Slots : players[q].user = v
      BY <3>1, MemberFacts DEF M!Members, RoomInv
    <3>3. players[q].session # NoSession
      BY <3>1, <3>2, MemberFacts DEF M!Members, RoomInv
    <3>4. q \in others
      BY <2>9, <3>1, <3>2, <3>3 DEF Slots, Present
    <3>5. ~CanHost(players', hostPlayerId)
      BY <2>4, <2>12 DEF CanHost
    <3>6. hostPlayerId' \in others
      BY <1>1, <2>1, <3>4, <3>5, PromotedChooses
    <3>7. /\ hostPlayerId' \in PlayerIds /\ hostPlayerId' # p /\ hostPlayerId' \in Slots
          /\ players[hostPlayerId'].session # NoSession
      BY <2>9, <3>6 DEF Present
    <3>8. players[hostPlayerId'].user \in M!Members /\ players[hostPlayerId'].user # u
      BY <2>2, <3>7, MemberFacts DEF M!Members, RoomInv, SlotsInv, OneSlotPerUser
    <3>9. hostPlayerId' # NoPlayer /\ players'[hostPlayerId'] = players[hostPlayerId']
      BY <2>3, <3>7 DEF PlayerIds, NoPlayer
    <3>. QED  BY <3>8, <3>9 DEF HostUser
  <2>13. PlaceOf' \in {[PlaceOf EXCEPT ![u] = kept] : kept \in {"vacant", "replaced_by_bot"}}
    BY <2>4, <2>5
  <2>. HIDE DEF p, u, others
  <2>14. IF HostUser # u THEN HostUser' = HostUser
         ELSE IF M!Members = {u} THEN HostUser' = NoUser
         ELSE HostUser' \in M!Members \ {u}
    BY <2>8, <2>10, <2>11, <2>12
  <2>15. M!Leaves(u)
    BY <1>1, <1>2, <2>5, <2>6, <2>13, <2>14 DEF M!Leaves
  <2>. QED  BY <2>2, <2>15
<1>. QED  BY <1>3, <1>4 DEF OnLeave

(* A step that is not about connections gives up what bots keep, or        *)
(* nothing.                                                                *)
LEMMA TablesForget ==
  ASSUME RoomInv, RoomInv', HostMoves, NEW all \in BOOLEAN,
         \A p \in PlayerIds :
           IF all /\ players[p].connection = "replaced_by_bot"
           THEN players'[p] = Vacant ELSE SameWho(p),
         UNCHANGED <<room, kicked, net>>
  PROVE  M!Forgets \/ UNCHANGED M!memberVars
<1>1. /\ PlaceOf' = [u \in Users |-> IF all /\ PlaceOf[u] = "replaced_by_bot"
                                     THEN "vacant" ELSE PlaceOf[u]]
      /\ VoiceOf' = VoiceOf
  BY PlacesStay
<1>2. \A p \in PlayerIds : players[p].connection = "replaced_by_bot" => players[p].session = NoSession
  BY DEF RoomInv, SlotsInv, ConnectionIsReal, Slots, Present
<1>3. \A p \in PlayerIds : /\ players'[p].session = players[p].session
                           /\ players[p].session # NoSession =>
                                players'[p].user = players[p].user
  BY <1>2 DEF SameWho, Vacant
<1>4. HostUser' = HostUser
  BY <1>3, HostUserStays
<1>5. UsedSessions' = UsedSessions
  BY DEF UsedSessions
<1>6. CASE all
  BY <1>1, <1>4, <1>5, <1>6 DEF M!Forgets
<1>7. CASE ~all
  <2>1. PlaceOf' = PlaceOf
    BY <1>1, <1>7 DEF PlaceOf
  <2>. QED  BY <1>1, <1>4, <1>5, <2>1 DEF M!memberVars
<1>. QED  BY <1>6, <1>7

(* A round that starts gives up every place a bot keeps.                   *)
LEMMA StartForgets ==
  ASSUME RoomInv, StartRound
  PROVE  \A p \in PlayerIds :
           IF TRUE /\ players[p].connection = "replaced_by_bot"
           THEN players'[p] = Vacant ELSE SameWho(p)
<1>1. OnlyForgetsBots
  BY StartRoundTable DEF RoomInv
<1>2. \A p \in PlayerIds : players[p].connection = "replaced_by_bot" => players'[p] = Vacant
  BY DEF StartRound
<1>. QED  BY <1>1, <1>2 DEF OnlyForgetsBots

(* So does the return to the lobby.                                        *)
LEMMA LobbyForgets ==
  ASSUME RoomInv, NEW ps \in Table, ReturnToLobby(ps),
         \A p \in PlayerIds : /\ ps[p].user = players[p].user
                              /\ ps[p].connection = players[p].connection
                              /\ ps[p].session = players[p].session
  PROVE  \A p \in PlayerIds :
           IF TRUE /\ players[p].connection = "replaced_by_bot"
           THEN players'[p] = Vacant ELSE SameWho(p)
<1>1. OnlyForgetsBots
  BY ReturnToLobbyTable DEF RoomInv
<1>2. \A p \in PlayerIds : players[p].connection = "replaced_by_bot" => players'[p] = Vacant
  BY DEF ReturnToLobby
<1>. QED  BY <1>1, <1>2 DEF OnlyForgetsBots

\* nothing is given up
KeepsTable ==
  \A p \in PlayerIds :
    IF FALSE /\ players[p].connection = "replaced_by_bot"
    THEN players'[p] = Vacant ELSE SameWho(p)

(* A message expels its sender, starts a round, returns to the lobby, or   *)
(* is nothing to the membership.                                           *)
LEMMA MessagesForget ==
  ASSUME RoomInv, RoomInv', HostMoves, NEW s \in Sessions, Message(s)
  PROVE  (\E u \in Users : M!Expels(u)) \/ M!Forgets \/ UNCHANGED M!memberVars
<1>. DEFINE p == bySessionId[s]
<1>1. players \in Table /\ net \in [Sessions -> NetStates]
  BY DEF RoomInv, TypeInv, TypeOK
<1>2. Speaks(s) => p \in Slots /\ p \in PlayerIds /\ players[p] \in RoomPlayer
                   /\ players[p].user \in Users /\ players[p].session = s
  BY MemberFacts DEF Speaks, HasSlot, RoomInv, Slots, Present
<1>3. ASSUME Speaks(s), NEW new, new.user = players[p].user,
             new.connection = players[p].connection, new.session = players[p].session,
             players' = [players EXCEPT ![p] = new]
      PROVE  KeepsTable
  BY <1>3, SpeakerChanges DEF RoomInv, KeepsTable, SameWho
<1>4. ASSUME KeepsTable, UNCHANGED <<room, kicked, net>>
      PROVE  M!Forgets \/ UNCHANGED M!memberVars
  BY <1>4, TablesForget DEF KeepsTable
<1>5. ASSUME UNCHANGED players PROVE KeepsTable
  BY <1>5 DEF KeepsTable, SameWho
<1>6. CASE Flood(s)
  <2>1. /\ Speaks(s) /\ net[s] = "open" /\ kicked' = kicked \cup {players[p].user}
        /\ net' = [net EXCEPT ![s] = "leaving"]
        /\ UNCHANGED <<room, players, hostPlayerId>>
    BY <1>6 DEF Flood, roomVars
  <2>2. UsedSessions' = UsedSessions
    BY <1>1, <2>1 DEF UsedSessions
  <2>3. players[p].connection = "connected"
    BY <1>2, <2>1, NoSessionIsNone DEF RoomInv, SlotsInv, ConnectionIsReal, RoomPlayer
  <2>4. PlaceOf[players[p].user] = "connected"
    BY <1>2, <2>1, <2>3, MemberFacts DEF RoomInv
  <2>5. UNCHANGED <<PlaceOf, VoiceOf, HostUser>>
    BY <2>1 DEF PlaceOf, VoiceOf, HostUser
  <2>6. M!Expels(players[p].user)
    BY <2>1, <2>2, <2>4, <2>5 DEF M!Expels
  <2>. QED  BY <1>2, <2>1, <2>6
<1>7. ASSUME NEW t \in TeamRequests, SetTeam(s, t) PROVE M!Forgets \/ UNCHANGED M!memberVars
  <2>1. /\ Speaks(s) /\ UNCHANGED <<room, kicked, net>>
        /\ players' = [players EXCEPT ![p] = [players[p] EXCEPT !.team = t, !.ready = FALSE]]
    BY <1>7 DEF SetTeam, ChangeSlot, roomVars, netVars
  <2>2. KeepsTable
    BY <1>2, <1>3, <2>1 DEF RoomPlayer
  <2>. QED  BY <1>4, <2>1, <2>2
<1>8. ASSUME NEW ready \in ReadyRequests, SetReady(s, ready)
      PROVE  M!Forgets \/ UNCHANGED M!memberVars
  <2>1. /\ Speaks(s) /\ UNCHANGED <<room, kicked, net>>
        /\ players' = [players EXCEPT ![p] = [players[p] EXCEPT !.ready = ready]]
    BY <1>8 DEF SetReady, ChangeSlot, roomVars, netVars
  <2>2. KeepsTable
    BY <1>2, <1>3, <2>1 DEF RoomPlayer
  <2>. QED  BY <1>4, <2>1, <2>2
<1>9. CASE Loaded(s)
  <2>1. /\ Speaks(s) /\ UNCHANGED <<room, kicked, net>>
        /\ players' = [players EXCEPT ![p] = [players[p] EXCEPT !.loaded = TRUE]]
    BY <1>9 DEF Loaded, ChangeSlot, roomVars, netVars
  <2>2. KeepsTable
    BY <1>2, <1>3, <2>1 DEF RoomPlayer
  <2>. QED  BY <1>4, <2>1, <2>2
<1>10. CASE \/ \E enabled \in BotRequests : SetBots(s, enabled)
            \/ \E option \in Options : SetOptions(s, option)
  <2>1. UNCHANGED <<room, kicked, net, players>>
    BY <1>10 DEF SetBots, SetOptions, roomVars, slotVars, netVars
  <2>. QED  BY <1>4, <1>5, <2>1
<1>11. CASE Start(s)
  <2>1. StartRound /\ UNCHANGED <<room, kicked, net>>
    BY <1>11 DEF Start
  <2>. QED  BY <2>1, StartForgets, TablesForget
<1>12. ASSUME NEW choice \in {"rematch", "lobby"}, Vote(s, choice)
       PROVE  M!Forgets \/ UNCHANGED M!memberVars
  <2>. DEFINE new == [players[p] EXCEPT !.vote = choice]
              voted == [players EXCEPT ![p] = new]
  <2>1. /\ Speaks(s) /\ UNCHANGED <<room, kicked, net>>
        /\ ReturnToLobby(voted) \/ StartRound \/ players' = voted
    BY <1>12 DEF Vote
  <2>2. /\ new.user = players[p].user /\ new.connection = players[p].connection
        /\ new.session = players[p].session /\ new \in RoomPlayer
    BY <1>2, <2>1 DEF RoomPlayer
  <2>3. voted \in Table
    BY <1>1, <1>2, <2>1, <2>2 DEF Table
  <2>4. \A q \in PlayerIds : /\ voted[q].user = players[q].user
                             /\ voted[q].connection = players[q].connection
                             /\ voted[q].session = players[q].session
    BY <2>1, <2>2, SpeakerChanges DEF RoomInv
  <2>5. CASE ReturnToLobby(voted)
    <3>. HIDE DEF voted
    <3>. QED  BY <2>1, <2>3, <2>4, <2>5, LobbyForgets, TablesForget
  <2>6. CASE StartRound
    BY <2>1, <2>6, StartForgets, TablesForget
  <2>7. CASE players' = voted
    <3>1. KeepsTable
      BY <2>4, <2>7 DEF KeepsTable, SameWho
    <3>. QED  BY <1>4, <2>1, <3>1
  <2>. QED  BY <2>1, <2>5, <2>6, <2>7
<1>. QED  BY <1>6, <1>7, <1>8, <1>9, <1>10, <1>11, <1>12 DEF Message

(* So is a tick.                                                           *)
LEMMA TicksForget ==
  ASSUME RoomInv, RoomInv', HostMoves, FixedStep
  PROVE  M!Forgets \/ UNCHANGED M!memberVars
<1>1. UNCHANGED <<room, kicked, net>>
  BY DEF FixedStep, netVars
<1>2. players' = players \/ ReturnToLobby(players)
  BY DEF FixedStep, LoadingStep, CountdownStep, RunningStep, RoundFinished,
         FinishingStep, ResultsStep
<1>3. CASE players' = players
  <2>1. KeepsTable
    BY <1>3 DEF KeepsTable, SameWho
  <2>. QED  BY <1>1, <2>1, TablesForget DEF KeepsTable
<1>4. CASE ReturnToLobby(players)
  <2>1. players \in Table
    BY DEF RoomInv, TypeInv, TypeOK
  <2>. QED  BY <1>1, <1>4, <2>1, LobbyForgets, TablesForget
<1>. QED  BY <1>2, <1>3, <1>4

(* Bans that end, the shutdown and the disposal.                           *)
LEMMA RoomStepsShow ==
  ASSUME RoomInv, RoomInv', Shutdown \/ Dispose \/ \E u \in Users : BanEnds(u)
  PROVE  M!Closes \/ M!Shuts \/ \E u \in Users : M!Forgives(u)
<1>1. UNCHANGED <<players, hostPlayerId>>
  BY DEF Shutdown, Dispose, BanEnds, slotVars
<1>2. UNCHANGED <<PlaceOf, VoiceOf, HostUser>>
  BY <1>1 DEF PlaceOf, VoiceOf, HostUser
<1>3. CASE Shutdown
  <2>1. /\ room = "open" /\ room' = "closing" /\ kicked' = kicked
        /\ net' = [c \in Sessions |-> Displaced(net[c])]
    BY <1>3 DEF Shutdown, slotVars
  <2>2. UsedSessions' = UsedSessions
    BY <2>1 DEF UsedSessions, Displaced
  <2>. QED  BY <1>2, <2>1, <2>2 DEF M!Closes
<1>4. CASE Dispose
  <2>1. /\ room # "disposed" /\ room' = "disposed" /\ kicked' = kicked /\ net' = net
        /\ \A c \in Sessions : net[c] \in {"unused", "left"}
    BY <1>4 DEF Dispose, slotVars, netVars
  <2>2. UsedSessions' = UsedSessions
    BY <2>1 DEF UsedSessions
  <2>3. ASSUME NEW p \in Slots PROVE players[p].session = NoSession
    <3>1. players[p].session \in Sessions \cup {NoSession} /\ p \in PlayerIds
      BY MemberFacts DEF RoomInv, RoomPlayer, Slots, Present
    <3>. QED  BY <2>1, <3>1, SlotFacts DEF RoomInv
  <2>4. M!Members = {}
    <3>. SUFFICES ASSUME NEW u \in Users, VoiceOf[u] # NoSession PROVE FALSE
      BY DEF M!Members
    <3>1. PICK p \in Slots : players[p].user = u
      BY MemberFacts DEF RoomInv
    <3>. QED  BY <2>3, <3>1, MemberFacts DEF RoomInv
  <2>. QED  BY <1>2, <2>1, <2>2, <2>4 DEF M!Shuts
<1>5. ASSUME NEW u \in Users, BanEnds(u) PROVE M!Forgives(u)
  <2>1. kicked' = kicked \ {u} /\ UNCHANGED <<room, net>>
    BY <1>5 DEF BanEnds, roomVars, netVars
  <2>2. UsedSessions' = UsedSessions
    BY <2>1 DEF UsedSessions
  <2>. QED  BY <1>2, <2>1, <2>2 DEF M!Forgives
<1>. QED  BY <1>3, <1>4, <1>5

(* The empty room has no members.                                          *)
LEMMA StartsEmpty == Init => M!Init
<1>. SUFFICES ASSUME Init PROVE M!Init
  OBVIOUS
<1>1. /\ players = [p \in PlayerIds |-> Vacant] /\ hostPlayerId = NoPlayer
      /\ net = [c \in Sessions |-> "unused"] /\ room = "open" /\ kicked = {}
  BY DEF Init
<1>2. \A u \in Users : EntryIn(players, u) = Vacant
  BY <1>1, NoUserIsNobody DEF EntryIn, Vacant
<1>3. /\ PlaceOf = [u \in Users |-> "vacant"] /\ VoiceOf = [u \in Users |-> NoSession]
  BY <1>2 DEF PlaceOf, VoiceOf, Vacant
<1>4. HostUser = NoUser /\ UsedSessions = {}
  BY <1>1 DEF HostUser, UsedSessions
<1>. QED  BY <1>1, <1>3, <1>4 DEF M!Init

(* Every step of the room is one of the membership, or nothing to it.      *)
LEMMA StepsShow ==
  ASSUME RoomInv, RoomInv', [Next]_vars
  PROVE  [M!Next]_M!memberVars
<1>1. HostMoves
  BY HostingMoves DEF RoomInv
<1>2. CASE UNCHANGED vars
  <2>1. UNCHANGED <<room, players, hostPlayerId, kicked, net>>
    BY <1>2 DEF vars, roomVars, slotVars, netVars
  <2>. QED  BY <2>1 DEF M!memberVars, PlaceOf, VoiceOf, HostUser, UsedSessions
<1>3. ASSUME NEW s \in Sessions, Connection(s) PROVE [M!Next]_M!memberVars
  <2>1. ASSUME NEW u \in Users, JoinNew(s, u) \/ Rejoin(s, u) PROVE M!Next
    BY <2>1, JoinsEnter DEF M!Next
  <2>2. CASE OnDrop(s)
    BY <2>2, DropsLose DEF M!Next
  <2>3. CASE OnReconnect(s)
    BY <2>3, ReturnsRegain DEF M!Next
  <2>4. CASE OnLeave(s)
    BY <2>4, LeavesLeave DEF M!Next
  <2>. QED  BY <1>3, <2>1, <2>2, <2>3, <2>4 DEF Connection
<1>4. ASSUME NEW s \in Sessions, Message(s) PROVE [M!Next]_M!memberVars
  BY <1>1, <1>4, MessagesForget DEF M!Next
<1>5. CASE FixedStep
  BY <1>1, <1>5, TicksForget DEF M!Next
<1>6. CASE Shutdown \/ Dispose \/ \E u \in Users : BanEnds(u)
  BY <1>6, RoomStepsShow DEF M!Next
<1>7. CASE Gone
  BY <1>2, <1>7 DEF Gone
<1>. QED  BY <1>2, <1>3, <1>4, <1>5, <1>6, <1>7 DEF Next

(* The room is a membership: slots, routing, marks, windows and rounds     *)
(* never show as more than that (onJoin, onDrop, onReconnect, onLeave,     *)
(* takeOverSlot, promoteHostIfNeeded, startRound, returnToLobby).          *)
THEOREM RoomIsMembership == Spec => KeepsMembership
<1>1. TypeInv /\ SlotsInv => RoomInv
  BY DEF RoomInv
<1>2. RoomInv /\ RoomInv' /\ [Next]_vars => [M!Next]_M!memberVars
  BY StepsShow
<1>. QED  BY <1>1, <1>2, StartsEmpty, SlotsCorrect, PTL DEF Spec, KeepsMembership, M!Spec
=============================================================================
