------------------------------- MODULE PaintSync -------------------------------
(***************************************************************************)
(* The paint of a room and its copy in one client: the room's side         *)
(* (apps/game-server/src/rooms/ArenaRoom.ts: sendPaintSnapshot, flushPaint,*)
(* the messages round.loaded and paint.resync, afterJoinSync), the         *)
(* connection, and the client (app/AppController.ts), which loads the map  *)
(* of a round before it shows it and keeps for later what arrives          *)
(* meanwhile.                                                              *)
(*                                                                         *)
(* The connection is reliable and ordered while it is up.  A drop loses    *)
(* what was on its way; what the client sends while it is down may be kept *)
(* by the SDK and delivered after the return.                              *)
(*                                                                         *)
(* The countdown and the running phase are "playing", finishing and the    *)
(* results are "over".  The other people of the room appear as the         *)
(* deadline of the loading, which may come at any time.  recent stands for *)
(* now - lastResyncAt < 1500 ms.  The queue of messages kept for later     *)
(* holds 600, which take far longer than that to arrive: while recent it   *)
(* does not overflow.                                                      *)
(*                                                                         *)
(* told, painted and changes are bounds and history, not code.             *)
(***************************************************************************)
EXTENDS PaintState

CONSTANTS
  LaterMax,    \* messages kept while a map is being loaded (600)
  MaxRounds,   \* bound: rounds of the room
  MaxPainted,  \* bound: cells painted in a round
  MaxChanges,  \* bound: drops and new pages
  MaxFlight    \* bound: messages in one direction of the connection

ASSUME SyncLimits ==
  /\ LaterMax \in Nat /\ MaxRounds \in Nat /\ MaxPainted \in Nat
  /\ MaxChanges \in Nat /\ MaxFlight \in Nat

VARIABLES
  phase,     \* of the room
  paint,     \* the PaintState of its simulation, of round paint.round
  loaded, recent, inRound,  \* of the RoomPlayer
  net,       \* "up", "down"
  up, down,  \* messages on the way, oldest first
  replica,   \* of the client
  known,     \* currentRound of the client
  loads,     \* rounds whose map is being prepared, oldest first
  later,     \* deferred: messages kept until the map is ready
  told,      \* the last round announced on this connection
  painted, changes

roomVars == <<phase, paint, loaded, recent, inRound, painted>>
clientVars == <<replica, known, loads, later>>
vars == <<phase, paint, loaded, recent, inRound, net, up, down, replica, known,
          loads, later, told, painted, changes>>

Loading(round) == [kind |-> "loading", round |-> round]
Loaded(round) == [kind |-> "loaded", round |-> round]
Resync(round) == [kind |-> "resync", round |-> round]

(* A message to the client, if it is connected.                            *)
Send(ms) ==
  IF net = "up" THEN Len(down) + Len(ms) <= MaxFlight /\ down' = down \o ms
  ELSE UNCHANGED down

-----------------------------------------------------------------------------
(*                               The room                                  *)

(* startRound: blank paint, everybody has to load again; who is away gets  *)
(* no place in the round.                                                  *)
StartRound ==
  /\ phase \in {"lobby", "over"} /\ paint.round < MaxRounds
  /\ phase' = "loading"
  /\ paint' = Blank(paint.round + 1, TRUE)
  /\ loaded' = FALSE
  /\ inRound' \in IF net = "up" THEN BOOLEAN ELSE {FALSE}
  /\ Send(<<Loading(paint'.round)>>)
  /\ told' = IF net = "up" THEN paint'.round ELSE told
  /\ painted' = 0
  /\ UNCHANGED <<recent, net, up, clientVars, changes>>

(* beginCountdown: everybody has loaded or the deadline has come.          *)
BeginCountdown ==
  /\ phase = "loading"
  /\ phase' = "playing"
  /\ Send(<<SnapshotOf(paint)>>)
  /\ UNCHANGED <<paint, loaded, recent, inRound, net, up, clientVars, told, painted, changes>>

(* A cell is painted by the simulation.                                    *)
Paint ==
  /\ phase = "playing" /\ painted < MaxPainted
  /\ \E x \in Cells, t \in Teams : paint' = SetOwner(paint, x, t)
  /\ painted' = painted + 1
  /\ UNCHANGED <<phase, loaded, recent, inRound, net, up, down, clientVars, told, changes>>

(* flushPaint, every second step and at the end of the round.              *)
FlushPaint ==
  /\ phase = "playing"
  /\ phase' \in {"playing", "over"}
  /\ phase' = "over" \/ paint.pending # {}
  /\ Send(Deltas(paint))
  /\ paint' = Flushed(paint)
  /\ UNCHANGED <<loaded, recent, inRound, net, up, clientVars, told, painted, changes>>

(* returnToLobby: the simulation is gone.                                  *)
ReturnToLobby ==
  /\ phase = "over"
  /\ phase' = "lobby"
  /\ loaded' = FALSE /\ inRound' = TRUE
  /\ UNCHANGED <<paint, recent, net, up, down, clientVars, told, painted, changes>>

(* The paint is sent to whoever asks, if there is a simulation.            *)
SendPaint == Send(IF phase = "lobby" THEN <<>> ELSE <<SnapshotOf(paint)>>)

(* round.loaded: a repetition is answered after a while only.              *)
AnswersFirstOnlyVariant(m) == m.round = paint.round /\ ~loaded
Confirms(m) == m.round = paint.round /\ ~(loaded /\ recent)
OnLoaded ==
  /\ net = "up" /\ up # <<>> /\ Head(up).kind = "loaded"
  /\ up' = Tail(up)
  /\ IF Confirms(Head(up))
     THEN /\ loaded' = TRUE /\ recent' = TRUE
          /\ IF phase = "loading" THEN UNCHANGED down ELSE SendPaint
     ELSE UNCHANGED <<loaded, recent, down>>
  /\ UNCHANGED <<phase, paint, inRound, net, clientVars, told, painted, changes>>

(* paint.resync: dropped without an answer when one was just given.        *)
Answers(m) == phase # "lobby" /\ m.round = paint.round /\ ~recent
OnResync ==
  /\ net = "up" /\ up # <<>> /\ Head(up).kind = "resync"
  /\ up' = Tail(up)
  /\ IF Answers(Head(up)) THEN recent' = TRUE /\ SendPaint
     ELSE UNCHANGED <<recent, down>>
  /\ UNCHANGED <<phase, paint, loaded, inRound, net, clientVars, told, painted, changes>>

(* 1.5 s have passed.                                                      *)
TimePasses ==
  /\ recent
  /\ recent' = FALSE
  /\ UNCHANGED <<phase, paint, loaded, inRound, net, up, down, clientVars, told,
                 painted, changes>>

-----------------------------------------------------------------------------
(*                              The client                                 *)

(* What a client sends; over a connection that is down it may be kept.     *)
Sends(ms) ==
  \/ Len(up) + Len(ms) <= MaxFlight /\ up' = up \o ms
  \/ net = "down" /\ up' = up

(* A message of the room to the replica and what it asks for.              *)
Handle(acc, m) ==
  [replica |-> Received(acc.replica, m),
   out |-> IF AsksFor(acc.replica, m) THEN Append(acc.out, Resync(acc.replica.expected))
           ELSE acc.out]

(* round.loading: the map of the round is prepared after the ones before.  *)
ReceiveLoading ==
  /\ net = "up" /\ down # <<>> /\ Head(down).kind = "loading"
  /\ down' = Tail(down)
  /\ known' = Head(down).round
  /\ loads' = Append(loads, Head(down).round)
  /\ UNCHANGED <<roomVars, net, up, replica, later, told, changes>>

(* Paint arrives: handled at once, or kept while a map is being prepared.  *)
(* A full queue loses the newest message.                                  *)
ReceivePaint ==
  /\ net = "up" /\ down # <<>> /\ Head(down).kind # "loading"
  /\ down' = Tail(down)
  /\ LET m == Head(down)
         done == Handle([replica |-> replica, out |-> <<>>], m)
     IN  \/ /\ loads = <<>>
            /\ replica' = done.replica
            /\ Sends(done.out)
            /\ UNCHANGED later
         \/ /\ loads # <<>> /\ Len(later) < LaterMax
            /\ later' = Append(later, m)
            /\ UNCHANGED <<replica, up>>
         \/ /\ loads # <<>> /\ Len(later) = LaterMax /\ ~recent
            /\ UNCHANGED <<later, replica, up>>
  /\ UNCHANGED <<roomVars, net, known, loads, told, changes>>

(* A map is ready: if it is of the round the client knows, the round       *)
(* begins and is confirmed.  After the last map what was kept is applied.  *)
MapReady ==
  /\ loads # <<>>
  /\ loads' = Tail(loads)
  /\ LET mine == Head(loads) = known
         begun == [replica |-> IF mine THEN Expecting(known) ELSE replica,
                   out |-> IF mine THEN <<Loaded(known)>> ELSE <<>>]
         done == IF loads' = <<>> THEN FoldLeft(Handle, begun, later) ELSE begun
     IN  /\ replica' = done.replica
         /\ Sends(done.out)
         /\ later' = IF loads' = <<>> THEN <<>> ELSE later
  /\ UNCHANGED <<roomVars, net, down, known, told, changes>>

-----------------------------------------------------------------------------
(*                            The connection                               *)

Drop ==
  /\ net = "up" /\ changes < MaxChanges
  /\ net' = "down"
  /\ up' = <<>> /\ down' = <<>>
  /\ changes' = changes + 1
  /\ UNCHANGED <<roomVars, clientVars, told>>

(* afterJoinSync: during a round the person is told of it, with the paint  *)
(* when this slot has confirmed it.                                        *)
NoPaintVariant == <<Loading(paint.round)>>
RoundSoFar ==
  <<Loading(paint.round)>>
    \o (IF phase = "playing" /\ loaded /\ inRound THEN <<SnapshotOf(paint)>> ELSE <<>>)
AfterJoinSync ==
  IF phase \in {"loading", "playing"}
  THEN /\ down' = RoundSoFar
       /\ told' = paint.round
       /\ loaded' = (loaded /\ inRound)
  ELSE /\ down' = <<>>
       /\ told' = 0
       /\ UNCHANGED loaded

(* onReconnect.                                                            *)
Return ==
  /\ net = "down"
  /\ net' = "up"
  /\ AfterJoinSync
  /\ UNCHANGED <<phase, paint, recent, inRound, up, clientVars, painted, changes>>

(* takeOverSlot: the person opens the game in another page.                *)
Reopen ==
  /\ changes < MaxChanges
  /\ net' = "up"
  /\ AfterJoinSync
  /\ changes' = changes + 1
  /\ up' = <<>>
  /\ replica' = NewReplica /\ known' = 0 /\ loads' = <<>> /\ later' = <<>>
  /\ UNCHANGED <<phase, paint, recent, inRound, painted>>

-----------------------------------------------------------------------------
Init ==
  /\ phase = "lobby"
  /\ paint = Blank(0, TRUE)
  /\ loaded = FALSE /\ recent = FALSE /\ inRound = TRUE
  /\ net = "up" /\ up = <<>> /\ down = <<>>
  /\ replica = NewReplica /\ known = 0 /\ loads = <<>> /\ later = <<>>
  /\ told = 0 /\ painted = 0 /\ changes = 0

Next ==
  \/ StartRound \/ BeginCountdown \/ Paint \/ FlushPaint \/ ReturnToLobby
  \/ OnLoaded \/ OnResync \/ TimePasses
  \/ ReceiveLoading \/ ReceivePaint \/ MapReady
  \/ Drop \/ Return \/ Reopen

Spec == Init /\ [][Next]_vars

-----------------------------------------------------------------------------
(*                            Properties                                   *)

(* The score of each team is the area it owns, however paint was applied:  *)
(* the incremental counters of setOwner, on the server and in the replica. *)
ScoreIsArea ==
  /\ paint.units = Area(paint.owner)
  /\ replica.state.units = Area(replica.state.owner)

(* Whoever is in step shows what the server has: once everything sent has  *)
(* arrived and nothing is pending, a synced replica equals the server, in  *)
(* owners, score and versions (docs/paint-system.md, "confere              *)
(* exatamente").                                                           *)
Quiet ==
  /\ net = "up" /\ told = paint.round /\ phase \in {"playing", "over"}
  /\ up = <<>> /\ down = <<>> /\ loads = <<>> /\ paint.pending = {}
QuietMeansEqual ==
  Quiet /\ replica.status = "synced" =>
    [replica.state EXCEPT !.tracking = TRUE] = paint

(* Nobody waits for paint that will not come: a client that waits for the  *)
(* paint of the round has it on its way, or has asked in a way the room    *)
(* will answer, although the room drops requests that come too soon and    *)
(* the client never repeats one.                                           *)
OnItsWay ==
  \/ \E k \in 1..Len(down) :
       down[k].kind \in {"loading", "snapshot"} /\ down[k].round = paint.round
  \/ \E k \in 1..Len(up) :
       \/ up[k].kind = "loaded" /\ Confirms(up[k])
       \/ up[k].kind = "resync" /\ Answers(up[k])
NobodyWaitsForever ==
  net = "up" /\ phase \in {"playing", "over"} /\ told = paint.round /\ loads = <<>> =>
    OnItsWay \/ (replica.expected = paint.round /\ replica.status = "synced")

=============================================================================
