---------------------------- MODULE InputSession ----------------------------
(***************************************************************************)
(* The inputs of one person from end to end: the predictor of the client   *)
(* (apps/game-client/src/game/prediction/LocalPredictor.ts, GameRuntime.ts *)
(* and app/AppController.ts), the connection, the handlers of the room     *)
(* (apps/game-server/src/rooms/ArenaRoom.ts) and the stream of the         *)
(* simulation, through drops, returns, bots and takeovers in one round.    *)
(*                                                                         *)
(* The connection is reliable and ordered while it is up; a drop loses     *)
(* what was in flight.  While it is down the SDK may keep what the client  *)
(* sends and deliver it after the return (docs/networking.md:139), or not. *)
(*                                                                         *)
(* A predictor is made at the first snapshot of a round and numbers its    *)
(* inputs and actions from one; the message that a round is loading makes  *)
(* the client forget it, after the map is ready.  Predictors are numbered  *)
(* here to tell them apart; the code has no such number.                   *)
(*                                                                         *)
(* made, inputs, changes and heard are bounds and history, not code.       *)
(***************************************************************************)
EXTENDS InputStream

CONSTANTS
  HistoryMax,     \* inputs the predictor keeps to apply again (90)
  MaxInputs,      \* bound: inputs made in one round
  MaxPredictors,  \* bound: predictors made in one round
  MaxChanges,     \* bound: drops and takeovers in one round
  MaxFlight       \* bound: messages in one direction of the connection

ASSUME SessionLimits ==
  /\ HistoryMax \in Nat /\ MaxInputs \in Nat /\ MaxPredictors \in Nat
  /\ MaxChanges \in Nat /\ MaxFlight \in Nat
  /\ Sources = 1..MaxPredictors
  /\ MaxInputs <= MaxActionId

VARIABLES
  net,        \* "up", "down" (within the window), "gone" (window expired)
  up,         \* inputs from the client, oldest first
  down,       \* messages from the room, oldest first
  predictor,  \* of the client, or NoPredictor
  switching,  \* the client prepares the map of a round
  made,       \* predictors made so far
  inputs,     \* inputs made so far
  changes,    \* drops and takeovers so far
  heard       \* the predictors heard since the stream was reset

clientVars == <<predictor, switching, made, inputs>>
vars == <<player, phase, tick, net, up, down, predictor, switching, made,
          inputs, changes, heard>>

NoPredictor == [id |-> 0, seq |-> 0, actionId |-> 0, ack |-> 0, history |-> {}]
Predictor ==
  [id : 0..MaxPredictors, seq : Nat, actionId : Nat, ack : Nat, history : SUBSET Nat]

Loading == [kind |-> "loading", ack |-> 0]
Snapshot(ack) == [kind |-> "snapshot", ack |-> ack]
Message == [kind : {"loading", "snapshot"}, ack : Nat]

-----------------------------------------------------------------------------
(*                             The client                                  *)

(* The inputs a predictor still has to apply again: it keeps the newest.   *)
Kept(history) == {s \in history : Cardinality({r \in history : r > s}) < HistoryMax}

(* reconcile: what the room has processed is not applied again.            *)
DropOneMoreVariant(p, ack) ==
  [p EXCEPT !.ack = ack, !.history = {s \in @ : s > ack + 1}]
Reconciled(p, ack) ==
  [p EXCEPT !.ack = ack, !.history = {s \in @ : s > ack}]

(* What is sent over a connection that is down may wait for its return.    *)
Sent(i) ==
  \/ net # "gone" /\ up' = Append(up, i)
  \/ net # "up" /\ up' = up

(* A fixed step of the prediction: an input, perhaps with an action.       *)
ClientStep ==
  /\ phase # "finished"
  /\ predictor # NoPredictor /\ inputs < MaxInputs /\ Len(up) < MaxFlight
  /\ \E pressed \in {0, 1} :
       LET seq == predictor.seq + 1
           acts == IF pressed = 1 THEN {predictor.actionId + 1} ELSE {}
       IN  /\ predictor' = [predictor EXCEPT !.seq = seq, !.actionId = @ + pressed,
                                             !.history = Kept(@ \cup {seq})]
           /\ Sent([seq |-> seq, acts |-> acts, from |-> predictor.id])
  /\ inputs' = inputs + 1
  /\ UNCHANGED <<streamVars, net, down, switching, made, changes, heard>>

(* The messages of the room, in order.  While the map is being prepared    *)
(* snapshots are thrown away and the old predictor goes on.                *)
Receive ==
  /\ phase # "finished" /\ net = "up" /\ down # <<>>
  /\ down' = Tail(down)
  /\ LET m == Head(down)
         first == predictor = NoPredictor
         mine == IF first THEN [NoPredictor EXCEPT !.id = made + 1] ELSE predictor
     IN  \/ /\ m.kind = "loading"
            /\ switching' = TRUE
            /\ UNCHANGED <<predictor, made>>
         \/ /\ m.kind = "snapshot" /\ switching
            /\ UNCHANGED <<predictor, switching, made>>
         \/ /\ m.kind = "snapshot" /\ ~switching
            /\ first => made < MaxPredictors
            /\ predictor' = Reconciled(mine, m.ack)
            /\ made' = IF first THEN made + 1 ELSE made
            /\ UNCHANGED switching
  /\ UNCHANGED <<streamVars, net, up, inputs, changes, heard>>

(* beginRound, once the map is ready: the predictor is thrown away.        *)
BeginRound ==
  /\ phase # "finished" /\ switching
  /\ switching' = FALSE
  /\ predictor' = NoPredictor
  /\ UNCHANGED <<streamVars, net, up, down, made, inputs, changes, heard>>

-----------------------------------------------------------------------------
(*                              The room                                   *)

(* The handler of an input: the limit on the rate of inputs may refuse it, *)
(* and so does the room when the round is over or a bot drives the slot.   *)
Deliver ==
  /\ phase # "finished" /\ net = "up" /\ up # <<>>
  /\ up' = Tail(up)
  /\ LET i == Head(up)
     IN  \/ /\ Enqueue(i)
            /\ heard' = IF player' # player THEN heard \cup {i.from} ELSE heard
         \/ UNCHANGED <<streamVars, heard>>
  /\ UNCHANGED <<net, down, clientVars, changes>>

(* A step of the room: the simulation, and every second time a snapshot    *)
(* to whoever is connected.                                                *)
RoomStep ==
  /\ Tick
  /\ \/ net = "up" /\ Len(down) < MaxFlight /\ phase' # "finished"
        /\ down' = Append(down, Snapshot(player'.lastSeq))
     \/ UNCHANGED down
  /\ UNCHANGED <<net, up, clientVars, changes, heard>>

-----------------------------------------------------------------------------
(*                            The connection                               *)

(* The connection is lost with everything that was on its way.             *)
Drop ==
  /\ phase # "finished" /\ net = "up" /\ changes < MaxChanges
  /\ net' = "down"
  /\ up' = <<>> /\ down' = <<>>
  /\ changes' = changes + 1
  /\ UNCHANGED <<streamVars, clientVars, heard>>

(* A new controller: the stream is reset and the person told the round.    *)
NewController ==
  /\ ChangeHands(FALSE)
  /\ net' = "up"
  /\ down' = <<Loading>>
  /\ heard' = {}
(* onReconnect: the SDK restored the connection within the window.         *)
Return ==
  /\ net = "down"
  /\ NewController
  /\ UNCHANGED <<up, clientVars, changes>>

(* onLeave: the window expired and a bot takes the slot.                   *)
WindowExpires ==
  /\ net = "down"
  /\ ChangeHands(TRUE)
  /\ net' = "gone"
  /\ up' = <<>>
  /\ heard' = {}
  /\ UNCHANGED <<down, clientVars, changes>>

(* takeOverSlot: the same page joins anew after the loss of its connection *)
(* and still has its predictor.                                            *)
Rejoin ==
  /\ net # "up"
  /\ NewController
  /\ up' = <<>>
  /\ UNCHANGED <<clientVars, changes>>

(* takeOverSlot: the person opens the Activity again, in a page that has   *)
(* no predictor; the old connection is not listened to any more.           *)
Reopen ==
  /\ changes < MaxChanges
  /\ NewController
  /\ changes' = changes + 1
  /\ up' = <<>>
  /\ predictor' = NoPredictor /\ switching' = FALSE
  /\ UNCHANGED <<made, inputs>>

-----------------------------------------------------------------------------
(* The countdown begins; who has not loaded in time is still doing it.     *)
Init ==
  /\ StreamInit
  /\ net = "up" /\ up = <<>> /\ down = <<>>
  /\ predictor = NoPredictor /\ switching \in BOOLEAN
  /\ made = 0 /\ inputs = 0
  /\ changes = 0 /\ heard = {}

Next ==
  \/ ClientStep \/ Receive \/ BeginRound
  \/ Deliver \/ RoomStep
  \/ Drop \/ Return \/ WindowExpires \/ Rejoin \/ Reopen

Spec == Init /\ [][Next]_vars

-----------------------------------------------------------------------------
(*                            Properties                                   *)

(* Types of the client, the connection and the stream.                     *)
TypeOK ==
  /\ StreamTypeOK
  /\ net \in {"up", "down", "gone"}
  /\ up \in Seq(Input) /\ down \in Seq(Message)
  /\ predictor \in Predictor /\ switching \in BOOLEAN
  /\ made \in 0..MaxPredictors /\ inputs \in 0..MaxInputs
  /\ changes \in 0..MaxChanges
  /\ heard \subseteq Sources

(* The stream has heard nobody but the predictor the client has now.       *)
OneVoice == heard \subseteq {predictor.id}

(* The new controller of a slot is obeyed: none of the inputs its          *)
(* predictor has sent will be discarded as old (the comment of             *)
(* resetInputStream, MatchSimulation.ts:255-260).                          *)
NewInputsAreTaken ==
  \A k \in 1..Len(up) :
    up[k].from = predictor.id => LastQueued(player) < up[k].seq

(* The same as long as no input of an earlier predictor was accepted after *)
(* the reset: the reset itself leaves nothing behind.                      *)
TakenWhenOneVoice == OneVoice => NewInputsAreTaken

(* What the client applies again after a snapshot covers everything it has *)
(* sent that the room has not simulated yet, as far as its history reaches *)
(* (LocalPredictor.reconcile against lastProcessedSeq).                    *)
OwnInFlight ==
  LET waiting(q) == {q[k] : k \in 1..Len(q)}
  IN  {i.seq : i \in {w \in waiting(up) \cup waiting(player.queue) :
                        w.from = predictor.id}}
HistoryCoversFlight ==
  OneVoice /\ predictor # NoPredictor =>
    \A s \in OwnInFlight :
      s \in predictor.history \/ s <= predictor.seq - HistoryMax

(* A discrete action that reached the room is in exactly one place: in the *)
(* queue, applied, or lost for a known reason (no room in the queue, more  *)
(* actions than an input holds, countdown, death, journey).  In particular *)
(* it is not applied twice and does not vanish with a dropped movement.    *)
Queued == UNION {player.queue[k].acts : k \in 1..Len(player.queue)}
ActionsConserved ==
  OneVoice /\ ~player.bot =>
    /\ player.accepted = Queued \cup player.applied \cup player.lost
    /\ Queued \cap (player.applied \cup player.lost) = {}
    /\ player.applied \cap player.lost = {}

=============================================================================
