------------------------------ MODULE ServerStop ------------------------------
(***************************************************************************)
(* The rounds of a game server, the destination of their results and the   *)
(* end of the process: ArenaRoom.onRoundFinished and onDispose             *)
(* (apps/game-server/src/rooms/ArenaRoom.ts), shutdown (server.ts), stop   *)
(* (main.ts).                                                              *)
(*                                                                         *)
(* A round is a room with one round: "none", "loading", "playing"          *)
(* (countdown or running), "over" (finishing or results), "disposing" (its *)
(* onDispose is awaiting) and "gone".  It makes one call of write, when it *)
(* ends or when it is interrupted.  The other calls are those of a         *)
(* destination that is asked again for a round (the contract the tests of  *)
(* the destinations exercise).                                             *)
(*                                                                         *)
(* External assumption (Colyseus): gracefullyShutdown asks every room to   *)
(* end and returns when the onDispose of each of them has.                 *)
(***************************************************************************)
EXTENDS ResultSink

CONSTANTS Rounds,       \* the calls made by rounds; the others are repetitions
          MaxBoots      \* bound: how often the process is started

ASSUME RoundsAssumption == Rounds \subseteq Calls

VARIABLES
    round,      \* [Rounds -> stage of the round]
    server,     \* "up", "stopping", "exited" or "crashed"
    boots,      \* how often the process was started
    interrupted,\* history: the rounds this process interrupted
    spoiled     \* history: the rounds that had a line run into another

stopVars == <<round, server, boots, interrupted>>
vars == <<sinkVars, stopVars, spoiled>>

Init ==
    /\ SinkInit
    /\ round = [r \in Rounds |-> "none"]
    /\ server = "up"
    /\ boots = 1
    /\ interrupted = {}
    /\ spoiled = {}

Running == server \in {"up", "stopping"}

Begins(r) ==
    /\ server = "up"
    /\ round[r] = "none"
    /\ round' = [round EXCEPT ![r] = "loading"]
    /\ UNCHANGED <<sinkVars, server, boots, interrupted, spoiled>>

Plays(r) ==
    /\ Running
    /\ round[r] = "loading"
    /\ round' = [round EXCEPT ![r] = "playing"]
    /\ UNCHANGED <<sinkVars, server, boots, interrupted, spoiled>>

(* onRoundFinished: the write is not awaited; a failure is only logged.    *)
RoundFinished(r) ==
    /\ Running
    /\ round[r] = "playing"
    /\ round' = [round EXCEPT ![r] = "over"]
    /\ Ask(r)
    /\ UNCHANGED <<server, boots, interrupted, spoiled>>

(* onDispose, of an empty room or of every room when the server stops: a   *)
(* round that is being played is written as interrupted, and onDispose     *)
(* awaits that write.                                                      *)
NotAwaitedVariant(r) == "gone"
WhileDisposed(r) == IF round[r] = "playing" THEN "disposing" ELSE "gone"

Disposed(r) ==
    /\ Running
    /\ round[r] \in {"loading", "playing", "over"}
    /\ round' = [round EXCEPT ![r] = WhileDisposed(r)]
    /\ IF round[r] = "playing"
       THEN /\ Ask(r)
            /\ interrupted' = interrupted \union {r}
       ELSE UNCHANGED <<sinkVars, interrupted>>
    /\ UNCHANGED <<server, boots, spoiled>>

(* onDispose returns, whether the write succeeded or failed.               *)
DisposalReturns(r) ==
    /\ Running
    /\ round[r] = "disposing"
    /\ call[r] \in Answered
    /\ round' = [round EXCEPT ![r] = "gone"]
    /\ UNCHANGED <<sinkVars, server, boots, interrupted, spoiled>>

(* Somebody else asks for the result of a round to be written.             *)
Repeats(c) ==
    /\ Running
    /\ c \notin Rounds
    /\ Ask(c)
    /\ UNCHANGED <<stopVars, spoiled>>

(* A line put after an unfinished one spoils both, and so does the end of  *)
(* an append that left a line without end.                                 *)
Landing == {c \in Calls : call[c] = "appending" /\ call'[c] = "landed"}
Spoils == {k \in Keys : \/ end = k /\ end' # k
                        \/ end # Clean /\ \E c \in Landing : KeyOf[c] = k}
MarksSpoiled == spoiled' = spoiled \union Spoils

SinkWorks ==
    /\ Running
    /\ SinkStep
    /\ MarksSpoiled
    /\ UNCHANGED stopVars

(* A signal: no room is created any more; a second one changes nothing.    *)
Stop ==
    /\ server = "up"
    /\ server' = "stopping"
    /\ UNCHANGED <<sinkVars, round, boots, interrupted, spoiled>>

(* gracefullyShutdown has waited for every room to be disposed of; calls   *)
(* that no room awaits end with the process.                               *)
RoomsAreGone == \A r \in Rounds : round[r] \in {"none", "gone"}

Exit ==
    /\ server = "stopping"
    /\ RoomsAreGone
    /\ server' = "exited"
    /\ Kill
    /\ MarksSpoiled
    /\ UNCHANGED <<round, boots, interrupted>>

(* The process dies, with its rounds.                                      *)
Crash ==
    /\ Running
    /\ server' = "crashed"
    /\ round' = [r \in Rounds |-> IF round[r] = "none" THEN "none" ELSE "gone"]
    /\ Kill
    /\ MarksSpoiled
    /\ UNCHANGED <<boots, interrupted>>

Boot ==
    /\ server \in {"exited", "crashed"}
    /\ boots < MaxBoots
    /\ server' = "up"
    /\ interrupted' = {}
    /\ boots' = boots + 1
    /\ UNCHANGED <<sinkVars, round, spoiled>>

Next ==
    \/ \E r \in Rounds : Begins(r) \/ Plays(r) \/ RoundFinished(r)
                         \/ Disposed(r) \/ DisposalReturns(r)
    \/ \E c \in Calls : Repeats(c)
    \/ SinkWorks
    \/ Stop
    \/ Exit
    \/ Crash
    \/ Boot

Spec == Init /\ [][Next]_vars

(* The file and the database answer, one way or another.                   *)
Fairness ==
    /\ WF_vars(Running /\ ReadExisting /\ UNCHANGED <<stopVars, spoiled>>)
    /\ \A c \in Calls : WF_vars(/\ Running
                                /\ Works(c) \/ AppendFails(c) \/ QueryFails(c)
                                /\ MarksSpoiled
                                /\ UNCHANGED stopVars)

FairSpec == Spec /\ Fairness

-----------------------------------------------------------------------------
(* The destination keeps the promise of a log in which looking for a round *)
(* and adding its row are one step, although calls overlap, wait for one   *)
(* another, fail half-way and lose the process: results.ts:41-81,          *)
(* resultSink.ts:17-39.                                                    *)
ImplementsLog == Log!Spec

(* When the process has ended by itself, every round it interrupted can be *)
(* read in the destination, however its write overlapped others, waited    *)
(* for one or was late: only a write that failed, or a line that a torn    *)
(* one spoiled, loses it, never the end of the process (ArenaRoom.ts:347,  *)
(* 355-356, main.ts:16-17).                                                *)
InterruptedAreKept ==
    server = "exited" =>
        \A r \in interrupted :
            call[r] = "failed" \/ Log!Readable(KeyOf[r]) \/ KeyOf[r] \in spoiled

(* A call is answered, whether its own write or the one it waits for       *)
(* succeeds or fails, unless the process ends first (results.ts:43-58).    *)
EveryCallSettles ==
    \A c \in Calls : call[c] # "idle" ~> call[c] \in Answered \union {"lost"}
=============================================================================
