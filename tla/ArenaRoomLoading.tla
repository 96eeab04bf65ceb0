--------------------------- MODULE ArenaRoomLoading ---------------------------
(* ArenaRoom with a history variable: the last round each connection itself *)
(* confirmed with LOADED.  The room keeps that fact per slot (p.loaded), so *)
(* it survives a change of the connection behind the slot.                  *)
EXTENDS ArenaRoomProperties

VARIABLE acked

InitLoading == Init /\ acked = [s \in Sessions |-> 0]

NextLoading ==
  \/ \E s \in Sessions : Loaded(s) /\ room # "disposed"
                         /\ acked' = [acked EXCEPT ![s] = roundId]
  \/ /\ Next
     /\ ~ \E s \in Sessions : Loaded(s)
     /\ acked' = [s \in Sessions |-> IF net'[s] = "left" THEN 0 ELSE acked[s]]

SpecLoading == InitLoading /\ [][NextLoading]_<<vars, acked>>

(* architecture.md draws "todos carregaram / 15 s" on the arrow from        *)
(* loading to countdown: before the deadline the countdown waits for the    *)
(* confirmation of every connected player.                                  *)
AwaitedConfirmed ==
  phase = "loading" /\ phase' = "countdown" =>
    \/ ticksLeft = 1
    \/ \A p \in AwaitedPlayers : acked[players[p].session] = roundId
CountdownWaitsForAll == [][AwaitedConfirmed]_<<vars, acked>>
=============================================================================
