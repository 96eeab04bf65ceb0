----------------------------- MODULE MCArenaRoom -----------------------------
(* ArenaRoom on small instances.  The configurations choose how many users *)
(* and connections there are.                                              *)
EXTENDS ArenaRoomProperties, TLC

(* People and connections are interchangeable; used by safety runs only.   *)
Symmetry == Permutations(Sessions) \cup Permutations(Users)

(* The run about rounds follows at most one connection that is lost or     *)
(* leaves at a time, none of them in the lobby, and nobody is expelled:    *)
(* those are the business of the run about sessions.                       *)
Away == {s \in Sessions : net[s] \in {"leaving", "dropped", "rejected", "ending"}}
CalmNetwork ==
  /\ kicked = {} /\ room # "closing"
  /\ Cardinality(Away) <= IF phase = "lobby" THEN 0 ELSE 1

(* There the connections have the names of the people: a person opens only *)
(* the connection of that name, and one permutation renames both.          *)
OwnConnection ==
  \A p \in Slots : players[p].session \in {players[p].user, NoSession}
UserSymmetry == Permutations(Users)

=============================================================================
