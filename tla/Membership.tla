----------------------------- MODULE Membership -----------------------------
(***************************************************************************)
(* What a room promises the people of a session, whatever it is made of    *)
(* (apps/game-server/src/rooms/ArenaRoom.ts, docs/networking.md): one      *)
(* place for a person, one connection that speaks for it, a host who is    *)
(* there.                                                                  *)
(*                                                                         *)
(* A connection speaks for one person from the moment it enters until it   *)
(* is displaced or leaves, and never again: what the transport still       *)
(* reports of it changes nothing.  Rounds, teams and votes do not change   *)
(* who is a member, except that places kept by bots are given up together. *)
(***************************************************************************)
EXTENDS Naturals, FiniteSets

CONSTANTS Users,      \* the people
          Sessions,   \* their connections
          Creators,   \* those who may open an empty room
          NoUser, NoSession,
          MaxMembers  \* newcomers are refused from so many members on

VARIABLES doors,      \* "open", "closing" or "disposed"
          place,      \* of each person: "vacant", "connected", "reconnecting"
                      \* or, kept by a bot, "replaced_by_bot"
          voice,      \* the connection that speaks for each person
          host,
          banned,     \* who may not enter and gets no window
          used        \* connections that entered

memberVars == <<doors, place, voice, host, banned, used>>

Members == {u \in Users : voice[u] # NoSession}

Init ==
    /\ doors = "open"
    /\ place = [u \in Users |-> "vacant"]
    /\ voice = [u \in Users |-> NoSession]
    /\ host = NoUser
    /\ banned = {} /\ used = {}

(* Somebody enters, comes back to a kept place, or goes on elsewhere.      *)
Enters(u, s) ==
    /\ doors = "open" /\ u \notin banned /\ s \notin used
    /\ u \in Creators \/ \E v \in Users : place[v] # "vacant"
    /\ place[u] = "vacant" => Cardinality(Members) < MaxMembers
    /\ used' = used \union {s}
    /\ place' = [place EXCEPT ![u] = "connected"]
    /\ voice' = [voice EXCEPT ![u] = s]
    /\ host' = IF host = NoUser THEN u ELSE host
    /\ UNCHANGED <<doors, banned>>

(* The connection is lost; the place is kept for the window.               *)
Loses(u) ==
    /\ doors = "open" /\ u \notin banned
    /\ place[u] = "connected"
    /\ place' = [place EXCEPT ![u] = "reconnecting"]
    /\ UNCHANGED <<doors, voice, host, banned, used>>

(* The same connection is back within the window.                          *)
Regains(u) ==
    /\ place[u] = "reconnecting"
    /\ place' = [place EXCEPT ![u] = "connected"]
    /\ UNCHANGED <<doors, voice, host, banned, used>>

(* The connection left: the place is given up, or kept by a bot.           *)
Leaves(u) ==
    /\ u \in Members
    /\ place' \in {[place EXCEPT ![u] = kept] : kept \in {"vacant", "replaced_by_bot"}}
    /\ voice' = [voice EXCEPT ![u] = NoSession]
    /\ IF host # u THEN host' = host
       ELSE IF Members = {u} THEN host' = NoUser
       ELSE host' \in Members \ {u}
    /\ UNCHANGED <<doors, banned, used>>

(* A round starts or the room is back in the lobby: nobody is waited for.  *)
Forgets ==
    /\ place' = [u \in Users |-> IF place[u] = "replaced_by_bot" THEN "vacant" ELSE place[u]]
    /\ UNCHANGED <<doors, voice, host, banned, used>>

Expels(u) ==
    /\ place[u] = "connected"
    /\ banned' = banned \union {u}
    /\ UNCHANGED <<doors, place, voice, host, used>>

Forgives(u) ==
    /\ banned' = banned \ {u}
    /\ UNCHANGED <<doors, place, voice, host, used>>

Closes ==
    /\ doors = "open" /\ doors' = "closing"
    /\ UNCHANGED <<place, voice, host, banned, used>>

(* A room that is disposed of has no members left.                         *)
Shuts ==
    /\ doors # "disposed" /\ doors' = "disposed"
    /\ Members = {}
    /\ UNCHANGED <<place, voice, host, banned, used>>

Next ==
    \/ \E u \in Users :
          \/ \E s \in Sessions : Enters(u, s)
          \/ Loses(u) \/ Regains(u) \/ Leaves(u) \/ Expels(u) \/ Forgives(u)
    \/ Forgets \/ Closes \/ Shuts

Spec == Init /\ [][Next]_memberVars
=============================================================================
