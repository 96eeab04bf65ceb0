------------------------------ MODULE Formation ------------------------------
(***************************************************************************)
(* The formation of the next round (apps/game-server/src/formation.ts):    *)
(* who plays, in which team, who waits on the bench and how many bots      *)
(* complete the teams.  The code is a pure, deterministic function of the  *)
(* candidates; so are the operators below.                                 *)
(*                                                                         *)
(* A set of candidates is a function from player ids to records            *)
(*     [team : Teams, sitOuts : Nat]                                       *)
(* joinOrder is left out: both joinCounter and nextPlayerId are advanced   *)
(* by the one statement block that admits a person, so among people the    *)
(* order of arrival is the order of the player ids.                        *)
(***************************************************************************)
EXTENDS Integers, FiniteSets

Teams == {0, 1}

\* the option "flex" is coded as 0; the fixed limits are 1, 2, 4, 8
Flex == 0

LesserOf(a, b) == IF a <= b THEN a ELSE b

-----------------------------------------------------------------------------
(* Size of a team: half of the people, rounded up when bots complete the   *)
(* smaller team, capped by the chosen limit and by MaxTeamSize.            *)
TeamSizeFor(n, option, fillWithBots, maxTeamSize) ==
  LET half   == IF fillWithBots THEN (n + 1) \div 2 ELSE n \div 2
      wanted == IF option = Flex THEN half
                ELSE IF fillWithBots THEN option ELSE LesserOf(option, half)
      capped == LesserOf(maxTeamSize, wanted)
  IN  IF fillWithBots /\ n > 0 /\ capped = 0 THEN 1 ELSE capped

(* Variant: only the order of arrival counts.                              *)
AheadByArrival(c, p, q) == p < q

(* The sort of the candidates: whoever waited more rounds first, then      *)
(* whoever arrived first.                                                  *)
Ahead(c, p, q) ==
  \/ c[p].sitOuts > c[q].sitOuts
  \/ c[p].sitOuts = c[q].sitOuts /\ p < q

(* The candidates that get one of the 2 * size seats.                      *)
Playing(c, size) ==
  {p \in DOMAIN c : Cardinality({q \in DOMAIN c : Ahead(c, q, p)}) < 2 * size}

(* Taking the players in that order, each gets the preferred team while it *)
(* has a seat.  There are at most 2 * size of them, so at most one team is *)
(* wanted by more than size: a player is moved exactly when size players   *)
(* ahead of it want the same team (MCFormation compares this with the loop *)
(* of the code).                                                           *)
SeatedInPreference(c, size, p) ==
  Cardinality({q \in Playing(c, size) :
                 c[q].team = c[p].team /\ Ahead(c, q, p)}) < size

(* Variant: the preference is granted whether or not the team is full.     *)
TeamIgnoringLimit(c, size, p) == c[p].team

(* Variant: everybody ahead counts, in whichever team they were seated.    *)
TeamByRank(c, size, p) ==
  IF Cardinality({q \in Playing(c, size) : Ahead(c, q, p)}) < size
  THEN c[p].team ELSE 1 - c[p].team

(* the team the code gives to a player                                     *)
TeamOf(c, size, p) ==
  IF SeatedInPreference(c, size, p) THEN c[p].team ELSE 1 - c[p].team

HumansIn(c, size, t) ==
  Cardinality({p \in Playing(c, size) : TeamOf(c, size, p) = t})

BotsIn(c, size, fillWithBots, t) ==
  IF fillWithBots THEN size - HumansIn(c, size, t) ELSE 0

(* A round cannot start with nobody, nor with one person and no bots.      *)
Blocked(c, size) == DOMAIN c = {} \/ size = 0
=============================================================================
