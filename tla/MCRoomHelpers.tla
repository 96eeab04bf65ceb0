---------------------------- MODULE MCRoomHelpers ----------------------------
(* Four parts that share no state: the formation of a round, the filter of  *)
(* hidden people, the way of a bot and the Mutirao.  Each behaviour is of   *)
(* one of them, with the others at rest.                                    *)
EXTENDS MCFormation, Stealth, NavGraph, Mutirao

VARIABLE helper

MCSideOf == [p \in Subjects |-> IF p = 1 THEN 0 ELSE 1]

\* Places of a floor by its streets: the second place looks as
\* near to the last as the third, and leads there by a longer way.  Nobody returns to the first place or
\* leaves the last.
PlaceAt == <<<<0, 0>>, <<0, 1>>, <<2, 0>>, <<3, 0>>, <<3, 1>>>>
Apart(x, y) == IF x < y THEN y - x ELSE x - y
MCMetres ==
  [a \in Places |-> [b \in Places |-> Apart(PlaceAt[a][1], PlaceAt[b][1])
                                        + Apart(PlaceAt[a][2], PlaceAt[b][2])]]
MCLinks == {<<1, 2>>, <<1, 3>>, <<1, 4>>, <<2, 3>>, <<2, 4>>, <<2, 5>>,
            <<3, 4>>, <<3, 5>>, <<4, 3>>, <<4, 5>>}

MCCrewSide == [p \in Crew |-> p % 2]
MCSquareArea == [c \in Squares |-> 2]

formationVars == <<cands, option, fill>>

FormationRests == cands = <<>> /\ option = Flex /\ fill = FALSE
NavRests == NavStart([n \in Places |-> {}]) /\ reach = {} /\ queue = {}

HelperInit ==
  /\ StealthInit /\ MutiraoInit
  /\ \/ helper = "formation" /\ Init /\ NavRests
     \/ helper = "bot" /\ NavInit /\ FormationRests
     \/ helper \in {"stealth", "mutirao"} /\ FormationRests /\ NavRests

FormationStep ==
  helper = "formation" /\ Next /\ UNCHANGED <<helper, stealthVars, navVars, mutiraoVars>>

StealthStep ==
  helper = "stealth" /\ StealthNext /\ UNCHANGED <<helper, formationVars, navVars, mutiraoVars>>

BotStep ==
  helper = "bot" /\ NavNext /\ UNCHANGED <<helper, formationVars, stealthVars, mutiraoVars>>

MutiraoStep ==
  helper = "mutirao" /\ MutiraoNext /\ UNCHANGED <<helper, formationVars, stealthVars, navVars>>

HelperNext == FormationStep \/ StealthStep \/ BotStep \/ MutiraoStep

HelperSpec ==
  HelperInit /\ [][HelperNext]_<<helper, formationVars, stealthVars, navVars, mutiraoVars>>
=============================================================================
