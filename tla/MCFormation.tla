----------------------------- MODULE MCFormation -----------------------------
(* The closed form of Formation against the loop of formation.ts, for every *)
(* table of at most MaxPeople candidates, built one arrival at a time.      *)
EXTENDS Formation, SequencesExt

CONSTANTS MaxPeople, MaxSitOuts, MaxTeamSize, Limits

ASSUME FormationLimits ==
  /\ MaxPeople \in Nat /\ MaxSitOuts \in Nat
  /\ MaxTeamSize \in Nat \ {0} /\ Limits \subseteq Nat

VARIABLES cands, option, fill

Init == /\ cands = <<>>
        /\ option \in Limits /\ fill \in BOOLEAN

Arrives ==
  /\ Len(cands) < MaxPeople
  /\ \E t \in Teams, n \in 0..MaxSitOuts :
       cands' = Append(cands, [team |-> t, sitOuts |-> n])
  /\ UNCHANGED <<option, fill>>

Complete == Len(cands) = MaxPeople /\ UNCHANGED <<cands, option, fill>>

Next == Arrives \/ Complete
Spec == Init /\ [][Next]_<<cands, option, fill>>

Size == TeamSizeFor(Len(cands), option, fill, MaxTeamSize)

-----------------------------------------------------------------------------
(* lines 42 to 52 as they are written: sort, take the first seats, and give *)
(* each the preferred team while it has room                                *)
Foremost(S) == CHOOSE p \in S : \A q \in S \ {p} : Ahead(cands, p, q)
Order ==
  LET sorted[k \in 0..Len(cands)] ==
        IF k = 0 THEN <<>>
        ELSE Append(sorted[k - 1], Foremost(DOMAIN cands \ Range(sorted[k - 1])))
  IN  sorted[Len(cands)]
Seated == SubSeq(Order, 1, LesserOf(2 * Size, Len(cands)))

\* not a team
Waiting == 2

GiveSeat(acc, p) ==
  LET want == cands[p].team
      t == IF acc.count[want] < Size THEN want ELSE IF want = 0 THEN 1 ELSE 0
  IN  [count |-> [acc.count EXCEPT ![t] = @ + 1],
       teamOf |-> [acc.teamOf EXCEPT ![p] = t]]

Loop == FoldLeft(GiveSeat,
                 [count |-> [t \in Teams |-> 0],
                  teamOf |-> [p \in DOMAIN cands |-> Waiting]], Seated)

-----------------------------------------------------------------------------
(* The count of those ahead that want the same team decides as the loop's   *)
(* running count of seats does, who was moved there included.               *)
SameAsLoop ==
  LET loop    == Loop
      playing == Playing(cands, Size)
  IN  /\ playing = {p \in DOMAIN cands : loop.teamOf[p] # Waiting}
      /\ \A p \in playing : TeamOf(cands, Size, p) = loop.teamOf[p]
      /\ \A t \in Teams : HumansIn(cands, Size, t) = loop.count[t]

(* What the comment of planFormation promises of every plan that is not     *)
(* blocked: two equal teams within the limits, nobody invented, no seat     *)
(* empty for lack of a bot, a bench only when the seats are taken.           *)
PlanIsFair ==
  ~Blocked(cands, Size) =>
    /\ \A t \in Teams :
         LET humans == HumansIn(cands, Size, t)
             bots   == BotsIn(cands, Size, fill, t)
         IN  /\ bots >= 0 /\ humans + bots = Size
             /\ Playing(cands, Size) # DOMAIN cands => humans = Size
    /\ Size <= MaxTeamSize /\ (option # Flex => Size <= option)
=============================================================================
