--------------------------- MODULE MatchRoundProofs ---------------------------
(***************************************************************************)
(* Proofs about a round of the Correio do Ara: the bearer of the capsule,  *)
(* what it may carry into a new life, the work of a delivery and the       *)
(* special.                                                                *)
(***************************************************************************)
EXTENDS MatchRound, TLAPS

(* What the four properties read of a player.                              *)
SameBody(q, r) ==
    /\ q.alive = r.alive
    /\ q.travel = r.travel
    /\ q.suspended = r.suspended
    /\ q.active = r.active

MatchInv ==
    /\ TypeOK
    /\ CarrierPlays
    /\ CapsuleStaysBehind
    /\ WorkIsOwn
    /\ SpecialHasWheel

(* A record stays in range when its fields are set one by one.             *)
LEMMA PlayerFields ==
    ASSUME NEW q \in SimPlayers, NEW b \in BOOLEAN, NEW n \in Nat, NEW g \in 0..2,
           NEW t \in Players \union {NoOne}
    PROVE  /\ [q EXCEPT !.alive = b] \in SimPlayers
           /\ [q EXCEPT !.charged = b] \in SimPlayers
           /\ [q EXCEPT !.active = b] \in SimPlayers
           /\ [q EXCEPT !.suspended = b] \in SimPlayers
           /\ [q EXCEPT !.wait = n] \in SimPlayers
           /\ [q EXCEPT !.safe = n] \in SimPlayers
           /\ [q EXCEPT !.timer = n] \in SimPlayers
           /\ [q EXCEPT !.travel = g] \in SimPlayers
           /\ [q EXCEPT !.target = t] \in SimPlayers
  BY DEF SimPlayers

(* The same of the capsule.                                                *)
LEMMA CapsuleFields ==
    ASSUME NEW c \in Capsules, NEW n \in Nat, NEW s \in CapsuleStates, NEW t \in Teams
    PROVE  /\ [c EXCEPT !.state = s] \in Capsules
           /\ [c EXCEPT !.carrier = n] \in Capsules
           /\ [c EXCEPT !.timer = n] \in Capsules
           /\ [c EXCEPT !.progress = n] \in Capsules
           /\ [c EXCEPT !.carry = n] \in Capsules
           /\ [c EXCEPT !.seq = n] \in Capsules
           /\ \A u \in Teams \union {Undecided} : [c EXCEPT !.decided = u] \in Capsules
           /\ [c EXCEPT !.deliveries[t] = n] \in Capsules
  BY DEF Capsules

(* A new round is in order.                                                *)
LEMMA RoundStarts == Init => MatchInv
<1> SUFFICES ASSUME Init PROVE MatchInv
  OBVIOUS
<1>1. Fresh \in SimPlayers /\ ~Fresh.active
  BY TicksAssumption DEF Fresh, SimPlayers
<1>2. /\ capsule \in Capsules
      /\ capsule.carrier = NoOne /\ capsule.state = "aguardando"
  BY TicksAssumption, WaitsAssumption
  DEF Init, NewCapsule, Capsules, CapsuleStates, Teams, Undecided, NoOne
<1>3. TypeOK
  <2>1. /\ players \in [Players -> SimPlayers]
        /\ thrown \in [Players -> Nat] /\ spinning \in [Players -> Nat]
        /\ life \in [Players -> Nat]
    BY <1>1 DEF Init
  <2>2. turn \in Between..Modes
    BY PlayersAssumption DEF Init, Between, Modes
  <2> QED
    BY <1>2, <2>1, <2>2 DEF Init, TypeOK
<1>4. CarrierPlays /\ CapsuleStaysBehind /\ WorkIsOwn
  BY <1>2 DEF CarrierPlays, CapsuleStaysBehind, WorkIsOwn, Borne
<1>5. SpecialHasWheel
  BY <1>1 DEF Init, SpecialHasWheel
<1> QED
  BY <1>3, <1>4, <1>5 DEF MatchInv

-----------------------------------------------------------------------------
(* A capsule that goes back has no bearer.                                 *)
LEMMA ReturnIsLoose ==
    ASSUME NEW c \in Capsules, tick \in Nat
    PROVE  /\ StartReturn(c, tick) \in Capsules
           /\ StartReturn(c, tick).deliveries = c.deliveries
           /\ StartReturn(c, tick).carrier = NoOne
           /\ StartReturn(c, tick).state = "retornando"
<1> DEFINE d == [c EXCEPT !.carrier = NoOne, !.timer = tick + Returning, !.state = "retornando"]
<1>1. tick + Returning \in Nat /\ NoOne \in Nat /\ "retornando" \in CapsuleStates
      /\ 0 \in Teams
  BY WaitsAssumption DEF CapsuleStates, NoOne, Teams
<1>2. d \in Capsules
  BY <1>1, CapsuleFields, Zenon
<1>3. d.carrier = NoOne /\ d.state = "retornando" /\ d.deliveries = c.deliveries
  BY DEF Capsules
<1> QED
  BY <1>2, <1>3 DEF StartReturn

(* A capsule whose bearer is gone has no bearer, and no other changes.     *)
LEMMA LeftIsLoose ==
    ASSUME NEW c \in Capsules, NEW gone \in SUBSET Players, tick \in Nat,
           c.carrier # NoOne => c.state \in Borne,
           NEW d \in Left(c, gone)
    PROVE  /\ d \in Capsules
           /\ d.deliveries = c.deliveries
           /\ \/ d = c /\ c.carrier \notin gone
              \/ d.carrier = NoOne /\ d.state \notin Borne
<1>1. CASE c.carrier \notin gone
  BY <1>1 DEF Left
<1>2. CASE c.carrier \in gone
  <2>1. c.carrier # NoOne
    BY <1>2, PlayersAssumption DEF Players, NoOne
  <2>2. IsCarrier(c, c.carrier)
    BY <2>1 DEF IsCarrier
  <2>3. PICK grounded \in BOOLEAN : d = Drop(c, c.carrier, tick, grounded)
    BY <1>2 DEF Left
  <2> DEFINE loose == [c EXCEPT !.carrier = NoOne, !.progress = 0, !.carry = 0]
  <2>4. loose \in Capsules /\ loose.deliveries = c.deliveries
    <3>1. 0 \in Nat /\ NoOne \in Nat /\ "caida" \in CapsuleStates /\ 0 \in Teams
      BY DEF NoOne, CapsuleStates, Teams
    <3>2. loose \in Capsules
      BY <3>1, CapsuleFields, Zenon
    <3> QED
      BY <3>2 DEF Capsules
  <2>5. CASE grounded
    <3> DEFINE e == [loose EXCEPT !.timer = tick + DropReturn, !.state = "caida"]
    <3>1. tick + DropReturn \in Nat /\ "caida" \in CapsuleStates /\ 0 \in Teams
      BY WaitsAssumption DEF CapsuleStates, Teams
    <3>2. d = e
      BY <2>2, <2>3, <2>5 DEF Drop
    <3>3. e \in Capsules
      BY <2>4, <3>1, CapsuleFields, Zenon
    <3>4. e.carrier = loose.carrier /\ e.state = "caida" /\ e.deliveries = loose.deliveries
      BY <2>4 DEF Capsules
    <3>5. loose.carrier = NoOne
      BY DEF Capsules
    <3> QED
      BY <2>4, <3>2, <3>3, <3>4, <3>5 DEF Borne
  <2>6. CASE ~grounded
    <3>1. d = StartReturn(loose, tick)
      BY <2>2, <2>3, <2>6 DEF Drop
    <3>2. "retornando" \notin Borne
      BY DEF Borne
    <3> HIDE DEF loose
    <3> QED
      BY <2>4, <3>1, <3>2, ReturnIsLoose
  <2> QED
    BY <2>5, <2>6
<1> QED
  BY <1>1, <1>2

(* Eliminations touch nobody but the victims.                              *)
LEMMA EliminatedFacts ==
    ASSUME NEW ps \in [Players -> SimPlayers], NEW victims \in SUBSET Players
    PROVE  /\ Eliminated(ps, victims) \in [Players -> SimPlayers]
           /\ \A q \in Players :
                /\ Eliminated(ps, victims)[q].active = ps[q].active
                /\ q \notin victims => Eliminated(ps, victims)[q] = ps[q]
<1> DEFINE out(q) == [ps[q] EXCEPT !.alive = FALSE, !.wait = RespawnDelay,
                                   !.travel = 0, !.timer = 0, !.target = NoOne]
<1>1. ASSUME NEW q \in Players
      PROVE  out(q) \in SimPlayers /\ out(q).active = ps[q].active
  <2>1. /\ ps[q] \in SimPlayers
        /\ FALSE \in BOOLEAN /\ RespawnDelay \in Nat /\ 0 \in Nat /\ 0 \in 0..2
        /\ NoOne \in Players \union {NoOne}
    BY TicksAssumption
  <2>2. out(q) \in SimPlayers
    BY <2>1, PlayerFields, Zenon
  <2> QED
    BY <2>1, <2>2 DEF SimPlayers
<1>2. Eliminated(ps, victims) = [q \in Players |-> IF q \in victims THEN out(q) ELSE ps[q]]
  BY DEF Eliminated
<1> HIDE DEF out
<1> QED
  BY <1>1, <1>2

(* Paint charges, and changes nothing else.                                *)
LEMMA ChargedFacts ==
    ASSUME NEW ps \in [Players -> SimPlayers], NEW painters
    PROVE  /\ Charged(ps, painters) \in [Players -> SimPlayers]
           /\ \A q \in Players : SameBody(Charged(ps, painters)[q], ps[q])
  BY DEF Charged, SimPlayers, SameBody

(* The end of protection changes nothing else.                             *)
LEMMA ProtectionFacts ==
    ASSUME NEW ps \in [Players -> SimPlayers], NEW p \in Players
    PROVE  /\ Exposed(ps, p) \in [Players -> SimPlayers]
           /\ \A q \in Players : SameBody(Exposed(ps, p)[q], ps[q])
           /\ \A stands \in Shielded(ps, p) :
                /\ stands \in [Players -> SimPlayers]
                /\ \A q \in Players : SameBody(stands[q], ps[q])
<1>1. Exposed(ps, p) \in [Players -> SimPlayers]
      /\ \A q \in Players : SameBody(Exposed(ps, p)[q], ps[q])
  BY DEF Exposed, SimPlayers, SameBody
<1>2. ASSUME NEW stands \in Shielded(ps, p)
      PROVE  stands \in [Players -> SimPlayers] /\ \A q \in Players : SameBody(stands[q], ps[q])
  <2>1. Earlier(ps[p].safe) \in Nat
    BY DEF Earlier, SimPlayers
  <2>2. PICK n \in Nat : stands = [ps EXCEPT ![p] = [@ EXCEPT !.safe = n]]
    BY <1>2, <2>1 DEF Shielded
  <2> QED
    BY <2>2 DEF SimPlayers, SameBody
<1> QED
  BY <1>1, <1>2

(* A respawn keeps the special and the lack of a controller.               *)
LEMMA RespawnedFacts ==
    ASSUME NEW ps \in [Players -> SimPlayers], NEW p \in Players
    PROVE  /\ Respawned(ps, p) \in [Players -> SimPlayers]
           /\ \A q \in Players :
                /\ Respawned(ps, p)[q].active = ps[q].active
                /\ q # p => Respawned(ps, p)[q] = ps[q]
<1> DEFINE new == [Fresh EXCEPT !.charged = ps[p].charged, !.active = ps[p].active,
                                !.suspended = ps[p].suspended]
<1>1. Fresh \in SimPlayers
  BY TicksAssumption DEF Fresh, SimPlayers
<1>2. /\ ps[p].charged \in BOOLEAN /\ ps[p].active \in BOOLEAN /\ ps[p].suspended \in BOOLEAN
      /\ 0 \in Nat /\ 0 \in 0..2 /\ NoOne \in Players \union {NoOne}
  BY DEF SimPlayers
<1>3. new \in SimPlayers
  BY <1>1, <1>2, PlayerFields, Zenon
<1>4. new.active = ps[p].active
  BY <1>1 DEF SimPlayers
<1>5. Respawned(ps, p) = [ps EXCEPT ![p] = new]
  BY DEF Respawned
<1> HIDE DEF new
<1> QED
  BY <1>3, <1>4, <1>5

(* A special and a departure concern one player.                           *)
LEMMA ChoiceFacts ==
    ASSUME NEW ps \in [Players -> SimPlayers], NEW p \in Players, NEW t \in Players
    PROVE  /\ Activated(ps, p) \in [Players -> SimPlayers]
           /\ Activated(ps, p)[p].active
           /\ Activated(ps, p)[p].alive = ps[p].alive
           /\ Activated(ps, p)[p].travel = ps[p].travel
           /\ Activated(ps, p)[p].suspended = ps[p].suspended
           /\ Departed(ps, p, t) \in [Players -> SimPlayers]
           /\ Departed(ps, p, t)[p].active = ps[p].active
           /\ \A q \in Players \ {p} : /\ Activated(ps, p)[q] = ps[q]
                                       /\ Departed(ps, p, t)[q] = ps[q]
<1> DEFINE a == [ps[p] EXCEPT !.charged = FALSE, !.active = TRUE, !.safe = 0]
           d == [ps[p] EXCEPT !.travel = 1, !.timer = Prep, !.target = t, !.safe = 0]
<1>1. /\ ps[p] \in SimPlayers
      /\ FALSE \in BOOLEAN /\ TRUE \in BOOLEAN /\ 0 \in Nat /\ Prep \in Nat /\ 1 \in 0..2
      /\ t \in Players \union {NoOne}
  BY TicksAssumption
<1>2. a \in SimPlayers /\ d \in SimPlayers
  BY <1>1, PlayerFields, Zenon
<1>3. /\ a.active /\ a.alive = ps[p].alive /\ a.travel = ps[p].travel
      /\ a.suspended = ps[p].suspended
      /\ d.active = ps[p].active
  BY <1>1 DEF SimPlayers
<1>4. /\ Activated(ps, p) = [ps EXCEPT ![p] = a]
      /\ Departed(ps, p, t) = [ps EXCEPT ![p] = d]
  BY DEF Activated, Departed
<1> HIDE DEF a, d
<1> QED
  BY <1>2, <1>3, <1>4

(* A tick of a journey concerns the traveller, and not its special.        *)
LEMMA TravelledFacts ==
    ASSUME NEW ps \in [Players -> SimPlayers], NEW p \in Players, NEW found \in BOOLEAN
    PROVE  /\ Travelled(ps, p, found) \in [Players -> SimPlayers]
           /\ Travelled(ps, p, found)[p].active = ps[p].active
           /\ \A q \in Players \ {p} : Travelled(ps, p, found)[q] = ps[q]
<1> DEFINE q == ps[p]
           timer == Earlier(q.timer)
           over == [q EXCEPT !.travel = 0, !.timer = 0, !.target = NoOne]
           later == [q EXCEPT !.timer = timer]
           up == [q EXCEPT !.travel = 2, !.timer = Flight]
           new == IF q.travel = 1 /\ ~ps[q.target].alive THEN over
                  ELSE IF timer > 0 THEN later
                  ELSE IF q.travel = 1 /\ found THEN up
                  ELSE over
<1>1. q \in SimPlayers /\ timer \in Nat
  BY DEF SimPlayers, Earlier
<1>2. over \in SimPlayers /\ later \in SimPlayers /\ up \in SimPlayers
  <2>1. /\ Flight \in Nat /\ 0 \in Nat /\ 0 \in 0..2 /\ 2 \in 0..2
        /\ NoOne \in Players \union {NoOne}
    BY TicksAssumption
  <2> HIDE DEF q, timer
  <2> QED
    BY <1>1, <2>1, PlayerFields, Zenon
<1>3. over.active = q.active /\ later.active = q.active /\ up.active = q.active
  BY <1>1 DEF SimPlayers
<1>4. new \in SimPlayers /\ new.active = q.active
  BY <1>2, <1>3
<1>5. Travelled(ps, p, found) = [ps EXCEPT ![p] = new]
  BY DEF Travelled
<1> QED
  BY <1>4, <1>5

-----------------------------------------------------------------------------
(* What a tick of the capsule leaves.                                      *)
LEMMA TakenFacts ==
    ASSUME NEW c \in Capsules, NEW p \in Players
    PROVE  /\ Taken(c, p) \in Capsules
           /\ Taken(c, p).carrier = p /\ Taken(c, p).state = "carregada"
           /\ Taken(c, p).progress = 0
           /\ Taken(c, p).deliveries = c.deliveries
<1> DEFINE d == [c EXCEPT !.carrier = p, !.carry = 0, !.progress = 0, !.state = "carregada"]
<1>1. 0 \in Nat /\ p \in Nat /\ "carregada" \in CapsuleStates /\ 0 \in Teams
  BY PlayersAssumption DEF CapsuleStates, Teams, Players
<1>2. d \in Capsules
  BY <1>1, CapsuleFields, Zenon
<1>3. /\ d.carrier = p /\ d.state = "carregada" /\ d.progress = 0
      /\ d.deliveries = c.deliveries
  BY DEF Capsules
<1> QED
  BY <1>2, <1>3 DEF Taken

(* A delivery leaves the capsule with nobody.                              *)
LEMMA DeliveredFacts ==
    ASSUME NEW c \in Capsules, NEW team \in Teams, tick \in Nat
    PROVE  /\ Delivered(c, team, tick) \in Capsules
           /\ Delivered(c, team, tick).carrier = NoOne
           /\ Delivered(c, team, tick).state = "entregue"
<1> DEFINE count == c.deliveries[team] + 1
           winner == IF count >= Target THEN team ELSE c.decided
           d == [c EXCEPT !.deliveries[team] = count, !.carrier = NoOne, !.progress = 0,
                          !.seq = c.seq + 1, !.timer = tick + Pause, !.state = "entregue",
                          !.decided = winner]
<1>1. /\ count \in Nat /\ NoOne \in Nat /\ 0 \in Nat /\ c.seq + 1 \in Nat
      /\ tick + Pause \in Nat /\ "entregue" \in CapsuleStates
      /\ winner \in Teams \union {Undecided}
  BY WaitsAssumption DEF Capsules, CapsuleStates, NoOne
<1>2. Delivered(c, team, tick) = d
  BY Zenon DEF Delivered
<1> HIDE DEF count, winner
<1>3. d \in Capsules
  <2> DEFINE d1 == [c EXCEPT !.deliveries[team] = count]
             d2 == [d1 EXCEPT !.carrier = NoOne]
             d3 == [d2 EXCEPT !.progress = 0]
             d4 == [d3 EXCEPT !.seq = c.seq + 1]
             d5 == [d4 EXCEPT !.timer = tick + Pause]
             d6 == [d5 EXCEPT !.state = "entregue"]
             d7 == [d6 EXCEPT !.decided = winner]
  <2>1. d1 \in Capsules /\ d1.seq = c.seq
    BY <1>1 DEF Capsules
  <2>2. d2 \in Capsules
    <3> HIDE DEF d1
    <3> QED  BY <1>1, <2>1 DEF Capsules
  <2>3. d3 \in Capsules
    <3> HIDE DEF d2
    <3> QED  BY <1>1, <2>2 DEF Capsules
  <2>4. d4 \in Capsules
    <3> HIDE DEF d3
    <3> QED  BY <1>1, <2>3 DEF Capsules
  <2>5. d5 \in Capsules
    <3> HIDE DEF d4
    <3> QED  BY <1>1, <2>4 DEF Capsules
  <2>6. d6 \in Capsules
    <3> HIDE DEF d5
    <3> QED  BY <1>1, <2>5 DEF Capsules
  <2>7. d7 \in Capsules
    <3> HIDE DEF d6
    <3> QED  BY <1>1, <2>6 DEF Capsules
  <2>8. d = d7
    OBVIOUS
  <2> QED
    BY <2>7, <2>8, Zenon
<1>4. d.carrier = NoOne /\ d.state = "entregue"
  BY <1>1 DEF Capsules
<1> QED
  BY <1>2, <1>3, <1>4, Zenon

(* One tick of a borne capsule: it stays with its bearer or has none, and  *)
(* what was worked is at most what the bearer worked without a break.      *)
LEMMA CarriedFacts ==
    ASSUME NEW c \in Capsules, NEW team \in Teams, NEW working \in BOOLEAN, tick \in Nat,
           NEW h \in Nat,
           c.state \in Borne, c.progress <= h,
           c.state = "carregada" => c.progress = 0
    PROVE  LET d == Carried(c, team, working, tick)
               now == IF working THEN h + 1 ELSE 0
           IN  /\ d \in Capsules
               /\ \/ d.carrier = c.carrier /\ d.state \in Borne /\ d.progress <= now
                  \/ d.carrier = NoOne /\ d.state \notin Borne
               /\ d.state = "carregada" => d.progress = 0
               /\ d.deliveries # c.deliveries => now >= Deliver
<1> DEFINE older == [c EXCEPT !.carry = c.carry + 1]
           now == IF working THEN h + 1 ELSE 0
           d == Carried(c, team, working, tick)
           broken == [older EXCEPT !.progress = 0, !.state = "carregada"]
           worked == [older EXCEPT !.progress = older.progress + 1, !.state = "em_entrega"]
<1> SUFFICES /\ d \in Capsules
             /\ \/ d.carrier = c.carrier /\ d.state \in Borne /\ d.progress <= now
                \/ d.carrier = NoOne /\ d.state \notin Borne
             /\ d.state = "carregada" => d.progress = 0
             /\ d.deliveries # c.deliveries => now >= Deliver
  OBVIOUS
<1>1. /\ older \in Capsules
      /\ older.carrier = c.carrier /\ older.state = c.state
      /\ older.progress = c.progress /\ older.deliveries = c.deliveries
  BY DEF Capsules
<1>2. c.progress \in Nat
  BY DEF Capsules
<1>3. d = IF older.carry >= MaxCarry THEN StartReturn(older, tick)
          ELSE IF ~working THEN Interrupted(older)
          ELSE IF c.progress + 1 >= Deliver THEN Delivered(older, team, tick)
          ELSE worked
  BY Zenon DEF Carried
<1>4. Interrupted(older) = IF c.state = "em_entrega" THEN broken ELSE older
  BY <1>1, Zenon DEF Interrupted
<1> HIDE DEF older, d
<1>5. /\ broken \in Capsules
      /\ broken.carrier = c.carrier /\ broken.state = "carregada"
      /\ broken.progress = 0 /\ broken.deliveries = c.deliveries
  <2>1. 0 \in Nat /\ "carregada" \in CapsuleStates /\ 0 \in Teams
    BY DEF CapsuleStates, Teams
  <2>2. broken \in Capsules
    BY <1>1, <2>1, CapsuleFields, Zenon
  <2> QED
    BY <1>1, <2>2 DEF Capsules
<1>6. /\ worked \in Capsules
      /\ worked.carrier = c.carrier /\ worked.state = "em_entrega"
      /\ worked.progress = c.progress + 1 /\ worked.deliveries = c.deliveries
  <2>1. older.progress + 1 \in Nat /\ "em_entrega" \in CapsuleStates /\ 0 \in Teams
    BY <1>1, <1>2 DEF CapsuleStates, Teams
  <2>2. worked \in Capsules
    BY <1>1, <2>1, CapsuleFields, Zenon
  <2> QED
    BY <1>1, <2>2 DEF Capsules
<1> HIDE DEF broken, worked
<1>7. CASE older.carry >= MaxCarry
  BY <1>1, <1>3, <1>7, ReturnIsLoose DEF Borne
<1>8. CASE ~(older.carry >= MaxCarry) /\ ~working
  <2>1. d = Interrupted(older)
    BY <1>3, <1>8
  <2>2. CASE c.state = "em_entrega"
    BY <1>4, <1>5, <1>8, <2>1, <2>2 DEF Borne
  <2>3. CASE c.state # "em_entrega"
    BY <1>1, <1>4, <1>8, <2>1, <2>3 DEF Borne
  <2> QED
    BY <2>2, <2>3
<1>9. CASE ~(older.carry >= MaxCarry) /\ working /\ c.progress + 1 >= Deliver
  <2>1. d = Delivered(older, team, tick)
    BY <1>3, <1>9
  <2>2. now >= Deliver
    BY <1>2, <1>9, WaitsAssumption
  <2> QED
    BY <1>1, <2>1, <2>2, DeliveredFacts DEF Borne
<1>10. CASE ~(older.carry >= MaxCarry) /\ working /\ ~(c.progress + 1 >= Deliver)
  <2>1. d = worked
    BY <1>3, <1>10
  <2> QED
    BY <1>2, <1>6, <1>10, <2>1 DEF Borne
<1> QED
  BY <1>7, <1>8, <1>9, <1>10

(* One tick of a capsule nobody bears.                                     *)
LEMMA LooseFacts ==
    ASSUME NEW c \in Capsules, tick \in Nat
    PROVE  /\ Waiting(c, tick) \in Capsules
           /\ Waiting(c, tick).carrier = c.carrier
           /\ Waiting(c, tick).deliveries = c.deliveries
           /\ Waiting(c, tick).state \in {c.state, "disponivel"}
           /\ Lying(c, NoOne, tick) \in Capsules
           /\ Lying(c, NoOne, tick).carrier \in {c.carrier, NoOne}
           /\ Lying(c, NoOne, tick).deliveries = c.deliveries
           /\ Lying(c, NoOne, tick).state \in {c.state, "retornando"}
<1>1. /\ Waiting(c, tick) \in Capsules
      /\ Waiting(c, tick).carrier = c.carrier
      /\ Waiting(c, tick).deliveries = c.deliveries
      /\ Waiting(c, tick).state \in {c.state, "disponivel"}
  BY DEF Waiting, Capsules, CapsuleStates
<1>2. Lying(c, NoOne, tick) \in {c, StartReturn(c, tick)}
  BY DEF Lying
<1> QED
  BY <1>1, <1>2, ReturnIsLoose

-----------------------------------------------------------------------------
(* What an action outside the modes has to leave of the capsule: it stays  *)
(* with a bearer nothing happened to, or has none.                         *)
LEMMA BearerStays ==
    ASSUME MatchInv,
           capsule' \in Capsules,
           \/ capsule' = capsule
           \/ capsule'.carrier = NoOne /\ capsule'.state \notin Borne,
           capsule'.carrier # NoOne =>
              /\ players'[capsule.carrier].alive = players[capsule.carrier].alive
              /\ players'[capsule.carrier].travel = players[capsule.carrier].travel
              /\ players'[capsule.carrier].suspended = players[capsule.carrier].suspended
              /\ life'[capsule.carrier] = life[capsule.carrier],
           UNCHANGED <<takenIn, held>>
    PROVE  /\ capsule'.carrier \in Players \union {NoOne}
           /\ CarrierPlays' /\ CapsuleStaysBehind' /\ WorkIsOwn'
<1>1. CASE capsule' = capsule
  BY <1>1 DEF MatchInv, TypeOK, CarrierPlays, CapsuleStaysBehind, WorkIsOwn
<1>2. CASE capsule'.carrier = NoOne /\ capsule'.state \notin Borne
  BY <1>2 DEF CarrierPlays, CapsuleStaysBehind, WorkIsOwn, Borne
<1> QED
  BY <1>1, <1>2

(* The number of a player's turn is one, and so is what comes after it.    *)
LEMMA TurnFacts ==
    /\ \A p \in Players : p \in Between..Modes /\ p + 1 \in Between..Modes
    /\ 1 \in Between..Modes /\ Between \in Between..Modes /\ Modes \in Between..Modes
  BY PlayersAssumption DEF Players, Between, Modes

(* A tick begins.                                                          *)
LEMMA BeginTickKeeps ==
    ASSUME MatchInv, BeginTick
    PROVE  MatchInv' /\ capsule'.deliveries = capsule.deliveries
<1>1. UNCHANGED <<players, capsule, thrown, spinning, again, life, takenIn, held>>
  BY DEF BeginTick, rulesVars, history
<1>2. TypeOK'
  BY <1>1, TurnFacts DEF MatchInv, TypeOK, BeginTick
<1> QED
  BY <1>1, <1>2 DEF MatchInv, CarrierPlays, CapsuleStaysBehind, WorkIsOwn, SpecialHasWheel

(* A player waits.                                                         *)
LEMMA WaitsKeeps ==
    ASSUME MatchInv, NEW p \in Players, Waits(p)
    PROVE  MatchInv' /\ capsule'.deliveries = capsule.deliveries
<1>1. UNCHANGED <<players, capsule, thrown, spinning, phase, tick, life, takenIn, held>>
  BY DEF Waits, rulesVars, history
<1>2. TypeOK'
  BY <1>1, TurnFacts DEF MatchInv, TypeOK, Waits, EndTurn
<1> QED
  BY <1>1, <1>2 DEF MatchInv, CarrierPlays, CapsuleStaysBehind, WorkIsOwn, SpecialHasWheel

(* A tick of a journey: who travels does not bear the capsule.             *)
LEMMA TravelsKeeps ==
    ASSUME MatchInv, NEW p \in Players, Travels(p)
    PROVE  MatchInv' /\ capsule'.deliveries = capsule.deliveries
<1>1. UNCHANGED <<capsule, thrown, spinning, phase, tick, life, takenIn, held>>
  BY DEF Travels, history
<1>2. PICK found \in BOOLEAN, recovers \in BOOLEAN :
        players' = Travelled(players, p, found) /\ EndTurn(recovers)
  BY DEF Travels
<1>3. players \in [Players -> SimPlayers]
  BY DEF MatchInv, TypeOK
<1>4. /\ players' \in [Players -> SimPlayers]
      /\ players'[p].active = players[p].active
      /\ \A q \in Players \ {p} : players'[q] = players[q]
  BY <1>2, <1>3, TravelledFacts
<1>5. TypeOK'
  BY <1>1, <1>2, <1>4, TurnFacts DEF MatchInv, TypeOK, Travels, EndTurn
<1>6. capsule.carrier # NoOne => capsule.carrier \in Players \ {p}
  BY DEF Travels, MatchInv, TypeOK, CarrierPlays
<1>7. CarrierPlays' /\ CapsuleStaysBehind' /\ WorkIsOwn'
  BY <1>1, <1>4, <1>5, <1>6, BearerStays DEF TypeOK
<1>8. SpecialHasWheel'
  BY <1>1, <1>4 DEF MatchInv, SpecialHasWheel
<1> QED
  BY <1>1, <1>5, <1>7, <1>8 DEF MatchInv

(* A player acts: whoever falls or is hit leaves the capsule, and its      *)
(* bearer cannot depart.                                                   *)
LEMMA ActsKeeps ==
    ASSUME MatchInv, NEW p \in Players, Acts(p)
    PROVE  MatchInv' /\ capsule'.deliveries = capsule.deliveries
<1>1. PICK fires \in BOOLEAN, special \in BOOLEAN, falls \in BOOLEAN, recovers \in BOOLEAN,
           victims \in SUBSET Vulnerable(players, TeamOf[p]),
           painters \in SUBSET {q \in {p} \intersect Painters : CanCharge(players[q])},
           target \in Players \union {NoOne} :
        LET ready == IF fires THEN Exposed(players, p) ELSE players
            shot == Charged(Eliminated(ready, victims), painters)
            spent == IF special THEN Activated(shot, p) ELSE shot
            gone == IF target # NoOne THEN Departed(spent, p, target) ELSE spent
        IN  /\ special => CanActivate(shot[p])
            /\ target # NoOne => CanTravel(spent, p, target)
            /\ Happen(Cardinality(victims) + One(special) + One(target # NoOne)
                      + One(falls) + One(recovers))
            /\ EndTurn(recovers)
            /\ thrown' = IF special THEN [thrown EXCEPT ![p] = @ + 1] ELSE thrown
            /\ \E stands \in Shielded(gone, p) :
                  players' = IF falls THEN Respawned(stands, p) ELSE stands
            /\ \E left \in Left(capsule, victims) :
                  capsule' \in IF falls THEN LeftByFallen(left, p) ELSE {left}
            /\ life' = IF falls THEN [life EXCEPT ![p] = @ + 1] ELSE life
  BY Zenon DEF Acts
<1> DEFINE ready == IF fires THEN Exposed(players, p) ELSE players
           hit == Eliminated(ready, victims)
           shot == Charged(hit, painters)
           spent == IF special THEN Activated(shot, p) ELSE shot
           gone == IF target # NoOne THEN Departed(spent, p, target) ELSE spent
<1>2. UNCHANGED <<spinning, phase, tick, takenIn, held>>
  BY DEF Acts
<1>3. PICK stands \in Shielded(gone, p) :
        players' = IF falls THEN Respawned(stands, p) ELSE stands
  BY <1>1
<1>4. PICK left \in Left(capsule, victims) :
        capsule' \in IF falls THEN LeftByFallen(left, p) ELSE {left}
  BY <1>1
<1>5. /\ players \in [Players -> SimPlayers] /\ capsule \in Capsules /\ tick \in Nat
      /\ capsule.carrier # NoOne <=> capsule.state \in Borne
      /\ capsule.carrier \in Players \union {NoOne}
  BY DEF MatchInv, TypeOK, CarrierPlays
<1>6. victims \in SUBSET Players /\ p \notin victims
  BY DEF Vulnerable
<1>7. /\ ready \in [Players -> SimPlayers]
      /\ \A q \in Players : SameBody(ready[q], players[q])
  BY <1>5, ProtectionFacts DEF SameBody
<1> HIDE DEF ready
<1>8. /\ hit \in [Players -> SimPlayers]
      /\ \A q \in Players : /\ hit[q].active = players[q].active
                            /\ q \notin victims => SameBody(hit[q], players[q])
  BY <1>6, <1>7, EliminatedFacts DEF SameBody
<1> HIDE DEF hit
<1>9. /\ shot \in [Players -> SimPlayers]
      /\ \A q \in Players : /\ shot[q].active = players[q].active
                            /\ q \notin victims => SameBody(shot[q], players[q])
  BY <1>8, ChargedFacts DEF SameBody
<1>10. /\ special => CanActivate(shot[p])
       /\ target # NoOne => CanTravel(spent, p, target)
       /\ thrown' = IF special THEN [thrown EXCEPT ![p] = @ + 1] ELSE thrown
       /\ life' = IF falls THEN [life EXCEPT ![p] = @ + 1] ELSE life
       /\ EndTurn(recovers)
  BY <1>1 DEF hit, ready
<1> HIDE DEF shot
<1>11. /\ spent \in [Players -> SimPlayers]
       /\ special => spent[p].active
       /\ ~special => spent[p].active = players[p].active
       /\ spent[p].alive = players[p].alive
       /\ spent[p].travel = players[p].travel
       /\ spent[p].suspended = players[p].suspended
       /\ \A q \in Players \ {p} : spent[q] = shot[q]
  <2>1. CASE special
    BY <1>6, <1>9, <2>1, ChoiceFacts DEF SameBody
  <2>2. CASE ~special
    BY <1>6, <1>9, <2>2 DEF SameBody
  <2> QED
    BY <2>1, <2>2
<1> HIDE DEF spent
<1>12. /\ gone \in [Players -> SimPlayers]
       /\ special => gone[p].active
       /\ ~special => gone[p].active = players[p].active
       /\ \A q \in Players \ {p} : gone[q] = shot[q]
       /\ target = NoOne => gone = spent
  BY <1>11, ChoiceFacts
<1> HIDE DEF gone
<1>13. /\ stands \in [Players -> SimPlayers]
       /\ \A q \in Players : SameBody(stands[q], gone[q])
  BY <1>12, ProtectionFacts
<1>14. /\ players' \in [Players -> SimPlayers]
       /\ special => players'[p].active
       /\ ~special => players'[p].active = players[p].active
       /\ \A q \in Players \ {p} : players'[q].active = players[q].active
       /\ \A q \in Players \ ({p} \union victims) : SameBody(players'[q], players[q])
       /\ ~falls /\ target = NoOne =>
             /\ players'[p].alive = players[p].alive
             /\ players'[p].travel = players[p].travel
             /\ players'[p].suspended = players[p].suspended
  <2>1. CASE falls
    <3>1. /\ players' \in [Players -> SimPlayers]
          /\ \A q \in Players : /\ players'[q].active = stands[q].active
                                /\ q # p => players'[q] = stands[q]
      BY <1>3, <1>13, <2>1, RespawnedFacts
    <3>2. \A q \in Players : /\ players'[q].active = gone[q].active
                             /\ q # p => SameBody(players'[q], gone[q])
      BY <1>13, <3>1 DEF SameBody
    <3> QED
      BY <1>9, <1>12, <2>1, <3>1, <3>2 DEF SameBody
  <2>2. CASE ~falls
    BY <1>3, <1>9, <1>11, <1>12, <1>13, <2>2 DEF SameBody
  <2> QED
    BY <2>1, <2>2
<1>15. /\ left \in Capsules /\ left.deliveries = capsule.deliveries
       /\ \/ left = capsule /\ capsule.carrier \notin victims
          \/ left.carrier = NoOne /\ left.state \notin Borne
  BY <1>5, <1>6, LeftIsLoose
<1>16. /\ capsule' \in Capsules /\ capsule'.deliveries = capsule.deliveries
       /\ \/ /\ capsule' = capsule
             /\ capsule.carrier \notin victims
             /\ falls => capsule.carrier # p
          \/ capsule'.carrier = NoOne /\ capsule'.state \notin Borne
  <2>1. CASE falls
    <3>1. capsule' \in Left(left, {p})
      BY <1>4, <2>1 DEF LeftByFallen
    <3>2. /\ capsule' \in Capsules /\ capsule'.deliveries = left.deliveries
          /\ \/ capsule' = left /\ left.carrier \notin {p}
             \/ capsule'.carrier = NoOne /\ capsule'.state \notin Borne
      BY <1>5, <1>15, <3>1, LeftIsLoose
    <3> QED
      BY <1>15, <3>2
  <2>2. CASE ~falls
    BY <1>4, <1>15, <2>2
  <2> QED
    BY <2>1, <2>2
<1>17. target # NoOne => capsule.carrier # p
  BY <1>5, <1>10, PlayersAssumption DEF CanTravel, IsCarrier, Players, NoOne
<1>18. capsule'.carrier # NoOne =>
         /\ SameBody(players'[capsule.carrier], players[capsule.carrier]) \/ capsule.carrier = p
         /\ players'[capsule.carrier].alive = players[capsule.carrier].alive
         /\ players'[capsule.carrier].travel = players[capsule.carrier].travel
         /\ players'[capsule.carrier].suspended = players[capsule.carrier].suspended
         /\ life'[capsule.carrier] = life[capsule.carrier]
  <2> SUFFICES ASSUME capsule'.carrier # NoOne
               PROVE  /\ players'[capsule.carrier].alive = players[capsule.carrier].alive
                      /\ players'[capsule.carrier].travel = players[capsule.carrier].travel
                      /\ players'[capsule.carrier].suspended = players[capsule.carrier].suspended
                      /\ SameBody(players'[capsule.carrier], players[capsule.carrier])
                            \/ capsule.carrier = p
                      /\ life'[capsule.carrier] = life[capsule.carrier]
    OBVIOUS
  <2>1. /\ capsule' = capsule /\ capsule.carrier \in Players
        /\ capsule.carrier \notin victims /\ (falls => capsule.carrier # p)
    BY <1>5, <1>16
  <2>2. life \in [Players -> Nat]
    BY DEF MatchInv, TypeOK
  <2>3. life'[capsule.carrier] = life[capsule.carrier]
    BY <1>10, <2>1, <2>2
  <2>4. CASE capsule.carrier = p
    BY <1>14, <1>17, <2>1, <2>3, <2>4
  <2>5. CASE capsule.carrier # p
    <3>1. SameBody(players'[capsule.carrier], players[capsule.carrier])
      BY <1>14, <2>1, <2>5
    <3> QED
      BY <2>3, <3>1 DEF SameBody
  <2> QED
    BY <2>4, <2>5
<1>19. CarrierPlays' /\ CapsuleStaysBehind' /\ WorkIsOwn'
       /\ capsule'.carrier \in Players \union {NoOne}
  BY <1>2, <1>16, <1>18, BearerStays
<1>20. SpecialHasWheel' /\ thrown' \in [Players -> Nat] /\ life' \in [Players -> Nat]
  <2>1. /\ thrown \in [Players -> Nat] /\ spinning \in [Players -> Nat]
        /\ life \in [Players -> Nat]
    BY DEF MatchInv, TypeOK
  <2>2. special => ~players[p].active
    BY <1>9, <1>10 DEF CanActivate
  <2>3. thrown' \in [Players -> Nat] /\ life' \in [Players -> Nat]
    BY <1>10, <2>1
  <2>4. ASSUME NEW q \in Players
        PROVE  thrown'[q] + spinning'[q] = IF players'[q].active THEN 1 ELSE 0
    BY <1>2, <1>10, <1>14, <2>1, <2>2 DEF MatchInv, SpecialHasWheel
  <2> QED
    BY <2>3, <2>4 DEF SpecialHasWheel
<1>21. turn' \in Between..Modes /\ again' \in BOOLEAN
  BY <1>10, TurnFacts DEF EndTurn, Acts
<1>22. TypeOK'
  BY <1>2, <1>14, <1>16, <1>19, <1>20, <1>21 DEF MatchInv, TypeOK
<1> QED
  BY <1>16, <1>19, <1>20, <1>22 DEF MatchInv

(* Wheels land, are lost or end, and with the last one the special; who is *)
(* hit leaves the capsule.                                                 *)
LEMMA StepWorldKeeps ==
    ASSUME MatchInv, StepWorld
    PROVE  MatchInv' /\ capsule'.deliveries = capsule.deliveries
<1> DEFINE RolledBy(lost, ends) == [p \in Players |->
                IF p \in lost THEN [players[p] EXCEPT !.active = FALSE, !.charged = TRUE]
                ELSE IF p \in ends THEN [players[p] EXCEPT !.active = FALSE]
                ELSE players[p]]
<1>1. PICK lands \in SUBSET Players, lost \in SUBSET Players, ends \in SUBSET Players :
        /\ lands \intersect lost = {}
        /\ \A p \in lands \union lost : thrown[p] > 0
        /\ \A p \in ends : spinning[p] > 0
        /\ thrown' = [p \in Players |-> IF p \in lands \union lost
                                        THEN thrown[p] - 1 ELSE thrown[p]]
        /\ spinning' = [p \in Players |-> spinning[p] + One(p \in lands) - One(p \in ends)]
        /\ \E victims \in SUBSET (Vulnerable(players, 0) \union Vulnerable(players, 1)),
              painters \in SUBSET {p \in Painters : CanCharge(RolledBy(lost, ends)[p])} :
            /\ Happen(Cardinality(victims))
            /\ players' = Eliminated(Charged(RolledBy(lost, ends), painters), victims)
            /\ capsule' \in Left(capsule, victims)
  BY DEF StepWorld
<1>2. UNCHANGED <<phase, tick, again, life, takenIn, held>> /\ turn' = Modes
  BY DEF StepWorld, history
<1>3. /\ players \in [Players -> SimPlayers] /\ capsule \in Capsules /\ tick \in Nat
      /\ thrown \in [Players -> Nat] /\ spinning \in [Players -> Nat]
      /\ capsule.carrier # NoOne <=> capsule.state \in Borne
      /\ capsule.carrier \in Players \union {NoOne}
  BY DEF MatchInv, TypeOK, CarrierPlays
<1> DEFINE rolled == RolledBy(lost, ends)
<1>4. PICK victims \in SUBSET (Vulnerable(players, 0) \union Vulnerable(players, 1)),
           painters \in SUBSET {p \in Painters : CanCharge(rolled[p])} :
        /\ players' = Eliminated(Charged(rolled, painters), victims)
        /\ capsule' \in Left(capsule, victims)
  BY <1>1
<1>5. victims \in SUBSET Players
  BY DEF Vulnerable
<1>5a. /\ lands \intersect lost = {}
       /\ \A p \in lands \union lost : thrown[p] > 0
       /\ \A p \in ends : spinning[p] > 0
       /\ thrown' = [p \in Players |-> IF p \in lands \union lost
                                       THEN thrown[p] - 1 ELSE thrown[p]]
       /\ spinning' = [p \in Players |-> spinning[p] + One(p \in lands) - One(p \in ends)]
  BY <1>1, Zenon
<1>6. /\ rolled \in [Players -> SimPlayers]
      /\ \A p \in Players :
            /\ p \in lost \union ends => ~rolled[p].active
            /\ p \notin lost \union ends => rolled[p].active = players[p].active
            /\ rolled[p].alive = players[p].alive
            /\ rolled[p].travel = players[p].travel
            /\ rolled[p].suspended = players[p].suspended
  <2> DEFINE out(p) == [players[p] EXCEPT !.active = FALSE, !.charged = TRUE]
             end(p) == [players[p] EXCEPT !.active = FALSE]
  <2>1. ASSUME NEW p \in Players
        PROVE  /\ out(p) \in SimPlayers
               /\ ~out(p).active
               /\ out(p).alive = players[p].alive
               /\ out(p).travel = players[p].travel
               /\ out(p).suspended = players[p].suspended
    <3>1. players[p] \in SimPlayers /\ FALSE \in BOOLEAN /\ TRUE \in BOOLEAN
      BY <1>3
    <3>2. out(p) \in SimPlayers
      BY <3>1 DEF SimPlayers
    <3> QED
      BY <3>1, <3>2 DEF SimPlayers
  <2>2. ASSUME NEW p \in Players
        PROVE  /\ end(p) \in SimPlayers
               /\ ~end(p).active
               /\ end(p).alive = players[p].alive
               /\ end(p).travel = players[p].travel
               /\ end(p).suspended = players[p].suspended
    <3>1. players[p] \in SimPlayers /\ FALSE \in BOOLEAN
      BY <1>3
    <3>2. end(p) \in SimPlayers
      BY <3>1 DEF SimPlayers
    <3> QED
      BY <3>1, <3>2 DEF SimPlayers
  <2>3. rolled = [p \in Players |-> IF p \in lost THEN out(p)
                                     ELSE IF p \in ends THEN end(p) ELSE players[p]]
    OBVIOUS
  <2> HIDE DEF rolled, out, end
  <2> QED
    BY <1>3, <2>1, <2>2, <2>3
<1> HIDE DEF rolled
<1>7. /\ Charged(rolled, painters) \in [Players -> SimPlayers]
      /\ \A p \in Players : SameBody(Charged(rolled, painters)[p], rolled[p])
  BY <1>6, ChargedFacts
<1>8. /\ players' \in [Players -> SimPlayers]
      /\ \A p \in Players :
            /\ players'[p].active = rolled[p].active
            /\ p \notin victims =>
                  /\ players'[p].alive = players[p].alive
                  /\ players'[p].travel = players[p].travel
                  /\ players'[p].suspended = players[p].suspended
  BY <1>4, <1>5, <1>6, <1>7, EliminatedFacts DEF SameBody
<1>9. /\ capsule' \in Capsules /\ capsule'.deliveries = capsule.deliveries
      /\ \/ capsule' = capsule /\ capsule.carrier \notin victims
         \/ capsule'.carrier = NoOne /\ capsule'.state \notin Borne
  BY <1>3, <1>4, <1>5, LeftIsLoose
<1>10. CarrierPlays' /\ CapsuleStaysBehind' /\ WorkIsOwn'
       /\ capsule'.carrier \in Players \union {NoOne}
  BY <1>2, <1>3, <1>8, <1>9, BearerStays
<1>11. ASSUME NEW p \in Players
       PROVE  /\ thrown'[p] \in Nat /\ spinning'[p] \in Nat
              /\ thrown'[p] + spinning'[p] = IF players'[p].active THEN 1 ELSE 0
  <2>1. thrown[p] + spinning[p] = IF players[p].active THEN 1 ELSE 0
    BY DEF MatchInv, SpecialHasWheel
  <2>2. thrown[p] \in Nat /\ spinning[p] \in Nat
    BY <1>3
  <2>3. thrown'[p] = IF p \in lands \union lost THEN thrown[p] - 1 ELSE thrown[p]
    BY <1>5a
  <2>4. spinning'[p] = spinning[p] + (IF p \in lands THEN 1 ELSE 0)
                                   - (IF p \in ends THEN 1 ELSE 0)
    BY <1>5a DEF One
  <2>5. /\ p \in lands \union lost => thrown[p] = 1 /\ spinning[p] = 0
        /\ p \in ends => spinning[p] = 1 /\ thrown[p] = 0
    BY <1>5a, <2>1, <2>2
  <2>6. /\ ~(p \in lands /\ p \in lost)
        /\ ~(p \in lands \union lost /\ p \in ends)
    BY <1>5a, <2>5
  <2>7. CASE p \in lands
    BY <1>6, <1>8, <2>1, <2>3, <2>4, <2>5, <2>6, <2>7
  <2>8. CASE p \in lost
    BY <1>6, <1>8, <2>3, <2>4, <2>5, <2>6, <2>8
  <2>9. CASE p \in ends
    BY <1>6, <1>8, <2>3, <2>4, <2>5, <2>6, <2>9
  <2>10. CASE p \notin lands \union lost \union ends
    <3>1. thrown'[p] = thrown[p] /\ spinning'[p] = spinning[p]
      BY <2>2, <2>3, <2>4, <2>10
    <3>2. players'[p].active = players[p].active
      BY <1>6, <1>8, <2>10
    <3> QED
      BY <2>1, <2>2, <3>1, <3>2
  <2> QED
    BY <2>7, <2>8, <2>9, <2>10
<1>12. /\ thrown' \in [Players -> Nat] /\ spinning' \in [Players -> Nat]
       /\ SpecialHasWheel'
  BY <1>5a, <1>11 DEF SpecialHasWheel
<1>13. TypeOK'
  BY <1>2, <1>8, <1>9, <1>10, <1>12, TurnFacts DEF MatchInv, TypeOK
<1> QED
  BY <1>9, <1>10, <1>12, <1>13 DEF MatchInv

(* The step of the capsule: a bearer is the one of before or somebody who  *)
(* plays, in the life it has, and only enough work delivers.               *)
LEMMA StepCorreioFacts ==
    ASSUME MatchInv, StepCorreio
    PROVE  /\ capsule' \in Capsules
           /\ takenIn' \in Nat /\ held' \in Nat
           /\ capsule'.carrier \in Players \union {NoOne}
           /\ capsule'.carrier # NoOne <=> capsule'.state \in Borne
           /\ capsule'.carrier # NoOne =>
                 /\ players[capsule'.carrier].alive
                 /\ players[capsule'.carrier].travel = 0
                 /\ ~players[capsule'.carrier].suspended
                 /\ life[capsule'.carrier] = takenIn'
           /\ WorkIsOwn'
           /\ capsule'.deliveries # capsule.deliveries => held' >= Deliver
<1>1. /\ players \in [Players -> SimPlayers] /\ capsule \in Capsules /\ tick \in Nat
      /\ capsule.carrier # NoOne <=> capsule.state \in Borne
      /\ capsule.carrier \in Players \union {NoOne}
      /\ takenIn \in Nat /\ held \in Nat /\ life \in [Players -> Nat]
      /\ capsule.progress \in Nat
  BY DEF MatchInv, TypeOK, CarrierPlays, Capsules
<1>2. CASE /\ capsule.state \in {"aguardando", "retornando", "entregue"}
           /\ capsule' = Waiting(capsule, tick)
           /\ held' = 0
           /\ UNCHANGED takenIn
  <2>1. /\ capsule' \in Capsules /\ capsule'.carrier = capsule.carrier
        /\ capsule'.deliveries = capsule.deliveries
        /\ capsule'.state \in {capsule.state, "disponivel"}
    BY <1>1, <1>2, LooseFacts
  <2> QED
    BY <1>1, <1>2, <2>1 DEF Borne, WorkIsOwn
<1>3. CASE /\ capsule.state \in {"disponivel", "caida"}
           /\ \E taker \in {p \in Players : CanTake(players[p])} \union {NoOne} :
                 /\ capsule' = Lying(capsule, taker, tick)
                 /\ takenIn' = IF taker = NoOne THEN takenIn ELSE life[taker]
           /\ held' = 0
  <2>1. PICK taker \in {p \in Players : CanTake(players[p])} \union {NoOne} :
          /\ capsule' = Lying(capsule, taker, tick)
          /\ takenIn' = IF taker = NoOne THEN takenIn ELSE life[taker]
    BY <1>3
  <2>2. CASE taker # NoOne
    <3>1. taker \in Players /\ CanTake(players[taker])
      BY <2>2
    <3>2. capsule' = Taken(capsule, taker)
      BY <2>1, <2>2 DEF Lying
    <3>3. /\ capsule' \in Capsules
          /\ capsule'.carrier = taker /\ capsule'.state = "carregada"
          /\ capsule'.progress = 0
          /\ capsule'.deliveries = capsule.deliveries
      BY <1>1, <3>1, <3>2, TakenFacts
    <3>4. takenIn' = life[taker] /\ held' = 0
      BY <1>3, <2>1, <2>2
    <3>5. /\ players[taker].alive /\ players[taker].travel = 0
          /\ ~players[taker].suspended
      BY <3>1 DEF CanTake
    <3>6. "carregada" \in Borne
      BY DEF Borne
    <3>7. WorkIsOwn'
      BY <3>3, <3>4 DEF WorkIsOwn
    <3> QED
      BY <1>1, <2>2, <3>1, <3>3, <3>4, <3>5, <3>6, <3>7
  <2>3. CASE taker = NoOne
    <3>1. /\ capsule' \in Capsules
          /\ capsule'.carrier \in {capsule.carrier, NoOne}
          /\ capsule'.deliveries = capsule.deliveries
          /\ capsule'.state \in {capsule.state, "retornando"}
      BY <1>1, <2>1, <2>3, LooseFacts
    <3> QED
      BY <1>1, <1>3, <2>1, <2>3, <3>1 DEF Borne, WorkIsOwn
  <2> QED
    BY <2>2, <2>3
<1>4. CASE /\ capsule.state \in Borne
           /\ LET bearer == capsule.carrier
              IN  \E working \in BOOLEAN :
                    /\ capsule' \in IF players[bearer].alive
                                    THEN {Carried(capsule, TeamOf[bearer], working, tick)}
                                    ELSE Left(capsule, {bearer})
                    /\ held' = IF working THEN held + 1 ELSE 0
           /\ UNCHANGED takenIn
  <2> DEFINE bearer == capsule.carrier
  <2>1. /\ bearer \in Players /\ TeamOf[bearer] \in Teams
        /\ players[bearer].alive /\ players[bearer].travel = 0
        /\ ~players[bearer].suspended
        /\ life[bearer] = takenIn
        /\ capsule.progress <= held
        /\ capsule.state = "carregada" => capsule.progress = 0
    BY <1>1, <1>4, PlayersAssumption
    DEF MatchInv, CarrierPlays, CapsuleStaysBehind, WorkIsOwn
  <2>2. PICK working \in BOOLEAN :
          /\ capsule' = Carried(capsule, TeamOf[bearer], working, tick)
          /\ held' = IF working THEN held + 1 ELSE 0
    BY <1>4, <2>1
  <2>3. /\ capsule' \in Capsules
        /\ \/ /\ capsule'.carrier = bearer /\ capsule'.state \in Borne
              /\ capsule'.progress <= held'
           \/ capsule'.carrier = NoOne /\ capsule'.state \notin Borne
        /\ capsule'.state = "carregada" => capsule'.progress = 0
        /\ capsule'.deliveries # capsule.deliveries => held' >= Deliver
    BY <1>1, <1>4, <2>1, <2>2, CarriedFacts
  <2>4. held' \in Nat
    BY <1>1, <2>2
  <2>5. WorkIsOwn'
    BY <2>3 DEF WorkIsOwn
  <2>6. bearer # NoOne
    BY <1>1, <1>4
  <2> QED
    BY <1>1, <1>4, <2>1, <2>3, <2>4, <2>5, <2>6
<1> QED
  BY <1>2, <1>3, <1>4 DEF StepCorreio

(* Who reappears was dead, and keeps its special.                          *)
LEMMA StepRespawnFacts ==
    ASSUME MatchInv, StepRespawn
    PROVE  /\ players' \in [Players -> SimPlayers]
           /\ life' \in [Players -> Nat]
           /\ \A q \in Players :
                 /\ players'[q].active = players[q].active
                 /\ players[q].alive =>
                      /\ SameBody(players'[q], players[q])
                      /\ life'[q] = life[q]
<1>1. players \in [Players -> SimPlayers] /\ life \in [Players -> Nat]
  BY DEF MatchInv, TypeOK
<1>2. ASSUME NEW q \in Players
      PROVE  /\ players'[q] \in SimPlayers
             /\ players'[q].active = players[q].active
             /\ players[q].alive => SameBody(players'[q], players[q])
  <2>1. CASE q \in Due
    <3>1. players'[q] = Respawned(players, q)[q] /\ ~players[q].alive
      BY <2>1 DEF StepRespawn, Due
    <3> QED
      BY <1>1, <3>1, RespawnedFacts
  <2>2. CASE q \notin Due
    <3>1. players'[q] = [players[q] EXCEPT !.wait = Earlier(players[q].wait)]
      BY <2>2 DEF StepRespawn
    <3>2. players[q] \in SimPlayers /\ Earlier(players[q].wait) \in Nat
      BY <1>1 DEF Earlier, SimPlayers
    <3> QED
      BY <3>1, <3>2 DEF SimPlayers, SameBody
  <2> QED
    BY <2>1, <2>2
<1>3. ASSUME NEW q \in Players
      PROVE  /\ life'[q] \in Nat
             /\ players[q].alive => life'[q] = life[q]
  BY <1>1 DEF StepRespawn, Due, One
<1>4. players' \in [Players -> SimPlayers] /\ life' \in [Players -> Nat]
  BY <1>2, <1>3 DEF StepRespawn
<1> QED
  BY <1>2, <1>3, <1>4

(* The modes, the respawns and the end of a tick.                          *)
LEMMA StepModesKeeps ==
    ASSUME MatchInv, StepModes
    PROVE  /\ MatchInv'
           /\ capsule'.deliveries # capsule.deliveries => held' >= Deliver
<1>1. StepCorreio /\ StepRespawn
      /\ UNCHANGED <<thrown, spinning, tick, again>>
      /\ turn' = Between /\ phase' \in {phase, "finished"}
  BY DEF StepModes
<1>2. /\ capsule' \in Capsules
      /\ takenIn' \in Nat /\ held' \in Nat
      /\ capsule'.carrier \in Players \union {NoOne}
      /\ capsule'.carrier # NoOne <=> capsule'.state \in Borne
      /\ capsule'.carrier # NoOne =>
            /\ players[capsule'.carrier].alive
            /\ players[capsule'.carrier].travel = 0
            /\ ~players[capsule'.carrier].suspended
            /\ life[capsule'.carrier] = takenIn'
      /\ WorkIsOwn'
      /\ capsule'.deliveries # capsule.deliveries => held' >= Deliver
  BY <1>1, StepCorreioFacts
<1>3. /\ players' \in [Players -> SimPlayers]
      /\ life' \in [Players -> Nat]
      /\ \A q \in Players :
            /\ players'[q].active = players[q].active
            /\ players[q].alive =>
                 /\ SameBody(players'[q], players[q])
                 /\ life'[q] = life[q]
  BY <1>1, StepRespawnFacts
<1>4. CarrierPlays' /\ CapsuleStaysBehind'
  BY <1>2, <1>3 DEF CarrierPlays, CapsuleStaysBehind, SameBody
<1>5. SpecialHasWheel'
  BY <1>1, <1>3 DEF MatchInv, SpecialHasWheel
<1>6. TypeOK'
  BY <1>1, <1>2, <1>3, TurnFacts DEF MatchInv, TypeOK
<1> QED
  BY <1>2, <1>4, <1>5, <1>6 DEF MatchInv

(* A connection drops: its player leaves the capsule, and takes it no more *)
(* until somebody controls it again.                                       *)
LEMMA RoomKeeps ==
    ASSUME MatchInv, NEW p \in Players, ConnectionDrops(p) \/ Controlled(p)
    PROVE  MatchInv' /\ capsule'.deliveries = capsule.deliveries
<1>1. /\ players \in [Players -> SimPlayers] /\ capsule \in Capsules /\ tick \in Nat
      /\ capsule.carrier # NoOne <=> capsule.state \in Borne
      /\ capsule.carrier \in Players \union {NoOne}
  BY DEF MatchInv, TypeOK, CarrierPlays
<1>2. UNCHANGED <<thrown, spinning, phase, tick, turn, again, life, takenIn, held>>
  BY DEF ConnectionDrops, Controlled, history
<1>3. PICK b \in BOOLEAN : players' = [players EXCEPT ![p] = [@ EXCEPT !.suspended = b]]
  BY DEF ConnectionDrops, Controlled
<1>4. /\ players' \in [Players -> SimPlayers]
      /\ \A q \in Players : /\ players'[q].active = players[q].active
                            /\ q # p => players'[q] = players[q]
  BY <1>1, <1>3 DEF SimPlayers
<1>5. /\ capsule' \in Capsules /\ capsule'.deliveries = capsule.deliveries
      /\ \/ capsule' = capsule /\ capsule.carrier # p
         \/ capsule'.carrier = NoOne /\ capsule'.state \notin Borne
  <2>1. CASE ConnectionDrops(p)
    BY <1>1, <2>1, LeftIsLoose DEF ConnectionDrops
  <2>2. CASE Controlled(p)
    <3>1. capsule' = capsule /\ players[p].suspended
      BY <2>2 DEF Controlled
    <3>2. capsule.carrier # p
      BY <1>1, <3>1, PlayersAssumption DEF MatchInv, CarrierPlays, Players, NoOne
    <3> QED
      BY <1>1, <3>1, <3>2
  <2> QED
    BY <2>1, <2>2
<1>6. CarrierPlays' /\ CapsuleStaysBehind' /\ WorkIsOwn'
      /\ capsule'.carrier \in Players \union {NoOne}
  BY <1>1, <1>2, <1>4, <1>5, BearerStays
<1>7. SpecialHasWheel'
  BY <1>2, <1>4 DEF MatchInv, SpecialHasWheel
<1>8. TypeOK'
  BY <1>2, <1>4, <1>5, <1>6 DEF MatchInv, TypeOK
<1> QED
  BY <1>5, <1>6, <1>7, <1>8 DEF MatchInv

-----------------------------------------------------------------------------
(* Every step of the round, and every stutter.                             *)
LEMMA RoundStep ==
    ASSUME MatchInv, [Next]_vars
    PROVE  /\ MatchInv'
           /\ capsule'.deliveries # capsule.deliveries => held' >= Deliver
<1>1. CASE UNCHANGED vars
  BY <1>1 DEF vars, rulesVars, history, MatchInv, TypeOK, CarrierPlays,
              CapsuleStaysBehind, WorkIsOwn, SpecialHasWheel
<1>2. CASE BeginTick
  BY <1>2, BeginTickKeeps
<1>3. ASSUME NEW p \in Players, Waits(p) \/ Travels(p) \/ Acts(p)
      PROVE  MatchInv' /\ capsule'.deliveries = capsule.deliveries
  BY <1>3, WaitsKeeps, TravelsKeeps, ActsKeeps
<1>4. CASE StepWorld
  BY <1>4, StepWorldKeeps
<1>5. CASE StepModes
  BY <1>5, StepModesKeeps
<1>6. ASSUME NEW p \in Players, ConnectionDrops(p) \/ Controlled(p)
      PROVE  MatchInv' /\ capsule'.deliveries = capsule.deliveries
  BY <1>6, RoomKeeps
<1> QED
  BY <1>1, <1>2, <1>3, <1>4, <1>5, <1>6 DEF Next

(* The types, the bearer, the lives, the work and the special together are *)
(* an invariant of the round.                                              *)
THEOREM RoundInOrder == Spec => []MatchInv
<1>1. MatchInv /\ [Next]_vars => MatchInv'
  BY RoundStep
<1> QED
  BY <1>1, RoundStarts, PTL DEF Spec

(* The capsule is with nobody, or with somebody alive who is not on a      *)
(* journey and has a controller (modes.ts:277-327).                        *)
THEOREM CarrierKept == Spec => []CarrierPlays
<1>1. MatchInv => CarrierPlays
  BY DEF MatchInv
<1> QED
  BY <1>1, RoundInOrder, PTL

(* The capsule is never brought into a new life (MatchSimulation.ts:401).  *)
THEOREM CapsuleLeftBehind == Spec => []CapsuleStaysBehind
<1>1. MatchInv => CapsuleStaysBehind
  BY DEF MatchInv
<1> QED
  BY <1>1, RoundInOrder, PTL

(* A special in use has its wheel (MatchSimulation.ts:579-596, 809-849).   *)
THEOREM WheelKept == Spec => []SpecialHasWheel
<1>1. MatchInv => SpecialHasWheel
  BY DEF MatchInv
<1> QED
  BY <1>1, RoundInOrder, PTL

(* Every delivery is the unbroken work of one bearer (modes.ts:366-386).   *)
THEOREM DeliveriesEarned == Spec => DeliveryIsEarned
<1>1. MatchInv /\ [Next]_vars =>
        [capsule'.deliveries # capsule.deliveries => held' >= Deliver]_vars
  BY RoundStep
<1> QED
  BY <1>1, RoundInOrder, PTL DEF Spec, DeliveryIsEarned
=============================================================================
