---------------------------- MODULE FormationProofs ----------------------------
(***************************************************************************)
(* What the formation of a round promises, for any people, waits and       *)
(* limits: the first of an order are as many as were asked for, and no     *)
(* team gets more people than it has seats.                                *)
(***************************************************************************)
EXTENDS Formation, FiniteSetTheorems, FunctionTheorems, TLAPS

-----------------------------------------------------------------------------
(*                         The first of an order                           *)

\* L[p] are those ahead of p, in a strict order of all of S
Orders(L, S) ==
  /\ \A p \in S : p \notin L[p]
  /\ \A p, q, r \in S : p \in L[q] /\ q \in L[r] => p \in L[r]
  /\ \A p, q \in S : p # q => p \in L[q] \/ q \in L[p]

\* how many are before p
Before(L, S, p) == {q \in S : q \in L[p]}
RankOf(L, S) == [p \in S |-> Cardinality(Before(L, S, p))]

(* The ranks of n members are the numbers from 0 to n - 1, in their order. *)
LEMMA RanksCount ==
  ASSUME NEW S, IsFiniteSet(S), NEW L, Orders(L, S)
  PROVE  /\ RankOf(L, S) \in Bijection(S, 0..(Cardinality(S) - 1))
         /\ \A p, q \in S : p \in L[q] => RankOf(L, S)[p] < RankOf(L, S)[q]
<1>. DEFINE n == Cardinality(S)
            f == RankOf(L, S)
<1>1. n \in Nat
  BY FS_CardinalityType
<1>2. ASSUME NEW p \in S
      PROVE  f[p] \in 0..(n - 1) /\ IsFiniteSet(Before(L, S, p))
  <2>1. Before(L, S, p) \in SUBSET S /\ p \notin Before(L, S, p)
    BY DEF Orders, Before
  <2>2. /\ IsFiniteSet(Before(L, S, p)) /\ Cardinality(Before(L, S, p)) <= n
        /\ n = Cardinality(Before(L, S, p)) => S = Before(L, S, p)
    BY <2>1, FS_Subset
  <2>3. Cardinality(Before(L, S, p)) \in Nat
    BY <2>2, FS_CardinalityType
  <2>4. f[p] = Cardinality(Before(L, S, p))
    BY DEF RankOf
  <2>. QED  BY <1>1, <2>1, <2>2, <2>3, <2>4
<1>3. ASSUME NEW p \in S, NEW q \in S, p \in L[q]
      PROVE  f[p] < f[q]
  <2>1. Before(L, S, p) \in SUBSET Before(L, S, q)
    BY <1>3 DEF Orders, Before
  <2>2. p \in Before(L, S, q) /\ p \notin Before(L, S, p)
    BY <1>3 DEF Orders, Before
  <2>3. /\ Cardinality(Before(L, S, p)) <= Cardinality(Before(L, S, q))
        /\ Cardinality(Before(L, S, p)) # Cardinality(Before(L, S, q))
    BY <1>2, <2>1, <2>2, FS_Subset
  <2>4. Cardinality(Before(L, S, p)) \in Nat /\ Cardinality(Before(L, S, q)) \in Nat
    BY <1>2, FS_CardinalityType
  <2>. QED  BY <2>3, <2>4 DEF RankOf
<1>4. f \in Injection(S, 0..(n - 1))
  <2>1. f \in [S -> 0..(n - 1)]
    BY <1>2 DEF RankOf
  <2>2. ASSUME NEW p \in S, NEW q \in S, p # q PROVE f[p] # f[q]
    <3>1. f[p] \in Int /\ f[q] \in Int
      BY <1>2
    <3>2. p \in L[q] \/ q \in L[p]
      BY <2>2 DEF Orders
    <3>. QED  BY <1>3, <3>1, <3>2
  <2>. QED  BY <2>1, <2>2 DEF Injection, IsInjective
<1>5. IsFiniteSet(0..(n - 1)) /\ Cardinality(0..(n - 1)) = n
  BY <1>1, FS_Interval
<1>6. f \in Surjection(S, 0..(n - 1))
  BY <1>4, <1>5, FS_Injection
<1>. QED  BY <1>3, <1>4, <1>6 DEF Bijection

(* Of n members, those with less than k before them are k, or all n.       *)
LEMMA FirstOnes ==
  ASSUME NEW S, IsFiniteSet(S), NEW L, Orders(L, S), NEW k \in Nat
  PROVE  Cardinality({p \in S : Cardinality(Before(L, S, p)) < k}) = LesserOf(k, Cardinality(S))
<1>. DEFINE n == Cardinality(S)
            m == LesserOf(k, n)
            f == RankOf(L, S)
            F == {p \in S : Cardinality(Before(L, S, p)) < k}
            g == [p \in F |-> f[p]]
<1>1. n \in Nat /\ m \in Nat
  BY FS_CardinalityType DEF LesserOf
<1>2. f \in [S -> 0..(n - 1)] /\ \A p \in S : f[p] = Cardinality(Before(L, S, p))
  BY RanksCount DEF Bijection, Injection, RankOf
<1>3. /\ \A p, q \in S : f[p] = f[q] => p = q
      /\ \A i \in 0..(n - 1) : \E p \in S : f[p] = i
  BY RanksCount DEF Bijection, Injection, IsInjective, Surjection
<1>4. \A i \in 0..(n - 1) : i < k <=> i \in 0..(m - 1)
  BY <1>1 DEF LesserOf
<1>5. F = {p \in S : f[p] \in 0..(m - 1)}
  BY <1>2, <1>4
<1>6. 0..(m - 1) \subseteq 0..(n - 1)
  BY <1>1 DEF LesserOf
<1>7. g \in Bijection(F, 0..(m - 1))
  <2>. HIDE DEF f, m, n, F
  <2>1. g \in [F -> 0..(m - 1)]
    BY <1>5
  <2>2. \A p, q \in F : g[p] = g[q] => p = q
    BY <1>3, <1>5
  <2>3. \A i \in 0..(m - 1) : \E p \in F : g[p] = i
    BY <1>3, <1>5, <1>6
  <2>. QED  BY <2>1, <2>2, <2>3 DEF Bijection, Injection, IsInjective, Surjection
<1>8. IsFiniteSet(F)
  BY FS_Subset
<1>9. Cardinality(0..(m - 1)) = Cardinality(F)
  BY <1>7, <1>8, FS_Bijection DEF ExistsBijection
<1>10. Cardinality(0..(m - 1)) = m
  BY <1>1, FS_Interval
<1>. QED  BY <1>9, <1>10

-----------------------------------------------------------------------------
(*                        Candidates and teams                             *)

\* what the room hands to planFormation
Candidacy(c) ==
  /\ IsFiniteSet(DOMAIN c) /\ DOMAIN c \subseteq Int
  /\ \A p \in DOMAIN c : c[p].team \in Teams /\ c[p].sitOuts \in Int

AheadIn(c) == [p \in DOMAIN c |-> {q \in DOMAIN c : Ahead(c, q, p)}]

(* Who is ahead orders any candidates.                                     *)
LEMMA AheadOrders ==
  ASSUME NEW c, Candidacy(c), NEW S \in SUBSET DOMAIN c
  PROVE  /\ Orders(AheadIn(c), S)
         /\ \A p \in S : Before(AheadIn(c), S, p) = {q \in S : Ahead(c, q, p)}
<1>1. \A p, q \in DOMAIN c : p \in AheadIn(c)[q] <=> Ahead(c, p, q)
  BY DEF AheadIn
<1>2. \A p \in DOMAIN c : p \in Int /\ c[p].sitOuts \in Int
  BY DEF Candidacy
<1>. QED  BY <1>1, <1>2 DEF Orders, Before, Ahead

(* As many play as there are seats, or everybody.                          *)
LEMMA PlayingCount ==
  ASSUME NEW c, Candidacy(c), NEW size \in Nat
  PROVE  /\ Playing(c, size) \in SUBSET DOMAIN c /\ IsFiniteSet(Playing(c, size))
         /\ Cardinality(Playing(c, size)) = LesserOf(2 * size, Cardinality(DOMAIN c))
<1>1. Playing(c, size) = {p \in DOMAIN c : Cardinality(Before(AheadIn(c), DOMAIN c, p)) < 2 * size}
  <2>1. DOMAIN c \in SUBSET DOMAIN c
    OBVIOUS
  <2>2. \A p \in DOMAIN c : Before(AheadIn(c), DOMAIN c, p) = {q \in DOMAIN c : Ahead(c, q, p)}
    BY <2>1, AheadOrders
  <2>. QED  BY <2>2 DEF Playing
<1>2. Orders(AheadIn(c), DOMAIN c) /\ 2 * size \in Nat
  <2>1. DOMAIN c \in SUBSET DOMAIN c
    OBVIOUS
  <2>. QED  BY <2>1, AheadOrders
<1>3. IsFiniteSet(DOMAIN c)
  BY DEF Candidacy
<1>. QED  BY <1>1, <1>2, <1>3, FirstOnes, FS_Subset

\* some who play, and with each of them whoever is ahead
Prefix(c, size, S) ==
  /\ S \subseteq Playing(c, size)
  /\ \A p \in S, q \in Playing(c, size) : Ahead(c, q, p) => q \in S

Wanting(c, S, t) == {p \in S : c[p].team = t}
Obliged(c, size, S, t) == {p \in Wanting(c, S, t) : SeatedInPreference(c, size, p)}

(* A team grants as many wishes as it has seats.                           *)
LEMMA WishesGranted ==
  ASSUME NEW c, Candidacy(c), NEW size \in Nat, NEW S, Prefix(c, size, S), NEW t \in Teams
  PROVE  /\ IsFiniteSet(Wanting(c, S, t)) /\ IsFiniteSet(Obliged(c, size, S, t))
         /\ Cardinality(Obliged(c, size, S, t)) = LesserOf(size, Cardinality(Wanting(c, S, t)))
<1>. DEFINE W == Wanting(c, S, t)
<1>1. W \in SUBSET DOMAIN c /\ IsFiniteSet(W) /\ W \in SUBSET Playing(c, size)
  BY PlayingCount, FS_Subset DEF Wanting, Prefix
<1>2. \A p \in W : {q \in Playing(c, size) : c[q].team = c[p].team /\ Ahead(c, q, p)}
                     = {q \in W : Ahead(c, q, p)}
  BY DEF Wanting, Prefix
<1>3. Orders(AheadIn(c), W) /\ \A p \in W : Before(AheadIn(c), W, p) = {q \in W : Ahead(c, q, p)}
  BY <1>1, AheadOrders
<1>4. Obliged(c, size, S, t) = {p \in W : Cardinality(Before(AheadIn(c), W, p)) < size}
  BY <1>2, <1>3 DEF Obliged, SeatedInPreference
<1>. QED  BY <1>1, <1>3, <1>4, FirstOnes, FS_Subset

(* The first of a team are those of them who got their wish and whoever    *)
(* the other team had no seat for.                                         *)
LEMMA TeamsOfPrefix ==
  ASSUME NEW c, Candidacy(c), NEW size \in Nat, NEW S, Prefix(c, size, S)
  PROVE  LET w(t) == Cardinality(Wanting(c, S, t))
         IN  /\ IsFiniteSet(S) /\ w(0) \in Nat /\ w(1) \in Nat /\ w(0) + w(1) = Cardinality(S)
             /\ \A t \in Teams :
                  Cardinality({p \in S : TeamOf(c, size, p) = t})
                    = LesserOf(size, w(t)) + w(1 - t) - LesserOf(size, w(1 - t))
<1>. DEFINE W(t) == Wanting(c, S, t)
            O(t) == Obliged(c, size, S, t)
            w(t) == Cardinality(W(t))
<1>1. IsFiniteSet(S) /\ S \in SUBSET DOMAIN c
  BY PlayingCount, FS_Subset DEF Prefix
<1>2. \A t \in Teams : /\ IsFiniteSet(W(t)) /\ IsFiniteSet(O(t)) /\ w(t) \in Nat
                       /\ Cardinality(O(t)) = LesserOf(size, w(t))
  BY WishesGranted, FS_CardinalityType
<1>3. \A p \in S : c[p].team \in {0, 1}
  BY <1>1 DEF Candidacy, Teams
<1>4. w(0) + w(1) = Cardinality(S)
  <2>1. S = W(0) \cup W(1) /\ W(0) \cap W(1) = {}
    BY <1>3 DEF Wanting
  <2>2. Cardinality(W(0) \cap W(1)) = 0
    BY <2>1, FS_EmptySet
  <2>3. 0 \in Teams /\ 1 \in Teams
    BY DEF Teams
  <2>4. Cardinality(W(0) \cup W(1)) = w(0) + w(1) - Cardinality(W(0) \cap W(1))
    BY <1>2, <2>3, FS_Union
  <2>5. Cardinality(S) = Cardinality(W(0) \cup W(1))
    BY <2>1
  <2>6. w(0) \in Nat /\ w(1) \in Nat
    BY <1>2, <2>3
  <2>. HIDE DEF w, W
  <2>. QED  BY <2>2, <2>4, <2>5, <2>6
<1>5. ASSUME NEW t \in Teams
      PROVE  Cardinality({p \in S : TeamOf(c, size, p) = t})
               = LesserOf(size, w(t)) + w(1 - t) - LesserOf(size, w(1 - t))
  <2>1. 1 - t \in Teams /\ t # 1 - t
    BY DEF Teams
  <2>2. {p \in S : TeamOf(c, size, p) = t} = O(t) \cup (W(1 - t) \ O(1 - t))
    <3>. SUFFICES ASSUME NEW p \in S
                  PROVE  TeamOf(c, size, p) = t <=> p \in O(t) \cup (W(1 - t) \ O(1 - t))
      BY DEF Wanting, Obliged
    <3>. QED  BY <1>3 DEF TeamOf, Wanting, Obliged, Teams
  <2>3. /\ IsFiniteSet(W(1 - t) \ O(1 - t))
        /\ Cardinality(W(1 - t) \ O(1 - t)) = w(1 - t) - LesserOf(size, w(1 - t))
    <3>1. W(1 - t) \cap O(1 - t) = O(1 - t)
      BY DEF Obliged
    <3>2. /\ IsFiniteSet(W(1 - t))
          /\ Cardinality(O(1 - t)) = LesserOf(size, w(1 - t))
      BY <1>2, <2>1
    <3>3. /\ IsFiniteSet(W(1 - t) \ O(1 - t))
          /\ Cardinality(W(1 - t) \ O(1 - t)) = Cardinality(W(1 - t)) - Cardinality(W(1 - t) \cap O(1 - t))
      <4>. HIDE DEF W, O
      <4>. QED  BY <3>2, FS_Difference
    <3>. QED  BY <3>1, <3>2, <3>3
  <2>4. O(t) \cap (W(1 - t) \ O(1 - t)) = {}
    BY <2>1 DEF Obliged, Wanting
  <2>5. Cardinality(O(t) \cap (W(1 - t) \ O(1 - t))) = 0
    BY <2>4, FS_EmptySet
  <2>6. Cardinality(O(t) \cup (W(1 - t) \ O(1 - t))) =
          Cardinality(O(t)) + Cardinality(W(1 - t) \ O(1 - t))
            - Cardinality(O(t) \cap (W(1 - t) \ O(1 - t)))
    BY <1>2, <2>3, FS_Union
  <2>7. LesserOf(size, w(t)) \in Nat /\ LesserOf(size, w(1 - t)) \in Nat /\ w(1 - t) \in Nat
    BY <1>2, <2>1 DEF LesserOf
  <2>8. Cardinality(O(t)) = LesserOf(size, w(t))
    BY <1>2
  <2>9. Cardinality({p \in S : TeamOf(c, size, p) = t}) = Cardinality(O(t) \cup (W(1 - t) \ O(1 - t)))
    BY <2>2
  <2>. HIDE DEF w, O, W
  <2>. QED  BY <2>3, <2>5, <2>6, <2>7, <2>8, <2>9
<1>6. 0 \in Teams /\ 1 \in Teams
  BY DEF Teams
<1>. QED  BY <1>1, <1>2, <1>4, <1>5, <1>6

(* No team gets more people than it has seats, and everybody who plays is  *)
(* in one of the two.                                                      *)
LEMMA TeamsFit ==
  ASSUME NEW c, Candidacy(c), NEW size \in Nat
  PROVE  /\ \A t \in Teams : HumansIn(c, size, t) \in 0..size
         /\ HumansIn(c, size, 0) + HumansIn(c, size, 1) = Cardinality(Playing(c, size))
<1>. DEFINE P == Playing(c, size)
            w(t) == Cardinality(Wanting(c, P, t))
            h(t) == HumansIn(c, size, t)
<1>1. Cardinality(P) \in Nat /\ Cardinality(P) <= 2 * size
  <2>1. IsFiniteSet(P) /\ Cardinality(P) = LesserOf(2 * size, Cardinality(DOMAIN c))
    BY PlayingCount
  <2>2. Cardinality(DOMAIN c) \in Nat /\ Cardinality(P) \in Nat
    BY <2>1, FS_CardinalityType DEF Candidacy
  <2>. HIDE DEF P
  <2>. QED  BY <2>1, <2>2 DEF LesserOf
<1>2. Prefix(c, size, P)
  BY DEF Prefix
<1>3. /\ w(0) \in Nat /\ w(1) \in Nat /\ w(0) + w(1) = Cardinality(P)
      /\ \A t \in Teams : h(t) = LesserOf(size, w(t)) + w(1 - t) - LesserOf(size, w(1 - t))
  <2>. HIDE DEF P
  <2>. QED  BY <1>2, TeamsOfPrefix DEF HumansIn, P
<1>. HIDE DEF w, P, h
<1>4. 0 \in Teams /\ 1 \in Teams /\ \A t \in Teams : t = 0 \/ t = 1
  BY DEF Teams
<1>5. /\ h(0) = LesserOf(size, w(0)) + w(1) - LesserOf(size, w(1))
      /\ h(1) = LesserOf(size, w(1)) + w(0) - LesserOf(size, w(0))
  BY <1>3, <1>4
<1>6. h(0) \in 0..size /\ h(1) \in 0..size /\ h(0) + h(1) = Cardinality(P)
  BY <1>1, <1>3, <1>5 DEF LesserOf
<1>. QED  BY <1>4, <1>6 DEF P, h

(* The size of the teams is within the limits, and without bots there are  *)
(* people for every seat.                                                  *)
LEMMA SizeFits ==
  ASSUME NEW n \in Nat, NEW option \in Nat, NEW fill \in BOOLEAN, NEW max \in Nat \ {0}
  PROVE  LET size == TeamSizeFor(n, option, fill, max)
         IN  /\ size \in 0..max /\ (option # Flex => size <= option)
             /\ ~ fill => 2 * size <= n
<1>1. n \div 2 \in Nat /\ 2 * (n \div 2) <= n /\ (n + 1) \div 2 \in Nat
  OBVIOUS
<1>. DEFINE half == n \div 2
            more == (n + 1) \div 2
<1>2. half \in Nat /\ more \in Nat /\ 2 * half <= n
  BY <1>1
<1>3. TeamSizeFor(n, option, fill, max) =
        LET wanted == IF option = Flex THEN IF fill THEN more ELSE half
                      ELSE IF fill THEN option ELSE LesserOf(option, half)
            capped == LesserOf(max, wanted)
        IN  IF fill /\ n > 0 /\ capped = 0 THEN 1 ELSE capped
  BY DEF TeamSizeFor
<1>. HIDE DEF half, more
<1>. QED  BY <1>2, <1>3 DEF LesserOf, Flex

(* A plan that is not blocked makes two equal teams, bots included, of at  *)
(* least one member, with bots in seats nobody has only; and nobody waits  *)
(* while a seat is free (planFormation).                                   *)
Fair(c, size, fill) ==
  /\ \A t \in Teams : /\ HumansIn(c, size, t) \in Nat /\ BotsIn(c, size, fill, t) \in Nat
                      /\ HumansIn(c, size, t) + BotsIn(c, size, fill, t) = size
                      /\ Playing(c, size) # DOMAIN c => HumansIn(c, size, t) = size
  /\ size > 0

(* Every plan is fair, table by table.                                     *)
LEMMA PlansAreFair ==
  ASSUME NEW c, Candidacy(c), NEW option \in Nat, NEW fill \in BOOLEAN, NEW max \in Nat \ {0},
         NEW size, size = TeamSizeFor(Cardinality(DOMAIN c), option, fill, max),
         ~ Blocked(c, size)
  PROVE  Fair(c, size, fill) /\ size \in 1..max /\ (option # Flex => size <= option)
<1>. DEFINE n == Cardinality(DOMAIN c)
            h(t) == HumansIn(c, size, t)
<1>1. n \in Nat
  BY FS_CardinalityType DEF Candidacy
<1>2. size \in 0..max /\ (option # Flex => size <= option) /\ (~ fill => 2 * size <= n)
  BY <1>1, SizeFits
<1>3. size \in 1..max
  BY <1>2 DEF Blocked
<1>4. size \in Nat
  BY <1>3
<1>5. /\ Playing(c, size) \in SUBSET DOMAIN c
      /\ Cardinality(Playing(c, size)) = LesserOf(2 * size, n)
  BY <1>4, PlayingCount
<1>6. 0 \in Teams /\ 1 \in Teams /\ \A t \in Teams : t = 0 \/ t = 1
  BY DEF Teams
<1>7. h(0) \in 0..size /\ h(1) \in 0..size /\ h(0) + h(1) = LesserOf(2 * size, n)
  BY <1>4, <1>5, <1>6, TeamsFit
<1>8. Playing(c, size) # DOMAIN c => 2 * size <= n
  <2>1. Playing(c, size) # DOMAIN c => Cardinality(Playing(c, size)) # n
    BY <1>5, FS_Subset DEF Candidacy
  <2>. QED  BY <1>1, <1>4, <1>5, <2>1 DEF LesserOf
<1>9. \A t \in Teams : BotsIn(c, size, fill, t) = IF fill THEN size - h(t) ELSE 0
  BY DEF BotsIn
<1>. HIDE DEF h, n
<1>10. 2 * size <= n => h(0) = size /\ h(1) = size
  BY <1>1, <1>4, <1>7 DEF LesserOf
<1>11. \A t \in Teams : /\ h(t) \in Nat /\ BotsIn(c, size, fill, t) \in Nat
                        /\ h(t) + BotsIn(c, size, fill, t) = size
                        /\ Playing(c, size) # DOMAIN c => h(t) = size
  BY <1>2, <1>4, <1>6, <1>7, <1>8, <1>9, <1>10
<1>. QED  BY <1>2, <1>3, <1>11 DEF Fair, h
=============================================================================
