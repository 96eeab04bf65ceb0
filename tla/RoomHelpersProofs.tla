-------------------------- MODULE RoomHelpersProofs --------------------------
(* The algorithms the room hands its people to, beyond the bounds of their   *)
(* run: the loop of planFormation gives every table the seats of the closed  *)
(* form, and a fair plan (MCFormation), and the filter shows what its rule   *)
(* says for any number of people and rounds of any length (Stealth), whoever *)
(* starts a Mutirao earned it (Mutirao), and the way a bot is given is the   *)
(* shortest (NavGraph).                                                      *)
EXTENDS MCFormation, FormationProofs, Stealth, Mutirao, NavGraph,
        FiniteSetTheorems, SequenceTheorems, WellFoundedInduction, TLAPS


(* Some numbers have a least one.                                          *)
LEMMA LeastNumber ==
  ASSUME NEW T \in SUBSET Nat, T # {}
  PROVE  \E x \in T : \A y \in T : x <= y
<1>1. PICK x \in T : \A y \in T : ~ (<<y, x>> \in OpToRel(<, Nat))
  BY NatLessThanWellFounded, WFMin
<1>2. \A y \in T : ~ (y < x)
  BY <1>1 DEF OpToRel
<1>. QED  BY <1>2

(* Induction over the numbers up to a bound, for the set of good ones.     *)
LEMMA NumberInduction ==
  ASSUME NEW n \in Nat, NEW Good, 0 \in Good,
         \A k \in 0..(n - 1) : k \in Good => k + 1 \in Good
  PROVE  \A k \in 0..n : k \in Good
<1>. DEFINE T == {k \in 0..n : k \notin Good}
<1>1. SUFFICES ASSUME T # {} PROVE FALSE
  OBVIOUS
<1>2. T \in SUBSET Nat
  OBVIOUS
<1>3. PICK x \in T : \A y \in T : x <= y
  <2>. HIDE DEF T
  <2>. QED  BY <1>1, <1>2, LeastNumber
<1>4. x # 0 /\ x \in 0..n
  OBVIOUS
<1>5. x - 1 \in 0..n /\ ~ (x <= x - 1) /\ x - 1 \in 0..(n - 1) /\ x - 1 + 1 = x
  BY <1>4
<1>6. x - 1 \in Good
  BY <1>3, <1>5
<1>. QED  BY <1>5, <1>6

-----------------------------------------------------------------------------
(*                              The table                                  *)

Candidate == [team : Teams, sitOuts : 0..MaxSitOuts]
TableOk == cands \in Seq(Candidate) /\ option \in Limits /\ fill \in BOOLEAN

(* A table is one the formation can be asked about.                        *)
LEMMA TableIsCandidacy ==
  ASSUME TableOk
  PROVE  /\ Len(cands) \in Nat /\ DOMAIN cands = 1..Len(cands)
         /\ Candidacy(cands) /\ Cardinality(DOMAIN cands) = Len(cands)
         /\ option \in Nat /\ Size \in Nat
<1>1. /\ Len(cands) \in Nat /\ DOMAIN cands = 1..Len(cands)
      /\ cands \in [1..Len(cands) -> Candidate]
  BY LenProperties DEF TableOk
<1>2. IsFiniteSet(1..Len(cands)) /\ Cardinality(1..Len(cands)) = Len(cands)
  BY <1>1, FS_Interval
<1>3. \A p \in DOMAIN cands : cands[p].team \in Teams /\ cands[p].sitOuts \in Int
  BY <1>1, FormationLimits DEF Candidate
<1>4. option \in Nat /\ fill \in BOOLEAN /\ MaxTeamSize \in Nat \ {0}
  BY FormationLimits DEF TableOk
<1>5. Size \in 0..MaxTeamSize
  BY <1>1, <1>4, SizeFits DEF Size
<1>6. Candidacy(cands)
  BY <1>1, <1>2, <1>3 DEF Candidacy
<1>. QED  BY <1>1, <1>2, <1>4, <1>5, <1>6

(* Whoever arrives keeps it so.                                            *)
LEMMA TableStays == TableOk /\ [Next]_<<cands, option, fill>> => TableOk'
<1>. SUFFICES ASSUME TableOk, [Next]_<<cands, option, fill>> PROVE TableOk'
  OBVIOUS
<1>1. CASE UNCHANGED <<cands, option, fill>>
  BY <1>1 DEF TableOk
<1>2. ASSUME NEW t \in Teams, NEW n \in 0..MaxSitOuts,
             cands' = Append(cands, [team |-> t, sitOuts |-> n])
      PROVE  cands' \in Seq(Candidate)
  <2>1. [team |-> t, sitOuts |-> n] \in Candidate
    BY DEF Candidate
  <2>. QED  BY <1>2, <2>1, AppendProperties DEF TableOk
<1>. QED  BY <1>1, <1>2 DEF Next, Arrives, Complete, TableOk

(* The first table is one of them.                                         *)
LEMMA TableStarts == Init => TableOk
<1>1. <<>> \in Seq(Candidate)
  BY EmptySeq
<1>. QED  BY <1>1 DEF Init, TableOk

-----------------------------------------------------------------------------
(*                               The sort                                  *)

\* the rank of a candidate, and the candidate of a rank
Rank == RankOf(AheadIn(cands), DOMAIN cands)
At(k) == CHOOSE p \in DOMAIN cands : Rank[p] = k - 1
SortsFrom(g) ==
  g = [k \in 0..Len(cands) |->
         IF k = 0 THEN <<>>
         ELSE Append(g[k - 1], Foremost(DOMAIN cands \ Range(g[k - 1])))]

(* Ranks number the candidates from zero, those ahead first.               *)
LEMMA RanksOfTable ==
  ASSUME TableOk
  PROVE  /\ \A p \in DOMAIN cands : /\ Rank[p] \in 0..(Len(cands) - 1) /\ Rank[p] \in Nat
                                    /\ Rank[p] = Cardinality({q \in DOMAIN cands : Ahead(cands, q, p)})
         /\ \A k \in 1..Len(cands) : At(k) \in DOMAIN cands /\ Rank[At(k)] = k - 1
         /\ \A p \in DOMAIN cands : At(Rank[p] + 1) = p
         /\ \A p, q \in DOMAIN cands : Rank[p] < Rank[q] <=> Ahead(cands, p, q)
<1>. DEFINE D == DOMAIN cands
            n == Len(cands)
<1>1. IsFiniteSet(D) /\ Cardinality(D) = n /\ n \in Nat /\ D = 1..n /\ D \in SUBSET D
  BY TableIsCandidacy DEF Candidacy
<1>2. /\ Orders(AheadIn(cands), D)
      /\ \A p \in D : Before(AheadIn(cands), D, p) = {q \in D : Ahead(cands, q, p)}
      /\ \A p, q \in D : p \in AheadIn(cands)[q] <=> Ahead(cands, p, q)
  <2>1. \A p, q \in D : p \in AheadIn(cands)[q] <=> Ahead(cands, p, q)
    BY DEF AheadIn
  <2>. QED  BY <1>1, <2>1, TableIsCandidacy, AheadOrders
<1>3. /\ Rank \in Bijection(D, 0..(n - 1))
      /\ \A p, q \in D : p \in AheadIn(cands)[q] => Rank[p] < Rank[q]
  <2>. HIDE DEF D, n
  <2>. QED  BY <1>1, <1>2, RanksCount DEF Rank, D
<1>4. /\ \A p \in D : Rank[p] \in 0..(n - 1)
      /\ \A p, q \in D : Rank[p] = Rank[q] => p = q
      /\ \A k \in 0..(n - 1) : \E p \in D : Rank[p] = k
  BY <1>3 DEF Bijection, Injection, IsInjective, Surjection
<1>5. \A p \in D : Rank[p] = Cardinality({q \in D : Ahead(cands, q, p)})
  BY <1>2 DEF Rank, RankOf
<1>6. \A k \in 1..n : At(k) \in D /\ Rank[At(k)] = k - 1
  <2>. SUFFICES ASSUME NEW k \in 1..n PROVE At(k) \in D /\ Rank[At(k)] = k - 1
    OBVIOUS
  <2>1. k - 1 \in 0..(n - 1)
    BY <1>1
  <2>2. \E p \in D : Rank[p] = k - 1
    BY <1>4, <2>1
  <2>. QED  BY <2>2 DEF At
<1>7. \A p \in D : At(Rank[p] + 1) = p
  <2>. SUFFICES ASSUME NEW p \in D PROVE At(Rank[p] + 1) = p
    OBVIOUS
  <2>. DEFINE k == Rank[p] + 1
  <2>1. k \in 1..n /\ k - 1 = Rank[p]
    BY <1>1, <1>4
  <2>2. At(k) \in D /\ Rank[At(k)] = Rank[p]
    <3>. HIDE DEF D, n, k
    <3>. QED  BY <1>6, <2>1
  <2>. QED  BY <1>4, <2>2
<1>8. \A p, q \in D : Rank[p] < Rank[q] <=> Ahead(cands, p, q)
  <2>. SUFFICES ASSUME NEW p \in D, NEW q \in D
                PROVE  Rank[p] < Rank[q] <=> Ahead(cands, p, q)
    OBVIOUS
  <2>1. Rank[p] \in Int /\ Rank[q] \in Int
    BY <1>4
  <2>2. p # q => p \in AheadIn(cands)[q] \/ q \in AheadIn(cands)[p]
    BY <1>2 DEF Orders
  <2>. QED  BY <1>2, <1>3, <2>1, <2>2
<1>9. \A p \in D : Rank[p] \in Nat
  BY <1>1, <1>4
<1>. HIDE DEF D, n
<1>. QED  BY <1>4, <1>5, <1>6, <1>7, <1>8, <1>9 DEF D, n

(* Those left after the first k - 1 have the k-th as their foremost.       *)
LEMMA ForemostLeft ==
  ASSUME TableOk, NEW k \in 1..Len(cands)
  PROVE  Foremost(DOMAIN cands \ {At(i) : i \in 1..(k - 1)}) = At(k)
<1>. DEFINE D == DOMAIN cands
            S == D \ {At(i) : i \in 1..(k - 1)}
            Leads(p) == \A q \in S \ {p} : Ahead(cands, p, q)
<1>1. Len(cands) \in Nat
  BY TableIsCandidacy
<1>2. \A p \in D : p \in S <=> Rank[p] >= k - 1
  <2>. SUFFICES ASSUME NEW p \in D PROVE p \in S <=> Rank[p] >= k - 1
    OBVIOUS
  <2>1. Rank[p] \in Nat /\ At(Rank[p] + 1) = p
    BY RanksOfTable
  <2>2. CASE Rank[p] >= k - 1
    <3>1. ASSUME NEW i \in 1..(k - 1) PROVE At(i) # p
      <4>1. i \in 1..Len(cands)
        BY <1>1
      <4>2. Rank[At(i)] = i - 1
        BY <4>1, RanksOfTable
      <4>. QED  BY <2>1, <2>2, <4>2
    <3>. QED  BY <2>2, <3>1
  <2>3. CASE Rank[p] < k - 1
    <3>1. Rank[p] + 1 \in 1..(k - 1)
      BY <2>1, <2>3
    <3>. QED  BY <2>1, <2>3, <3>1
  <2>. QED  BY <2>1, <2>2, <2>3
<1>3. At(k) \in D /\ Rank[At(k)] = k - 1
  BY RanksOfTable
<1>4. At(k) \in S
  BY <1>2, <1>3
<1>5. Leads(At(k))
  <2>. SUFFICES ASSUME NEW q \in S \ {At(k)} PROVE Ahead(cands, At(k), q)
    OBVIOUS
  <2>1. q \in D /\ Rank[q] >= k - 1 /\ Rank[q] \in Nat
    BY <1>2, RanksOfTable
  <2>2. Rank[q] # k - 1
    <3>1. At(Rank[q] + 1) = q
      BY <2>1, RanksOfTable
    <3>. QED  BY <3>1
  <2>3. Rank[At(k)] < Rank[q]
    BY <1>3, <2>1, <2>2
  <2>. QED  BY <1>3, <2>1, <2>3, RanksOfTable
<1>6. ASSUME NEW p \in S, Leads(p) PROVE p = At(k)
  <2>1. SUFFICES ASSUME p # At(k) PROVE FALSE
    OBVIOUS
  <2>2. Ahead(cands, p, At(k)) /\ Ahead(cands, At(k), p)
    BY <1>4, <1>5, <1>6, <2>1
  <2>3. Rank[p] < Rank[At(k)] /\ Rank[At(k)] < Rank[p]
    BY <1>3, <2>2, RanksOfTable
  <2>4. Rank[p] \in Nat /\ Rank[At(k)] \in Nat
    BY <1>3, RanksOfTable
  <2>. QED  BY <2>3, <2>4
<1>7. Foremost(S) = CHOOSE p \in S : Leads(p)
  BY DEF Foremost
<1>. HIDE DEF S, Leads
<1>. QED  BY <1>4, <1>5, <1>6, <1>7 DEF S

(* The sort lists the candidates by rank.                                  *)
LEMMA OrderIsByRank ==
  ASSUME TableOk
  PROVE  Order = [i \in 1..Len(cands) |-> At(i)]
<1>. DEFINE D == DOMAIN cands
            n == Len(cands)
            W == [k \in 0..n |-> [i \in 1..k |-> At(i)]]
            More(s) == Append(s, Foremost(D \ Range(s)))
<1>1. n \in Nat
  BY TableIsCandidacy
<1>2. \A i \in 1..n : At(i) \in D
  BY RanksOfTable
<1>3. ASSUME NEW k \in 0..n PROVE W[k] \in Seq(D) /\ Len(W[k]) = k /\ W[k] = [i \in 1..k |-> At(i)]
  <2>1. W[k] = [i \in 1..k |-> At(i)]
    OBVIOUS
  <2>2. \A i \in 1..k : At(i) \in D
    BY <1>1, <1>2
  <2>3. [i \in 1..k |-> At(i)] \in [1..k -> D] /\ k \in Nat
    BY <1>1, <2>2
  <2>4. [i \in 1..k |-> At(i)] \in Seq(D) /\ Len([i \in 1..k |-> At(i)]) = k
    BY <2>3, SeqDef, LenProperties
  <2>. QED  BY <2>1, <2>4
<1>4. ASSUME NEW k \in 1..n
      PROVE  W[k] = More(W[k - 1])
  <2>1. k - 1 \in 0..n /\ k \in 0..n /\ k - 1 + 1 = k
    BY <1>1
  <2>2. Range(W[k - 1]) = {At(i) : i \in 1..(k - 1)}
    <3>1. W[k - 1] = [i \in 1..(k - 1) |-> At(i)]
      BY <1>3, <2>1
    <3>. HIDE DEF W
    <3>. QED  BY <3>1 DEF Range
  <2>3. Foremost(D \ Range(W[k - 1])) = At(k)
    BY <2>2, ForemostLeft
  <2>4. /\ W[k - 1] \in Seq(D) /\ Len(W[k - 1]) = k - 1 /\ W[k] \in Seq(D) /\ Len(W[k]) = k
        /\ W[k] = [i \in 1..k |-> At(i)] /\ W[k - 1] = [i \in 1..(k - 1) |-> At(i)]
    BY <1>3, <2>1
  <2>. DEFINE a == Append(W[k - 1], At(k))
  <2>5. At(k) \in D
    BY <1>2
  <2>6. /\ a \in Seq(D) /\ Len(a) = k
        /\ \A i \in 1..(k - 1) : a[i] = W[k - 1][i]
        /\ a[k] = At(k)
    <3>. DEFINE w == W[k - 1]
    <3>0. w \in Seq(D) /\ Len(w) = k - 1
      BY <2>4
    <3>. HIDE DEF W, w, D
    <3>1. /\ a \in Seq(D) /\ Len(a) = Len(w) + 1
          /\ \A i \in 1..Len(w) : a[i] = w[i]
          /\ a[Len(w) + 1] = At(k)
      BY <2>5, <3>0, AppendProperties DEF w
    <3>. QED  BY <2>1, <3>0, <3>1 DEF w
  <2>. HIDE DEF W, a
  <2>7. \A i \in 1..k : a[i] = W[k][i]
    <3>. SUFFICES ASSUME NEW i \in 1..k PROVE a[i] = At(i)
      BY <2>4
    <3>1. CASE i = k
      BY <2>6, <3>1
    <3>2. CASE i # k
      <4>1. i \in 1..(k - 1)
        BY <3>2
      <4>. QED  BY <2>4, <2>6, <4>1
    <3>. QED  BY <3>1, <3>2
  <2>8. a = W[k]
    BY <2>4, <2>6, <2>7, SeqEqual
  <2>. QED  BY <2>3, <2>8 DEF a
<1>5. W[0] = <<>>
  <2>1. 0 \in 0..n
    BY <1>1
  <2>2. W[0] \in Seq(D) /\ Len(W[0]) = 0
    BY <1>3, <2>1
  <2>. HIDE DEF W
  <2>. QED  BY <2>2, EmptySeq
<1>6. SortsFrom(W)
  <2>1. \A k \in 0..n : W[k] = IF k = 0 THEN <<>> ELSE More(W[k - 1])
    <3>. SUFFICES ASSUME NEW k \in 0..n
                  PROVE  W[k] = IF k = 0 THEN <<>> ELSE More(W[k - 1])
      OBVIOUS
    <3>1. k # 0 => k \in 1..n
      BY <1>1
    <3>. HIDE DEF W
    <3>. QED  BY <1>4, <1>5, <3>1
  <2>2. W = [k \in 0..n |-> W[k]]
    OBVIOUS
  <2>. HIDE DEF W
  <2>. QED  BY <2>1, <2>2 DEF SortsFrom
<1>. DEFINE f == CHOOSE g : SortsFrom(g)
<1>7. SortsFrom(f)
  BY <1>6
<1>8. Order = f[n]
  BY Zenon DEF Order, SortsFrom
<1>. HIDE DEF f, W
<1>9. \A k \in 0..n : f[k] = IF k = 0 THEN <<>> ELSE More(f[k - 1])
  BY <1>7 DEF SortsFrom
<1>. HIDE DEF More
<1>. DEFINE Good == {k \in 0..n : f[k] = W[k]}
<1>10. 0 \in Good
  <2>1. 0 \in 0..n
    BY <1>1
  <2>2. f[0] = <<>>
    BY <1>9, <2>1
  <2>. QED  BY <1>5, <2>1, <2>2
<1>11. \A k \in 0..(n - 1) : k \in Good => k + 1 \in Good
  <2>. SUFFICES ASSUME NEW k \in 0..(n - 1), f[k] = W[k] PROVE k + 1 \in Good
    OBVIOUS
  <2>1. k + 1 \in 0..n /\ k + 1 \in 1..n /\ k + 1 # 0 /\ k + 1 - 1 = k
    BY <1>1
  <2>2. f[k + 1] = More(f[k])
    BY <1>9, <2>1
  <2>3. W[k + 1] = More(W[k])
    BY <1>4, <2>1
  <2>. QED  BY <2>1, <2>2, <2>3
<1>12. \A k \in 0..n : k \in Good
  <2>. HIDE DEF Good
  <2>. QED  BY <1>1, <1>10, <1>11, NumberInduction
<1>13. n \in 0..n
  BY <1>1
<1>. QED  BY <1>3, <1>8, <1>12, <1>13

-----------------------------------------------------------------------------
(*                               The loop                                  *)

(* The highest of some numbers, if it is known.                            *)
LEMMA HighestIsLast ==
  ASSUME NEW k \in Nat, NEW u \in SUBSET (1..(k + 1)), k + 1 \in u
  PROVE  Max(u) = k + 1
<1>1. \A y \in u : k + 1 >= y
  OBVIOUS
<1>2. Max(u) \in u /\ \A y \in u : Max(u) >= y
  BY <1>1 DEF Max
<1>3. Max(u) \in 1..(k + 1) /\ Max(u) >= k + 1
  BY <1>2
<1>. QED  BY <1>3

\* h[k] is what the loop has after the first k of q
SeatAll(a, q) == FoldLeft(GiveSeat, a, q)
SeatBySeat(a, n, q, h) ==
  /\ h[0] = a
  /\ \A k \in 1..n : h[k] = GiveSeat(h[k - 1], q[k])
  /\ SeatAll(a, q) = h[n]

(* FoldLeft goes through the seats one by one.                             *)
LEMMA SeatsInTurn ==
  ASSUME NEW a, NEW n \in Nat, NEW q, DOMAIN q = 1..n
  PROVE  \E h : SeatBySeat(a, n, q, h)
<1>. DEFINE Runs(g, D) == g = [u \in SUBSET D |->
                                 IF u = {} THEN a ELSE GiveSeat(g[u \ {Max(u)}], q[Max(u)])]
            Good == {k \in 0..n : \E g : Runs(g, 1..k)}
            D == DOMAIN q
<1>1. FoldLeft(GiveSeat, a, q) = (CHOOSE g : Runs(g, D))[D]
  BY Zenon DEF FoldLeft, MapThenFoldSet
<1>2. 0 \in Good
  <2>1. SUBSET (1..0) = {{}}
    OBVIOUS
  <2>2. Runs([u \in SUBSET (1..0) |-> a], 1..0)
    BY <2>1
  <2>. QED  BY <2>2
<1>3. ASSUME NEW k \in 0..(n - 1), k \in Good PROVE k + 1 \in Good
  <2>1. PICK g : Runs(g, 1..k)
    BY <1>3
  <2>2. \A u \in SUBSET (1..k) : g[u] = IF u = {} THEN a ELSE GiveSeat(g[u \ {Max(u)}], q[Max(u)])
    BY <2>1
  <2>. DEFINE f == [u \in SUBSET (1..(k + 1)) |->
                      IF k + 1 \in u THEN GiveSeat(g[u \ {k + 1}], q[k + 1]) ELSE g[u]]
  <2>3. ASSUME NEW u \in SUBSET (1..(k + 1))
        PROVE  f[u] = IF u = {} THEN a ELSE GiveSeat(f[u \ {Max(u)}], q[Max(u)])
    <3>1. CASE k + 1 \in u
      <4>1. Max(u) = k + 1
        BY <3>1, HighestIsLast
      <4>2. u \ {k + 1} \in SUBSET (1..(k + 1))
        OBVIOUS
      <4>3. f[u \ {k + 1}] = g[u \ {k + 1}] /\ f[u] = GiveSeat(g[u \ {k + 1}], q[k + 1])
        BY <4>2, <3>1
      <4>. HIDE DEF f
      <4>. QED  BY <3>1, <4>1, <4>3
    <3>2. CASE k + 1 \notin u
      <4>0. \A i \in 1..(k + 1) : i # k + 1 => i \in 1..k
        OBVIOUS
      <4>1. u \in SUBSET (1..k) /\ u \ {Max(u)} \in SUBSET (1..(k + 1)) /\ k + 1 \notin u \ {Max(u)}
        BY <3>2, <4>0
      <4>2. f[u] = g[u] /\ f[u \ {Max(u)}] = g[u \ {Max(u)}]
        BY <4>1, <3>2
      <4>. HIDE DEF f
      <4>. QED  BY <4>1, <4>2, <2>2
    <3>. QED  BY <3>1, <3>2
  <2>4. Runs(f, 1..(k + 1))
    BY <2>3
  <2>. HIDE DEF f, Runs
  <2>. QED  BY <2>4
<1>4. PICK g : Runs(g, 1..n)
  <2>. HIDE DEF Good
  <2>1. \A k \in 0..(n - 1) : k \in Good => k + 1 \in Good
    BY <1>3
  <2>2. \A k \in 0..n : k \in Good
    BY <1>2, <2>1, NumberInduction
  <2>3. n \in 0..n
    OBVIOUS
  <2>. HIDE DEF Runs
  <2>. QED  BY <2>2, <2>3 DEF Good
<1>5. PICK f : Runs(f, D) /\ FoldLeft(GiveSeat, a, q) = f[D]
  <2>1. Runs(CHOOSE e : Runs(e, D), D)
    <3>. HIDE DEF Runs
    <3>. QED  BY <1>4
  <2>. HIDE DEF Runs
  <2>. QED  BY <1>1, <2>1
<1>6. \A u \in SUBSET (1..n) : f[u] = IF u = {} THEN a ELSE GiveSeat(f[u \ {Max(u)}], q[Max(u)])
  BY <1>5
<1>. DEFINE h == [k \in 0..n |-> f[1..k]]
<1>7. h[0] = a
  <2>1. 1..0 = {} /\ 1..0 \in SUBSET (1..n)
    OBVIOUS
  <2>2. f[{}] = a
    BY <1>6, <2>1
  <2>. QED  BY <2>1, <2>2
<1>8. ASSUME NEW k \in 1..n PROVE h[k] = GiveSeat(h[k - 1], q[k])
  <2>1. 1..k \in SUBSET (1..n) /\ k \in 1..k /\ (1..k) \ {k} = 1..(k - 1) /\ k - 1 \in 0..n
        /\ k - 1 \in Nat /\ k - 1 + 1 = k
    OBVIOUS
  <2>2. Max(1..k) = k
    BY <2>1, HighestIsLast
  <2>3. f[1..k] = GiveSeat(f[(1..k) \ {k}], q[k])
    BY <1>6, <2>1, <2>2
  <2>4. h[k] = f[1..k] /\ h[k - 1] = f[1..(k - 1)]
    BY <2>1
  <2>. HIDE DEF h
  <2>. QED  BY <2>1, <2>3, <2>4
<1>9. h[n] = f[D]
  OBVIOUS
<1>. HIDE DEF h
<1>. QED  BY <1>5, <1>7, <1>8, <1>9 DEF SeatAll, SeatBySeat

\* the first k candidates, and those of them the closed form puts in team t
First(k) == {p \in DOMAIN cands : Rank[p] < k}
Got(k, t) == {p \in First(k) : TeamOf(cands, Size, p) = t}

Seats == LesserOf(2 * Size, Len(cands))

(* The first ones are a prefix of who plays.                               *)
LEMMA FirstAreAhead ==
  ASSUME TableOk
  PROVE  /\ Seats \in Nat /\ Seats <= Len(cands) /\ Seats <= 2 * Size
         /\ Playing(cands, Size) = First(Seats)
         /\ \A k \in 0..Seats : /\ Prefix(cands, Size, First(k))
                                /\ Cardinality(First(k)) = k
<1>. DEFINE n == Len(cands)
            m == Seats
            D == DOMAIN cands
<1>1. n \in Nat /\ Size \in Nat /\ Candidacy(cands) /\ Cardinality(D) = n /\ IsFiniteSet(D)
  BY TableIsCandidacy DEF Candidacy
<1>2. m \in Nat /\ m <= n /\ m <= 2 * Size /\ (m = n \/ m = 2 * Size)
  BY <1>1 DEF Seats, LesserOf
<1>3. \A p \in D : /\ Rank[p] \in Nat /\ Rank[p] < n
                   /\ Rank[p] = Cardinality({q \in D : Ahead(cands, q, p)})
  <2>. SUFFICES ASSUME NEW p \in D
                PROVE  /\ Rank[p] \in Nat /\ Rank[p] < n
                       /\ Rank[p] = Cardinality({q \in D : Ahead(cands, q, p)})
    OBVIOUS
  <2>1. Rank[p] \in 0..(n - 1)
    BY RanksOfTable
  <2>2. Rank[p] = Cardinality({q \in D : Ahead(cands, q, p)})
    BY RanksOfTable
  <2>. HIDE DEF n
  <2>. QED  BY <1>1, <2>1, <2>2
<1>4. ASSUME NEW p \in D PROVE Rank[p] < 2 * Size <=> Rank[p] < m
  <2>1. Rank[p] \in Nat /\ Rank[p] < n
    BY <1>3
  <2>. HIDE DEF n, m
  <2>. QED  BY <1>1, <1>2, <2>1
<1>5. Playing(cands, Size) = First(m)
  <2>1. \A p \in D : Cardinality({q \in D : Ahead(cands, q, p)}) < 2 * Size <=> Rank[p] < m
    BY <1>3, <1>4
  <2>. QED  BY <2>1 DEF Playing, First
<1>6. ASSUME NEW k \in 0..m PROVE Prefix(cands, Size, First(k))
  <2>1. ASSUME NEW p \in First(k) PROVE p \in First(m)
    <3>1. p \in D /\ Rank[p] < k
      BY DEF First
    <3>2. Rank[p] \in Nat
      BY <1>3, <3>1
    <3>. HIDE DEF m
    <3>3. Rank[p] < m
      BY <1>2, <3>1, <3>2
    <3>. QED  BY <3>1, <3>3 DEF First
  <2>2. ASSUME NEW p \in First(k), NEW q \in D, Ahead(cands, q, p) PROVE q \in First(k)
    <3>1. p \in D /\ Rank[p] < k
      BY DEF First
    <3>2. Rank[q] < Rank[p]
      BY <2>2, <3>1, RanksOfTable
    <3>3. Rank[q] \in Nat /\ Rank[p] \in Nat
      BY <1>3, <3>1
    <3>. QED  BY <3>1, <3>2, <3>3 DEF First
  <2>3. First(m) \subseteq D
    BY DEF First
  <2>. QED  BY <1>5, <2>1, <2>2, <2>3 DEF Prefix
<1>7. ASSUME NEW k \in 0..m PROVE Cardinality(First(k)) = k
  <2>1. k \in Nat /\ k <= n
    BY <1>1, <1>2
  <2>2. D \in SUBSET D
    OBVIOUS
  <2>3. Orders(AheadIn(cands), D)
    BY <1>1, <2>2, AheadOrders
  <2>4. First(k) = {p \in D : Cardinality(Before(AheadIn(cands), D, p)) < k}
    BY DEF First, Rank, RankOf
  <2>5. Cardinality({p \in D : Cardinality(Before(AheadIn(cands), D, p)) < k}) = LesserOf(k, n)
    <3>. HIDE DEF D, n
    <3>. QED  BY <1>1, <2>1, <2>3, FirstOnes
  <2>6. LesserOf(k, n) = k
    BY <2>1, <1>1 DEF LesserOf
  <2>. QED  BY <2>4, <2>5, <2>6
<1>. QED  BY <1>2, <1>5, <1>6, <1>7

(* What is counted up to here says whether the next one gets its wish.     *)
LEMMA CountDecides ==
  ASSUME TableOk, NEW k \in 0..(Seats - 1), NEW p \in DOMAIN cands, Rank[p] = k
  PROVE  Cardinality(Got(k, cands[p].team)) < Size <=> SeatedInPreference(cands, Size, p)
<1>. DEFINE t == cands[p].team
            w(x) == Cardinality(Wanting(cands, First(k), x))
<1>1. /\ Seats \in Nat /\ Seats <= 2 * Size /\ Playing(cands, Size) = First(Seats)
      /\ k \in 0..Seats /\ Prefix(cands, Size, First(k)) /\ Cardinality(First(k)) = k
  <2>1. Seats \in Nat
    BY FirstAreAhead
  <2>2. k \in 0..Seats
    BY <2>1
  <2>. QED  BY <2>1, <2>2, FirstAreAhead
<1>2. Candidacy(cands) /\ Size \in Nat /\ t \in Teams
  BY TableIsCandidacy DEF Candidacy
<1>3. /\ w(0) \in Nat /\ w(1) \in Nat /\ w(0) + w(1) = k
      /\ Cardinality(Got(k, t)) = LesserOf(Size, w(t)) + w(1 - t) - LesserOf(Size, w(1 - t))
  <2>1. \A x \in Teams : Cardinality({y \in First(k) : TeamOf(cands, Size, y) = x})
                           = LesserOf(Size, w(x)) + w(1 - x) - LesserOf(Size, w(1 - x))
    BY <1>1, <1>2, TeamsOfPrefix
  <2>2. w(0) \in Nat /\ w(1) \in Nat /\ w(0) + w(1) = Cardinality(First(k))
    BY <1>1, <1>2, TeamsOfPrefix
  <2>3. Got(k, t) = {y \in First(k) : TeamOf(cands, Size, y) = t}
    BY DEF Got
  <2>. HIDE DEF w, t
  <2>. QED  BY <1>1, <1>2, <2>1, <2>2, <2>3
<1>4. {q \in Playing(cands, Size) : cands[q].team = t /\ Ahead(cands, q, p)}
        = Wanting(cands, First(k), t)
  <2>1. \A q \in DOMAIN cands : /\ Rank[q] \in Nat
                                /\ Rank[q] < Rank[p] <=> Ahead(cands, q, p)
    BY RanksOfTable
  <2>2. \A q \in DOMAIN cands : q \in First(k) <=> Ahead(cands, q, p)
    BY <2>1 DEF First
  <2>3. First(k) \subseteq Playing(cands, Size) /\ Playing(cands, Size) \subseteq DOMAIN cands
    BY <1>1 DEF Prefix, First
  <2>. QED  BY <2>2, <2>3 DEF Wanting
<1>5. SeatedInPreference(cands, Size, p) <=> w(t) < Size
  BY <1>4 DEF SeatedInPreference
<1>6. t = 0 \/ t = 1
  BY <1>2 DEF Teams
<1>7. k < 2 * Size
  BY <1>1, <1>2
<1>. HIDE DEF w, t
<1>8. CASE t = 0
  <2>1. Cardinality(Got(k, t)) = LesserOf(Size, w(0)) + w(1) - LesserOf(Size, w(1))
    BY <1>3, <1>8
  <2>. QED  BY <1>2, <1>3, <1>5, <1>7, <1>8, <2>1 DEF LesserOf, t
<1>9. CASE t = 1
  <2>1. Cardinality(Got(k, t)) = LesserOf(Size, w(1)) + w(0) - LesserOf(Size, w(0))
    BY <1>3, <1>9
  <2>. QED  BY <1>2, <1>3, <1>5, <1>7, <1>9, <2>1 DEF LesserOf, t
<1>. QED  BY <1>6, <1>8, <1>9

\* what the closed form says of the loop after k seats
AfterSeats(k) ==
  [count |-> [t \in Teams |-> Cardinality(Got(k, t))],
   teamOf |-> [p \in DOMAIN cands |->
                 IF Rank[p] < k THEN TeamOf(cands, Size, p) ELSE Waiting]]

(* One seat more is given as the closed form says.                         *)
LEMMA NextSeat ==
  ASSUME TableOk, NEW k \in 0..(Seats - 1), NEW p \in DOMAIN cands, Rank[p] = k
  PROVE  GiveSeat(AfterSeats(k), p) = AfterSeats(k + 1)
<1>. DEFINE t == TeamOf(cands, Size, p)
            want == cands[p].team
            D == DOMAIN cands
<1>1. Seats \in Nat /\ k \in Nat /\ Size \in Nat
  BY FirstAreAhead, TableIsCandidacy
<1>2. want \in {0, 1}
  BY TableIsCandidacy DEF Candidacy, Teams
<1>3. t = IF Cardinality(Got(k, want)) < Size THEN want ELSE IF want = 0 THEN 1 ELSE 0
  <2>1. t = IF SeatedInPreference(cands, Size, p) THEN want ELSE 1 - want
    BY DEF TeamOf
  <2>2. Cardinality(Got(k, want)) < Size <=> SeatedInPreference(cands, Size, p)
    BY CountDecides
  <2>. HIDE DEF t, want
  <2>. QED  BY <1>2, <2>1, <2>2
<1>4. t \in Teams /\ want \in Teams
  BY <1>2, <1>3 DEF Teams
<1>5. \A x \in D : /\ Rank[x] \in Nat
                   /\ Rank[x] < k + 1 <=> Rank[x] < k \/ x = p
  <2>. SUFFICES ASSUME NEW x \in D
                PROVE  Rank[x] \in Nat /\ (Rank[x] < k + 1 <=> Rank[x] < k \/ x = p)
    OBVIOUS
  <2>1. Rank[x] \in Nat /\ At(Rank[x] + 1) = x /\ At(Rank[p] + 1) = p
    BY RanksOfTable
  <2>. QED  BY <1>1, <2>1
<1>6. ASSUME NEW x \in Teams
      PROVE  Cardinality(Got(k + 1, x)) = IF x = t THEN Cardinality(Got(k, x)) + 1
                                          ELSE Cardinality(Got(k, x))
  <2>1. Got(k + 1, x) = IF x = t THEN Got(k, x) \cup {p} ELSE Got(k, x)
    BY <1>5 DEF Got, First
  <2>2. p \notin Got(k, x)
    BY <1>1 DEF Got, First
  <2>3. IsFiniteSet(Got(k, x))
    <3>1. IsFiniteSet(D) /\ Got(k, x) \in SUBSET D
      BY TableIsCandidacy DEF Candidacy, Got, First
    <3>. QED  BY <3>1, FS_Subset
  <2>4. Cardinality(Got(k, x) \cup {p}) = Cardinality(Got(k, x)) + 1
    BY <2>2, <2>3, FS_AddElement
  <2>. QED  BY <2>1, <2>4
<1>. DEFINE counts == [x \in Teams |-> Cardinality(Got(k, x))]
            teams == [x \in D |-> IF Rank[x] < k THEN TeamOf(cands, Size, x) ELSE Waiting]
<1>7. [counts EXCEPT ![t] = @ + 1] = [x \in Teams |-> Cardinality(Got(k + 1, x))]
  BY <1>4, <1>6
<1>8. [teams EXCEPT ![p] = t]
        = [x \in D |-> IF Rank[x] < k + 1 THEN TeamOf(cands, Size, x) ELSE Waiting]
  BY <1>1, <1>5
<1>9. AfterSeats(k).count = counts /\ AfterSeats(k).teamOf = teams
  BY DEF AfterSeats
<1>10. AfterSeats(k).count[want] = Cardinality(Got(k, want))
  BY <1>4, <1>9
<1>11. GiveSeat(AfterSeats(k), p)
         = [count |-> [AfterSeats(k).count EXCEPT ![t] = @ + 1],
            teamOf |-> [AfterSeats(k).teamOf EXCEPT ![p] = t]]
  <2>. HIDE DEF t
  <2>. QED  BY Zenon, <1>3, <1>10 DEF GiveSeat
<1>. HIDE DEF counts, teams, t
<1>. QED  BY Zenon, <1>7, <1>8, <1>9, <1>11 DEF AfterSeats

(* The loop of the code gives what the closed form says.                   *)
LEMMA LoopIsClosedForm ==
  ASSUME TableOk
  PROVE  Loop = AfterSeats(Seats)
<1>. DEFINE n == Len(cands)
            m == Seats
<1>1. n \in Nat /\ m \in Nat /\ m <= n
  BY TableIsCandidacy, FirstAreAhead
<1>2. DOMAIN Seated = 1..m /\ \A i \in 1..m : Seated[i] = At(i)
  <2>1. Order = [i \in 1..n |-> At(i)] /\ \A i \in 1..n : At(i) \in DOMAIN cands
    BY OrderIsByRank, RanksOfTable
  <2>2. Order \in Seq(DOMAIN cands) /\ Len(Order) = n
    <3>1. [i \in 1..n |-> At(i)] \in [1..n -> DOMAIN cands]
      BY <2>1
    <3>2. [i \in 1..n |-> At(i)] \in Seq(DOMAIN cands) /\ Len([i \in 1..n |-> At(i)]) = n
      BY <1>1, <3>1, SeqDef, LenProperties
    <3>. QED  BY <2>1, <3>2
  <2>3. Seated = [i \in 1..m |-> Order[i]]
    <3>1. Seated = SubSeq(Order, 1, m)
      BY DEF Seated, Seats
    <3>2. SubSeq(Order, 1, m) = [i \in 1..(m - 1 + 1) |-> Order[i + 1 - 1]]
      BY <1>1
    <3>. QED  BY <1>1, <3>1, <3>2
  <2>. QED  BY <1>1, <2>1, <2>3
<1>. DEFINE start == [count |-> [t \in Teams |-> 0],
                      teamOf |-> [p \in DOMAIN cands |-> Waiting]]
<1>3. Loop = SeatAll(start, Seated)
  BY Zenon DEF Loop, SeatAll
<1>4. start = AfterSeats(0)
  <2>1. ASSUME NEW p \in DOMAIN cands PROVE ~ (Rank[p] < 0)
    <3>1. Rank[p] \in Nat
      BY RanksOfTable
    <3>. QED  BY <3>1
  <2>2. \A t : Got(0, t) = {}
    BY <2>1 DEF Got, First
  <2>3. \A t : Cardinality(Got(0, t)) = 0
    BY <2>2, FS_EmptySet
  <2>. QED  BY <2>1, <2>3 DEF AfterSeats
<1>. HIDE DEF start, n, m
<1>5. PICK h : SeatBySeat(start, m, Seated, h)
  BY <1>1, <1>2, SeatsInTurn
<1>. DEFINE Good == {k \in 0..m : h[k] = AfterSeats(k)}
<1>6. 0 \in Good
  <2>1. h[0] = start /\ 0 \in 0..m
    BY <1>1, <1>5 DEF SeatBySeat
  <2>. QED  BY <1>4, <2>1
<1>7. \A k \in 0..(m - 1) : k \in Good => k + 1 \in Good
  <2>. SUFFICES ASSUME NEW k \in 0..(m - 1), h[k] = AfterSeats(k) PROVE k + 1 \in Good
    OBVIOUS
  <2>1. k + 1 \in 1..m /\ k + 1 \in 0..m /\ k + 1 - 1 = k /\ k + 1 \in 1..n
    BY <1>1
  <2>2. h[k + 1] = GiveSeat(h[k], Seated[k + 1])
    BY <1>5, <2>1 DEF SeatBySeat
  <2>3. At(k + 1) \in DOMAIN cands /\ Rank[At(k + 1)] = k
    BY <2>1, RanksOfTable DEF n
  <2>4. GiveSeat(AfterSeats(k), At(k + 1)) = AfterSeats(k + 1)
    BY <2>3, NextSeat DEF m
  <2>5. Seated[k + 1] = At(k + 1)
    BY <1>2, <2>1
  <2>. QED  BY <2>1, <2>2, <2>4, <2>5
<1>8. \A k \in 0..m : k \in Good
  <2>. HIDE DEF Good
  <2>. QED  BY <1>1, <1>6, <1>7, NumberInduction
<1>9. m \in 0..m
  BY <1>1
<1>10. h[m] = AfterSeats(m)
  BY <1>8, <1>9
<1>. QED  BY <1>3, <1>5, <1>10 DEF SeatBySeat, m

(* The closed form of the formation is the loop of the code, for any       *)
(* number of people and every limit: who plays, in which team, and how     *)
(* many each team counts (planFormation).                                  *)
THEOREM FormationIsLoop == Spec => []SameAsLoop
<1>1. TableOk => SameAsLoop
  <2>. SUFFICES ASSUME TableOk PROVE SameAsLoop
    OBVIOUS
  <2>1. Loop = AfterSeats(Seats) /\ Playing(cands, Size) = First(Seats)
    BY LoopIsClosedForm, FirstAreAhead
  <2>2. /\ \A t \in Teams : Loop.count[t] = Cardinality(Got(Seats, t))
        /\ \A p \in DOMAIN cands :
             Loop.teamOf[p] = IF Rank[p] < Seats THEN TeamOf(cands, Size, p) ELSE Waiting
    BY <2>1 DEF AfterSeats
  <2>3. \A p : TeamOf(cands, Size, p) # Waiting \/ p \notin DOMAIN cands
    <3>. SUFFICES ASSUME NEW p \in DOMAIN cands PROVE TeamOf(cands, Size, p) # Waiting
      OBVIOUS
    <3>1. cands[p].team \in {0, 1}
      BY TableIsCandidacy DEF Candidacy, Teams
    <3>. QED  BY <3>1 DEF TeamOf, Waiting
  <2>4. Playing(cands, Size) = {p \in DOMAIN cands : Loop.teamOf[p] # Waiting}
    BY <2>1, <2>2, <2>3 DEF First
  <2>5. \A p \in Playing(cands, Size) : TeamOf(cands, Size, p) = Loop.teamOf[p]
    BY <2>1, <2>2 DEF First
  <2>6. \A t \in Teams : HumansIn(cands, Size, t) = Loop.count[t]
    BY <2>1, <2>2 DEF HumansIn, Got
  <2>. QED  BY <2>4, <2>5, <2>6 DEF SameAsLoop
<1>. QED  BY <1>1, TableStarts, TableStays, PTL DEF Spec

(* Every plan that is not blocked makes two equal teams within the limits, *)
(* bots included, and nobody waits while there is a seat (planFormation).  *)
THEOREM PlansHold == Spec => []PlanIsFair
<1>1. TableOk => PlanIsFair
  <2>. SUFFICES ASSUME TableOk, ~ Blocked(cands, Size)
                PROVE  /\ \A t \in Teams :
                            /\ BotsIn(cands, Size, fill, t) >= 0
                            /\ HumansIn(cands, Size, t) + BotsIn(cands, Size, fill, t) = Size
                            /\ Playing(cands, Size) # DOMAIN cands => HumansIn(cands, Size, t) = Size
                       /\ Size <= MaxTeamSize /\ (option # Flex => Size <= option)
    BY DEF PlanIsFair
  <2>1. /\ Candidacy(cands) /\ option \in Nat /\ fill \in BOOLEAN
        /\ MaxTeamSize \in Nat \ {0} /\ Cardinality(DOMAIN cands) = Len(cands)
    BY TableIsCandidacy, FormationLimits DEF TableOk
  <2>2. Size = TeamSizeFor(Cardinality(DOMAIN cands), option, fill, MaxTeamSize)
    BY <2>1 DEF Size
  <2>3. Fair(cands, Size, fill) /\ Size \in 1..MaxTeamSize /\ (option # Flex => Size <= option)
    BY <2>1, <2>2, PlansAreFair
  <2>. QED  BY <2>1, <2>3 DEF Fair
<1>. QED  BY <1>1, TableStarts, TableStays, PTL DEF Spec
-----------------------------------------------------------------------------
(*                             The stealth filter                            *)


Entry == [conceal : Int, reveal : Int, hidden : BOOLEAN, ghost : Int]

StealthTypes ==
  /\ tickCount \in Nat /\ started \in Nat /\ started <= tickCount
  /\ phase \in {"idle", "loading", "stepped"}
  /\ simulated \subseteq Subjects
  /\ stealthTick \in Int
  /\ entries \in [Subjects -> Entry]
  /\ shown \in [Subjects -> Int]
  /\ eventAt \in [Subjects -> Int]
  /\ unmetAt \in [Subjects -> Int]

\* The last snapshot before tick v.
SnapshotBefore(v) == v - 2 + (v % 2)

(* What is left of a revelation at the snapshot of tick last: all of it for  *)
(* an event the filter has not seen a snapshot of, and otherwise what the    *)
(* snapshots since the one before the event have left.  Whoever is revealed  *)
(* at a snapshot did not meet the rule there.                                *)
RevealAgrees(r, u, v, last, now) ==
  /\ v = NoTick => r = 0
  /\ v # NoTick => 0 <= v /\ v <= now
  /\ v # NoTick /\ v > last => r = RevealTicks
  /\ v # NoTick /\ v <= last =>
       /\ r = Greater(0, RevealTicks - (last - SnapshotBefore(v)))
       /\ r > 0 => u = last

(* The delay against the room's clock: it began when the rule was last not   *)
(* met, at snapshot u.                                                       *)
Timed(e, u, last) ==
  /\ started < u /\ u <= last
  /\ e.conceal = ConcealTicks - (last - u)
  /\ e.hidden <=> last - u >= ConcealTicks
  /\ ~e.hidden => e.ghost = last
  /\ e.hidden => started < e.ghost /\ e.ghost < u + ConcealTicks

Agrees(e, u, v, last, now) == Timed(e, u, last) /\ RevealAgrees(e.reveal, u, v, last, now)

Untold(p) == entries[p] = Fresh /\ eventAt[p] = NoTick

(* A round that was announced, or had no snapshot yet, knows nothing of      *)
(* anybody; later, the entries agree with the rule.                          *)
EntriesAgree ==
  /\ phase = "loading" => stealthTick = NoTick
  /\ phase # "idle" /\ stealthTick = NoTick => \A p \in simulated : Untold(p)
  /\ phase = "stepped" /\ stealthTick # NoTick =>
       /\ 0 < stealthTick /\ LastSnapshot % 2 = 0
       /\ tickCount = LastSnapshot \/ tickCount = LastSnapshot + 1
       /\ \A p \in simulated :
            /\ Agrees(entries[p], unmetAt[p], eventAt[p], LastSnapshot, tickCount)
            /\ shown[p] = entries[p].ghost

StealthInv == StealthTypes /\ EntriesAgree /\ ShownByTheRule

-----------------------------------------------------------------------------
(* Even and odd alternate.                                                   *)
LEMMA Parity ==
  ASSUME NEW n \in Int
  PROVE  /\ n % 2 = 0 \/ n % 2 = 1
         /\ n % 2 = 0 => (n + 1) % 2 = 1 /\ (n + 2) % 2 = 0 /\ (n - 2) % 2 = 0
         /\ n % 2 = 1 => (n - 1) % 2 = 0 /\ (n + 1) % 2 = 0
OBVIOUS

\* A revelation and the last event after the events of tick now.
RevealObserved(r, v, r1, v1, now) ==
  \/ r1 = r /\ v1 = v
  \/ r1 = Greater(r, RevealTicks) /\ v1 = now

\* What the snapshot of tick now leaves of it.
RevealLeft(left, v, now) ==
  /\ left > 0 <=> v # NoTick /\ now - v < RevealTicks - 1
  /\ v = NoTick => left = 0
  /\ v # NoTick => left = Greater(0, RevealTicks - (now - SnapshotBefore(v)))

(* Two snapshots apart, with the code's constants: what is left of the       *)
(* revelation is exactly what the rule asks of the clock.                    *)
LEMMA RevealSteps ==
  ASSUME RevealTicks \in Nat, RevealTicks % 2 = 1,
         NEW r \in Int, NEW u \in Int, NEW v \in Int, NEW last \in Nat, last % 2 = 0,
         RevealAgrees(r, u, v, last, last + 1),
         NEW r1 \in Int, NEW v1 \in Int, RevealObserved(r, v, r1, v1, last + 2)
  PROVE  RevealLeft(Greater(0, r1 - 2), v1, last + 2)
<1> DEFINE left == Greater(0, r1 - 2)
<1> USE DEF RevealLeft, RevealObserved
<1>0. left \in Int /\ (v1 # NoTick => 0 <= v1 /\ v1 <= last + 2)
  BY DEF Greater, RevealAgrees
<1>1. v1 \in Int /\ (v1 % 2 = 0 \/ v1 % 2 = 1)
  OBVIOUS
<1>2. CASE v1 = NoTick
  <2>1. r1 = 0
    BY <1>2, NoTick # last + 2 DEF RevealAgrees, NoTick
  <2> QED
    BY <1>2, <2>1 DEF Greater
<1>3. CASE v1 # NoTick /\ v1 > last
  <2>1. r <= RevealTicks
    BY DEF RevealAgrees, Greater, SnapshotBefore, NoTick
  <2>2. r1 = RevealTicks
    BY <1>3, <2>1 DEF RevealAgrees, Greater, NoTick
  <2>3. v1 = last + 1 \/ v1 = last + 2
    BY <1>0, <1>3 DEF NoTick
  <2>4. SnapshotBefore(v1) = last
    <3>1. (last + 1) % 2 = 1 /\ (last + 2) % 2 = 0
      BY Parity
    <3> QED
      BY <2>3, <3>1 DEF SnapshotBefore
  <2>5. left = Greater(0, RevealTicks - 2) /\ (left > 0 <=> RevealTicks > 2)
    BY <2>2 DEF Greater
  <2>6. RevealTicks = 1 \/ RevealTicks > 2
    OBVIOUS
  <2>7. v1 # NoTick /\ last + 2 - v1 < RevealTicks - 1 <=> RevealTicks > 2
    BY <1>3, <2>3, <2>6
  <2> QED
    BY <1>3, <2>4, <2>5, <2>7
<1>4. CASE v1 # NoTick /\ v1 <= last
  <2>1. v1 = v /\ r1 = r
    BY <1>4
  <2>2. PICK k \in Int : SnapshotBefore(v1) = k /\ k % 2 = 0 /\ (v1 = k + 1 \/ v1 = k + 2)
    <3>1. CASE v1 % 2 = 0
      <4>1. SnapshotBefore(v1) = v1 - 2 /\ (v1 - 2) % 2 = 0 /\ v1 = (v1 - 2) + 2
        BY <1>1, <3>1, Parity DEF SnapshotBefore
      <4> QED
        BY <4>1
    <3>2. CASE v1 % 2 = 1
      <4>1. SnapshotBefore(v1) = v1 - 1 /\ (v1 - 1) % 2 = 0 /\ v1 = (v1 - 1) + 1
        BY <1>1, <3>2, Parity DEF SnapshotBefore
      <4> QED
        BY <4>1
    <3> QED
      BY <1>1, <3>1, <3>2
  <2>3. r1 = Greater(0, RevealTicks - (last - k))
    BY <1>4, <2>1, <2>2 DEF RevealAgrees
  <2>4. left = Greater(0, RevealTicks - (last + 2 - k))
    BY <2>3 DEF Greater
  <2>5. left > 0 <=> last + 2 - k < RevealTicks
    BY <2>4 DEF Greater
  <2>6. last + 2 - k # RevealTicks
    BY <2>2
  <2>7. last + 2 - k < RevealTicks <=> last + 2 - v1 < RevealTicks - 1
    BY <2>2, <2>6
  <2> QED
    BY <1>4, <2>2, <2>4, <2>5, <2>7
<1> QED
  BY <1>2, <1>3, <1>4

-----------------------------------------------------------------------------
\* An entry and the last event of a person after the events of tick now.
WasObserved(e, v, e1, v1, now) ==
  \/ e1 = e /\ v1 = v
  \/ e1 = [e EXCEPT !.reveal = Greater(@, RevealTicks)] /\ v1 = now

\* Only the revelation is affected by events.
LEMMA ObservedEntry ==
  ASSUME RevealTicks \in Nat, NEW e \in Entry, NEW v \in Int, NEW e1, NEW v1 \in Int,
         NEW now \in Int, WasObserved(e, v, e1, v1, now)
  PROVE  /\ e1 \in Entry
         /\ e1.conceal = e.conceal /\ e1.hidden = e.hidden /\ e1.ghost = e.ghost
         /\ RevealObserved(e.reveal, v, e1.reveal, v1, now)
<1>1. Greater(e.reveal, RevealTicks) \in Int
  BY DEF Greater, Entry
<1>2. CASE e1 = e /\ v1 = v
  <2>1. e1 \in Entry
    BY <1>2
  <2>2. e1.conceal = e.conceal /\ e1.hidden = e.hidden /\ e1.ghost = e.ghost
    BY <1>2
  <2>3. e1.reveal = e.reveal /\ v1 = v
    BY <1>2
  <2> QED
    BY <2>1, <2>2, <2>3 DEF RevealObserved
<1>3. CASE e1 = [e EXCEPT !.reveal = Greater(@, RevealTicks)] /\ v1 = now
  <2> DEFINE r == Greater(e.reveal, RevealTicks)
  <2>1. e1 = [e EXCEPT !.reveal = r] /\ r \in Int
    BY <1>1, <1>3
  <2> HIDE DEF r
  <2>2. /\ e1 \in Entry /\ e1.reveal = r
        /\ e1.conceal = e.conceal /\ e1.hidden = e.hidden /\ e1.ghost = e.ghost
    BY <2>1 DEF Entry
  <2> QED
    BY <1>3, <2>2 DEF RevealObserved, r
<1> QED
  BY <1>2, <1>3 DEF WasObserved

(* One pass of the filter over a person that agrees with the clock, whatever *)
(* makes it exposed.                                                         *)
LEMMA DelayAgrees ==
  ASSUME started \in Nat, ConcealTicks \in Nat \ {0},
         NEW e \in Entry, NEW u \in Int, NEW last \in Nat, Timed(e, u, last),
         NEW dt \in Nat, NEW immersed \in BOOLEAN, NEW discovered \in BOOLEAN,
         NEW now \in Int, now = last + dt,
         NEW n, n = Passed(e, dt, immersed, discovered, now)
  PROVE  /\ n \in Entry /\ n.reveal = Greater(0, e.reveal - dt)
         /\ immersed /\ ~discovered /\ ~(n.reveal > 0) => Timed(n, u, now)
         /\ ~(immersed /\ ~discovered /\ ~(n.reveal > 0)) => Timed(n, now, now)
<1> DEFINE left == Greater(0, e.reveal - dt)
           exposed == ~immersed \/ left > 0 \/ discovered
           delay == IF exposed THEN ConcealTicks ELSE e.conceal - dt
           hidden == ~exposed /\ (e.hidden \/ (delay <= 0 /\ e.ghost # NoPlace))
           ghost == IF hidden THEN e.ghost ELSE now
<1>1. e.conceal \in Int /\ e.reveal \in Int /\ e.hidden \in BOOLEAN /\ e.ghost \in Int
  BY DEF Entry
<1>2. n = [conceal |-> delay, reveal |-> left, hidden |-> hidden, ghost |-> ghost]
  BY DEF Passed, Delay
<1>3. left \in Int /\ delay \in Int /\ hidden \in BOOLEAN /\ ghost \in Int
  BY <1>1 DEF Greater
<1>4. n \in Entry
  <2> HIDE DEF left, delay, hidden, ghost
  <2> QED
    BY <1>2, <1>3 DEF Entry
<1>5. n.conceal = delay /\ n.reveal = left /\ n.hidden = hidden /\ n.ghost = ghost
  <2> HIDE DEF left, delay, hidden, ghost
  <2> QED
    BY <1>2
<1>6. e.ghost # NoPlace
  BY <1>1 DEF NoPlace, Timed
<1>7. CASE exposed
  <2>1. n.conceal = ConcealTicks /\ ~n.hidden /\ n.ghost = now
    BY <1>5, <1>7
  <2>2. Timed(n, now, now)
    BY <2>1 DEF Timed
  <2> QED
    BY <1>4, <1>5, <1>7, <2>2
<1>8. CASE ~exposed
  <2>1. n.conceal = e.conceal - dt
    BY <1>5, <1>8
  <2>2. n.hidden <=> e.hidden \/ e.conceal - dt <= 0
    BY <1>5, <1>6, <1>8
  <2>3. n.ghost = IF n.hidden THEN e.ghost ELSE now
    BY <1>5
  <2> HIDE DEF left, delay, hidden, ghost, exposed
  <2>4. Timed(n, u, now)
    BY <1>1, <2>1, <2>2, <2>3 DEF Timed
  <2>5. immersed /\ ~discovered /\ ~(n.reveal > 0)
    BY <1>5, <1>8 DEF exposed
  <2> QED
    BY <1>4, <1>5, <2>4, <2>5 DEF left
<1> QED
  BY <1>7, <1>8

\* The rule at a snapshot, and when it was last not met after it.
MeetsRule(immersed, discovered, v, now) ==
  immersed /\ ~discovered /\ (v = NoTick \/ now - v >= RevealTicks - 1)

UnmetAfter(u, immersed, discovered, v, now) ==
  IF MeetsRule(immersed, discovered, v, now) THEN u ELSE now

(* A snapshot two ticks after the last one keeps the agreement.              *)
LEMMA PassAgrees ==
  ASSUME RevealTicks \in Nat, RevealTicks % 2 = 1, started \in Nat,
         ConcealTicks \in Nat \ {0},
         NEW e \in Entry, NEW u \in Int, NEW v \in Int,
         NEW last \in Nat, last % 2 = 0, Agrees(e, u, v, last, last + 1),
         NEW e1, NEW v1 \in Int, WasObserved(e, v, e1, v1, last + 2),
         NEW immersed \in BOOLEAN, NEW discovered \in BOOLEAN,
         NEW n, n = Passed(e1, 2, immersed, discovered, last + 2)
  PROVE  /\ n \in Entry
         /\ Agrees(n, UnmetAfter(u, immersed, discovered, v1, last + 2), v1,
                   last + 2, last + 2)
<1> DEFINE u1 == UnmetAfter(u, immersed, discovered, v1, last + 2)
<1>1. /\ e1 \in Entry /\ Timed(e1, u, last)
      /\ RevealObserved(e.reveal, v, e1.reveal, v1, last + 2)
      /\ e.reveal \in Int /\ e1.reveal \in Int
  <2>1. /\ e1 \in Entry
        /\ e1.conceal = e.conceal /\ e1.hidden = e.hidden /\ e1.ghost = e.ghost
        /\ RevealObserved(e.reveal, v, e1.reveal, v1, last + 2)
    BY ObservedEntry
  <2>2. e.reveal \in Int /\ e1.reveal \in Int
    BY <2>1 DEF Entry
  <2> QED
    BY <2>1, <2>2 DEF Agrees, Timed
<1>2. RevealLeft(Greater(0, e1.reveal - 2), v1, last + 2)
  BY <1>1, RevealSteps DEF Agrees
<1>3. /\ n \in Entry /\ n.reveal = Greater(0, e1.reveal - 2)
      /\ immersed /\ ~discovered /\ ~(n.reveal > 0) => Timed(n, u, last + 2)
      /\ ~(immersed /\ ~discovered /\ ~(n.reveal > 0)) => Timed(n, last + 2, last + 2)
  BY <1>1, DelayAgrees
<1>4. MeetsRule(immersed, discovered, v1, last + 2)
        <=> immersed /\ ~discovered /\ ~(n.reveal > 0)
  BY <1>2, <1>3 DEF MeetsRule, RevealLeft
<1>5. Timed(n, u1, last + 2) /\ (n.reveal > 0 => u1 = last + 2)
  BY <1>3, <1>4 DEF UnmetAfter
<1>6. v1 # NoTick => 0 <= v1 /\ v1 <= last + 2
  BY <1>1 DEF Agrees, RevealAgrees, RevealObserved
<1>7. RevealAgrees(n.reveal, u1, v1, last + 2, last + 2)
  <2> HIDE DEF u1
  <2> QED
    BY <1>2, <1>3, <1>5, <1>6 DEF RevealAgrees, RevealLeft
<1> QED
  BY <1>3, <1>5, <1>7 DEF Agrees

\* ShownByTheRule of one person
Shows(place, u, last) ==
  /\ last - u < ConcealTicks => place = last
  /\ last - u >= ConcealTicks => started < place /\ place < u + ConcealTicks

(* What a timed entry keeps is shown as the rule says.                     *)
LEMMA TimedShows ==
  ASSUME NEW e \in Entry, NEW u \in Int, NEW last \in Int, ConcealTicks \in Nat,
         Timed(e, u, last)
  PROVE  Shows(e.ghost, u, last)
BY DEF Entry, Timed, Shows

(* The last snapshot of a round may come one tick after the one before it:   *)
(* the revelation may then end a tick too soon, but the delay has begun anew. *)
LEMMA LastPassShows ==
  ASSUME RevealTicks \in Nat, started \in Nat, ConcealTicks \in Nat, ConcealTicks > 1,
         NEW e \in Entry, NEW u \in Int, NEW v \in Int,
         NEW last \in Nat, Agrees(e, u, v, last, last),
         NEW e1, NEW v1 \in Int, WasObserved(e, v, e1, v1, last + 1),
         NEW immersed \in BOOLEAN, NEW discovered \in BOOLEAN,
         NEW n, n = Passed(e1, 1, immersed, discovered, last + 1)
  PROVE  /\ n \in Entry
         /\ Shows(n.ghost, UnmetAfter(u, immersed, discovered, v1, last + 1), last + 1)
<1> DEFINE met  == immersed /\ ~discovered /\ ~(n.reveal > 0)
           rule == MeetsRule(immersed, discovered, v1, last + 1)
<1>1. /\ e1 \in Entry /\ Timed(e1, u, last)
      /\ RevealObserved(e.reveal, v, e1.reveal, v1, last + 1)
      /\ e.reveal \in Int /\ e1.reveal \in Int
  <2>1. /\ e1 \in Entry
        /\ e1.conceal = e.conceal /\ e1.hidden = e.hidden /\ e1.ghost = e.ghost
        /\ RevealObserved(e.reveal, v, e1.reveal, v1, last + 1)
    BY ObservedEntry
  <2>2. e.reveal \in Int /\ e1.reveal \in Int
    BY <2>1 DEF Entry
  <2> QED
    BY <2>1, <2>2 DEF Agrees, Timed
<1>2. u <= last /\ RevealAgrees(e.reveal, u, v, last, last)
  BY DEF Agrees, Timed
<1>3. /\ n \in Entry /\ n.reveal = Greater(0, e1.reveal - 1)
      /\ met => Timed(n, u, last + 1)
      /\ ~met => Timed(n, last + 1, last + 1)
  BY <1>1, DelayAgrees
<1>4. v # NoTick /\ v <= last =>
        SnapshotBefore(v) \in Int /\ v - 2 <= SnapshotBefore(v) /\ SnapshotBefore(v) <= v - 1
  BY Parity DEF SnapshotBefore
<1>0. n.reveal > 0 <=> e1.reveal > 1
  BY <1>1, <1>3 DEF Greater
<1>5. CASE rule <=> met
  BY <1>3, <1>5, TimedShows DEF UnmetAfter
<1>6. CASE met /\ ~rule
  <2>1. v1 # NoTick /\ last + 1 - v1 < RevealTicks - 1 /\ e1.reveal <= 1
    <3>1. immersed /\ ~discovered /\ ~(e1.reveal > 1)
      BY <1>0, <1>6
    <3>2. ~(v1 = NoTick \/ last + 1 - v1 >= RevealTicks - 1)
      BY <1>6, <3>1 DEF MeetsRule
    <3> QED
      BY <1>1, <3>1, <3>2
  <2>2. v # NoTick /\ v <= last /\ v1 = v /\ e1.reveal = e.reveal
    BY <1>1, <1>2, <2>1 DEF RevealObserved, RevealAgrees, Greater
  <2>3. u = last
    BY <1>1, <1>2, <1>4, <2>1, <2>2 DEF RevealAgrees, Greater
  <2>4. Timed(n, last, last + 1)
    BY <1>3, <1>6, <2>3
  <2>5. n.ghost = last + 1
    BY <1>3, <2>4 DEF Timed, Entry
  <2>6. UnmetAfter(u, immersed, discovered, v1, last + 1) = last + 1
    BY <1>6 DEF UnmetAfter
  <2> QED
    BY <1>3, <2>5, <2>6 DEF Shows
<1>7. CASE ~met /\ rule
  <2>1. e1.reveal > 1 /\ (v1 = NoTick \/ last + 1 - v1 >= RevealTicks - 1)
    <3>1. immersed /\ ~discovered /\ (v1 = NoTick \/ last + 1 - v1 >= RevealTicks - 1)
      BY <1>7 DEF MeetsRule
    <3> QED
      BY <1>0, <1>7, <3>1
  <2>2. v # NoTick /\ v <= last /\ v1 = v /\ e1.reveal = e.reveal
    BY <1>1, <1>2, <1>4, <2>1 DEF RevealObserved, RevealAgrees, Greater, NoTick
  <2> QED
    BY <1>1, <1>2, <1>4, <2>1, <2>2 DEF RevealAgrees, Greater
<1> QED
  BY <1>3, <1>5, <1>6, <1>7

-----------------------------------------------------------------------------
(* An entry stays an entry as time passes.                                 *)
LEMMA PassedType ==
  ASSUME ConcealTicks \in Nat, NEW e \in Entry, NEW dt \in Int, NEW now \in Int,
         NEW immersed \in BOOLEAN, NEW discovered \in BOOLEAN
  PROVE  Passed(e, dt, immersed, discovered, now) \in Entry
<1> DEFINE left == Greater(0, e.reveal - dt)
           exposed == ~immersed \/ left > 0 \/ discovered
           delay == IF exposed THEN ConcealTicks ELSE e.conceal - dt
           hidden == ~exposed /\ (e.hidden \/ (delay <= 0 /\ e.ghost # NoPlace))
           ghost == IF hidden THEN e.ghost ELSE now
<1>1. left \in Int /\ delay \in Int /\ hidden \in BOOLEAN /\ ghost \in Int
  BY DEF Greater, Entry
<1>2. Passed(e, dt, immersed, discovered, now)
        = [conceal |-> delay, reveal |-> left, hidden |-> hidden, ghost |-> ghost]
  BY DEF Passed, Delay
<1> HIDE DEF left, exposed, delay, hidden, ghost
<1> QED
  BY <1>1, <1>2 DEF Entry

\* What the events of a tick do to the entries and to the last events.
LEMMA TickObserves ==
  ASSUME RevealTicks \in Nat, StealthTypes, NEW given \in SUBSET simulated,
         eventAt' = [p \in Subjects |-> IF p \in given THEN tickCount + 1 ELSE eventAt[p]]
  PROVE  /\ eventAt' \in [Subjects -> Int]
         /\ Observed(given) \in [Subjects -> Entry]
         /\ \A q \in Subjects :
              WasObserved(entries[q], eventAt[q], Observed(given)[q], eventAt'[q], tickCount + 1)
<1>1. eventAt' \in [Subjects -> Int]
  BY DEF StealthTypes
<1>2. ASSUME NEW q \in Subjects
      PROVE  /\ WasObserved(entries[q], eventAt[q], Observed(given)[q], eventAt'[q], tickCount + 1)
             /\ Observed(given)[q] \in Entry
  <2>1. WasObserved(entries[q], eventAt[q], Observed(given)[q], eventAt'[q], tickCount + 1)
    BY <1>2 DEF WasObserved, Observed
  <2>2. entries[q] \in Entry /\ eventAt[q] \in Int /\ eventAt'[q] \in Int /\ tickCount + 1 \in Int
    BY <1>1, <1>2 DEF StealthTypes
  <2> QED
    BY <2>1, <2>2, ObservedEntry
<1> QED
  BY <1>1, <1>2 DEF Observed

\* What a snapshot does to one person it tells of.
LEMMA SnapshotOfOne ==
  ASSUME StealthTypes, NEW observed \in [Subjects -> Entry],
         NEW immersed, NEW near, NEW dead, Snapshot(observed, immersed, near, dead),
         NEW q \in simulated
  PROVE  /\ entries'[q] = Passed(observed[q], Elapsed, q \in immersed,
                                Discovered(q, near, dead), tickCount + 1)
         /\ shown'[q] = entries'[q].ghost
         /\ unmetAt'[q] = IF stealthTick = NoTick THEN tickCount + 1
                          ELSE UnmetAfter(unmetAt[q], q \in immersed,
                                 Discovered(q, near, dead), eventAt'[q], tickCount + 1)
<1>1. q \in Subjects
  BY DEF StealthTypes
<1> QED
  BY <1>1 DEF Snapshot, UnmetAfter, MeetsRule

(* A snapshot keeps the types.                                             *)
LEMMA SnapshotTypes ==
  ASSUME ConcealTicks \in Nat, StealthTypes, NEW observed \in [Subjects -> Entry],
         NEW immersed, NEW near, NEW dead, Snapshot(observed, immersed, near, dead)
  PROVE  /\ entries' \in [Subjects -> Entry] /\ shown' \in [Subjects -> Int]
         /\ unmetAt' \in [Subjects -> Int] /\ stealthTick' \in Int
<1>1. Elapsed \in Int /\ tickCount + 1 \in Int /\ SimTick + 1 \in Int
  BY DEF Elapsed, Greater, SimTick, StealthTypes
<1>2. \A q \in Subjects : Passed(observed[q], Elapsed, q \in immersed,
                                 Discovered(q, near, dead), tickCount + 1) \in Entry
  <2> TAKE q \in Subjects
  <2>1. observed[q] \in Entry /\ (q \in immersed) \in BOOLEAN
        /\ Discovered(q, near, dead) \in BOOLEAN
    BY DEF Discovered
  <2> QED
    BY <1>1, <2>1, PassedType
<1>3. entries' \in [Subjects -> Entry]
  BY <1>2 DEF Snapshot
<1>4. shown' \in [Subjects -> Int]
  <2>1. \A e \in Entry : e.ghost \in Int
    BY DEF Entry
  <2> QED
    BY <1>2, <2>1 DEF Snapshot, StealthTypes
<1>5. unmetAt' \in [Subjects -> Int]
  BY <1>1 DEF Snapshot, StealthTypes
<1> QED
  BY <1>1, <1>3, <1>4, <1>5 DEF Snapshot

-----------------------------------------------------------------------------
\* What is assumed of the delays: the code's are 2, 31 and 13.
CodeDelays == SnapshotTicks = 2 /\ RevealTicks % 2 = 1 /\ ConcealTicks > 1

(* The first pass over anybody: seen, with the whole delay before it.        *)
LEMMA FreshPass ==
  ASSUME ConcealTicks \in Nat \ {0},
         NEW immersed, NEW discovered, NEW now,
         NEW n, n = Passed(Fresh, 0, immersed, discovered, now)
  PROVE  n.conceal = ConcealTicks /\ n.reveal = 0 /\ ~n.hidden /\ n.ghost = now
<1> DEFINE left == Greater(0, Fresh.reveal - 0)
           exposed == ~immersed \/ left > 0 \/ discovered
           delay == IF exposed THEN ConcealTicks ELSE Fresh.conceal - 0
           hidden == ~exposed /\ (Fresh.hidden \/ (delay <= 0 /\ Fresh.ghost # NoPlace))
           ghost == IF hidden THEN Fresh.ghost ELSE now
<1>1. n = [conceal |-> delay, reveal |-> left, hidden |-> hidden, ghost |-> ghost]
  BY DEF Passed, Delay
<1>2. left = 0 /\ delay = ConcealTicks /\ ~hidden
  BY DEF Fresh, Greater
<1>3. ghost = now
  BY <1>2
<1> HIDE DEF left, delay, hidden, ghost
<1> QED
  BY <1>1, <1>2, <1>3

(* The delays are natural numbers.                                         *)
LEMMA ConstantTypes == RevealTicks \in Nat /\ ConcealTicks \in Nat \ {0}
BY StealthAssumption DEF StealthAssumption

(* A tick of a round before its first snapshot, or with it.                  *)
LEMMA FirstTicks ==
  ASSUME CodeDelays, StealthInv, Ticks, stealthTick = NoTick
  PROVE  StealthInv'
<1> USE ConstantTypes
<1>1. PICK given \in SUBSET simulated, finished \in BOOLEAN :
        /\ given = {} /\ ~finished
        /\ eventAt' = [p \in Subjects |-> IF p \in given THEN tickCount + 1 ELSE eventAt[p]]
        /\ phase' = phase
        /\ IF (tickCount + 1) % SnapshotTicks = 0
           THEN \E dead \in SUBSET simulated, immersed \in SUBSET simulated,
                   near \in SUBSET Rivals :
                  /\ dead \cap immersed = {}
                  /\ Snapshot(Observed(given), immersed, near, dead)
           ELSE /\ entries' = Observed(given)
                /\ UNCHANGED <<stealthTick, shown, unmetAt>>
  BY DEF Ticks
<1>2. /\ phase = "stepped" /\ tickCount' = tickCount + 1
      /\ simulated' = simulated /\ started' = started
  BY DEF Ticks
<1>3. /\ eventAt' \in [Subjects -> Int] /\ Observed(given) \in [Subjects -> Entry]
      /\ \A q \in simulated : eventAt'[q] = NoTick /\ Observed(given)[q] = Fresh
  <2>1. \A q \in simulated : Untold(q)
    BY <1>2 DEF StealthInv, EntriesAgree
  <2>2. StealthTypes
    BY DEF StealthInv
  <2>3. \A q \in simulated : eventAt'[q] = NoTick /\ Observed(given)[q] = Fresh
    BY <1>1, <2>1, <2>2 DEF Untold, Observed, StealthTypes
  <2> QED
    BY <1>1, <2>2, <2>3, TickObserves
<1>4. CASE (tickCount + 1) % 2 # 0
  <2>1. entries' = Observed(given) /\ UNCHANGED <<stealthTick, shown, unmetAt>>
    BY <1>1, <1>4 DEF CodeDelays
  <2>2. StealthTypes'
    BY <1>1, <1>2, <1>3, <2>1 DEF StealthInv, StealthTypes
  <2>3. EntriesAgree' /\ ShownByTheRule'
    BY <1>1, <1>2, <1>3, <2>1 DEF EntriesAgree, ShownByTheRule, Untold
  <2> QED
    BY <2>2, <2>3 DEF StealthInv
<1>5. CASE (tickCount + 1) % 2 = 0
  <2>1. PICK dead, immersed, near : Snapshot(Observed(given), immersed, near, dead)
    BY <1>1, <1>5 DEF CodeDelays
  <2>2. StealthTypes'
    <3>1. StealthTypes
      BY DEF StealthInv
    <3>2. /\ entries' \in [Subjects -> Entry] /\ shown' \in [Subjects -> Int]
          /\ unmetAt' \in [Subjects -> Int] /\ stealthTick' \in Int
      BY <1>3, <2>1, <3>1, SnapshotTypes
    <3> QED
      BY <1>1, <1>2, <1>3, <3>1, <3>2 DEF StealthTypes
  <2>3. /\ LastSnapshot' = tickCount + 1 /\ stealthTick' > 0
        /\ tickCount \in Nat /\ started \in Nat /\ started <= tickCount
    BY <1>2, <2>1 DEF Snapshot, LastSnapshot, SimTick, StealthInv, StealthTypes
  <2>4. ASSUME NEW q \in simulated
        PROVE  /\ Agrees(entries[q], unmetAt[q], eventAt[q], LastSnapshot, tickCount)'
               /\ (shown[q] = entries[q].ghost)'
               /\ shown'[q] = tickCount + 1 /\ unmetAt'[q] = tickCount + 1
    <3> DEFINE d == Discovered(q, near, dead)
               i == q \in immersed
    <3>1. /\ entries'[q] = Passed(Fresh, 0, i, d, tickCount + 1)
          /\ shown'[q] = entries'[q].ghost /\ unmetAt'[q] = tickCount + 1
      <4>1. Elapsed = 0
        BY DEF Elapsed
      <4>2. StealthTypes
        BY DEF StealthInv
      <4> QED
        BY <1>3, <2>1, <2>4, <4>1, <4>2, SnapshotOfOne
    <3>2. /\ entries'[q].conceal = ConcealTicks /\ entries'[q].reveal = 0
          /\ ~entries'[q].hidden /\ entries'[q].ghost = tickCount + 1
      BY <3>1, FreshPass
    <3>3. Timed(entries[q], unmetAt[q], LastSnapshot)'
      BY <1>2, <2>3, <3>1, <3>2 DEF Timed
    <3>4. RevealAgrees(entries[q].reveal, unmetAt[q], eventAt[q], LastSnapshot, tickCount)'
      BY <1>3, <3>2 DEF RevealAgrees
    <3> QED
      BY <3>1, <3>2, <3>3, <3>4 DEF Agrees
  <2>5. EntriesAgree'
    BY <1>1, <1>2, <1>5, <2>3, <2>4 DEF EntriesAgree, NoTick
  <2>6. ShownByTheRule'
    BY <1>2, <2>3, <2>4 DEF ShownByTheRule
  <2> QED
    BY <2>2, <2>5, <2>6 DEF StealthInv
<1> QED
  BY <1>4, <1>5

(* A later tick of a round that does not end.                                *)
LEMMA LaterTicks ==
  ASSUME CodeDelays, StealthInv, Ticks, stealthTick # NoTick
  PROVE  StealthInv'
<1> USE ConstantTypes
<1>1. PICK given \in SUBSET simulated, finished \in BOOLEAN :
        /\ eventAt' = [p \in Subjects |-> IF p \in given THEN tickCount + 1 ELSE eventAt[p]]
        /\ phase' = IF finished THEN "idle" ELSE phase
        /\ IF finished \/ (tickCount + 1) % SnapshotTicks = 0
           THEN \E dead \in SUBSET simulated, immersed \in SUBSET simulated,
                   near \in SUBSET Rivals :
                  /\ dead \cap immersed = {}
                  /\ Snapshot(Observed(given), immersed, near, dead)
           ELSE /\ entries' = Observed(given)
                /\ UNCHANGED <<stealthTick, shown, unmetAt>>
  BY DEF Ticks
<1>2. /\ phase = "stepped" /\ tickCount' = tickCount + 1
      /\ simulated' = simulated /\ started' = started
  BY DEF Ticks
<1> DEFINE last == LastSnapshot
<1>3. /\ StealthTypes
      /\ 0 < stealthTick /\ last % 2 = 0 /\ last \in Nat /\ last = started + stealthTick
      /\ tickCount = last \/ tickCount = last + 1
      /\ \A q \in simulated :
           /\ Agrees(entries[q], unmetAt[q], eventAt[q], last, tickCount)
           /\ shown[q] = entries[q].ghost
           /\ entries[q] \in Entry /\ unmetAt[q] \in Int /\ eventAt[q] \in Int
  BY <1>2 DEF StealthInv, EntriesAgree, StealthTypes, LastSnapshot
<1>4. /\ eventAt' \in [Subjects -> Int] /\ Observed(given) \in [Subjects -> Entry]
      /\ \A q \in Subjects :
           WasObserved(entries[q], eventAt[q], Observed(given)[q], eventAt'[q], tickCount + 1)
  BY <1>1, <1>3, TickObserves
<1>5. ASSUME NEW immersed, NEW near, NEW dead, Snapshot(Observed(given), immersed, near, dead)
      PROVE  /\ StealthTypes' /\ LastSnapshot' = tickCount + 1 /\ stealthTick' > 0
             /\ Elapsed = tickCount + 1 - last
  <2>1. /\ entries' \in [Subjects -> Entry] /\ shown' \in [Subjects -> Int]
        /\ unmetAt' \in [Subjects -> Int] /\ stealthTick' \in Int
    BY <1>3, <1>4, <1>5, SnapshotTypes
  <2>2. StealthTypes'
    BY <1>1, <1>2, <1>3, <1>4, <2>1 DEF StealthTypes
  <2>3. LastSnapshot' = tickCount + 1 /\ stealthTick' > 0
    BY <1>2, <1>3, <1>5 DEF Snapshot, LastSnapshot, SimTick, StealthTypes
  <2>4. Elapsed = tickCount + 1 - last
    BY <1>3 DEF Elapsed, SimTick, Greater, StealthTypes
  <2> QED
    BY <2>2, <2>3, <2>4
<1>6. CASE ~finished /\ (tickCount + 1) % 2 # 0
  <2>1. entries' = Observed(given) /\ UNCHANGED <<phase, stealthTick, shown, unmetAt>>
    BY <1>1, <1>6 DEF CodeDelays
  <2>2. tickCount = last /\ LastSnapshot' = last
    <3>1. last % 2 = 0 => (last + 2) % 2 = 0
      BY <1>3, Parity
    <3> QED
      BY <1>2, <1>3, <1>6, <2>1, <3>1 DEF LastSnapshot
  <2>3. ASSUME NEW q \in simulated
        PROVE  /\ Agrees(entries[q], unmetAt[q], eventAt[q], LastSnapshot, tickCount)'
               /\ (shown[q] = entries[q].ghost)'
    <3>1. q \in Subjects /\ Timed(entries[q], unmetAt[q], last)
          /\ RevealAgrees(entries[q].reveal, unmetAt[q], eventAt[q], last, last)
      BY <1>3, <2>2 DEF StealthTypes, Agrees
    <3>2. /\ entries'[q] \in Entry /\ entries[q] \in Entry /\ eventAt'[q] \in Int
          /\ entries'[q].conceal = entries[q].conceal
          /\ entries'[q].hidden = entries[q].hidden /\ entries'[q].ghost = entries[q].ghost
          /\ RevealObserved(entries[q].reveal, eventAt[q], entries'[q].reveal, eventAt'[q], last + 1)
      BY <1>3, <1>4, <2>1, <2>2, <3>1, ObservedEntry
    <3>3. Timed(entries[q], unmetAt[q], LastSnapshot)'
      BY <1>2, <2>1, <2>2, <3>1, <3>2 DEF Timed
    <3>4. entries[q].reveal <= RevealTicks /\ entries[q].reveal \in Int
      <4>1. entries[q].reveal \in Int /\ eventAt[q] \in Int
        BY <1>3, <3>2 DEF Entry
      <4>2. eventAt[q] <= last => SnapshotBefore(eventAt[q]) <= last /\ SnapshotBefore(eventAt[q]) \in Int
        BY <1>3, <4>1, Parity DEF SnapshotBefore
      <4> QED
        BY <1>3, <3>1, <4>1, <4>2 DEF RevealAgrees, Greater
    <3>5. RevealAgrees(entries'[q].reveal, unmetAt[q], eventAt'[q], last, last + 1)
      <4>1. CASE entries'[q].reveal = entries[q].reveal /\ eventAt'[q] = eventAt[q]
        BY <1>3, <3>1, <4>1 DEF RevealAgrees
      <4>2. CASE entries'[q].reveal = Greater(entries[q].reveal, RevealTicks) /\ eventAt'[q] = last + 1
        <5>1. entries'[q].reveal = RevealTicks
          BY <3>4, <4>2 DEF Greater
        <5> QED
          BY <1>3, <4>2, <5>1 DEF RevealAgrees, NoTick
      <4> QED
        BY <3>2, <4>1, <4>2 DEF RevealObserved
    <3>6. tickCount' = last + 1 /\ unmetAt'[q] = unmetAt[q]
      BY <1>2, <2>1, <2>2
    <3>7. RevealAgrees(entries[q].reveal, unmetAt[q], eventAt[q], LastSnapshot, tickCount)'
      BY <2>2, <3>5, <3>6 DEF RevealAgrees
    <3> QED
      BY <1>3, <2>1, <3>2, <3>3, <3>7 DEF Agrees
  <2>4. StealthTypes'
    BY <1>1, <1>2, <1>3, <1>4, <2>1 DEF StealthTypes
  <2>5. EntriesAgree'
    BY <1>2, <1>3, <2>1, <2>2, <2>3 DEF EntriesAgree
  <2>6. ShownByTheRule'
    BY <1>2, <2>1, <2>2 DEF ShownByTheRule, StealthInv
  <2> QED
    BY <2>4, <2>5, <2>6 DEF StealthInv
<1>7. CASE (tickCount + 1) % 2 = 0
  <2>1. PICK dead, immersed, near : Snapshot(Observed(given), immersed, near, dead)
    BY <1>1, <1>7 DEF CodeDelays
  <2>2. tickCount = last + 1
    BY <1>3, <1>7, Parity
  <2>3. ASSUME NEW q \in simulated
        PROVE  /\ Agrees(entries[q], unmetAt[q], eventAt[q], LastSnapshot, tickCount)'
               /\ (shown[q] = entries[q].ghost)'
               /\ Shows(shown'[q], unmetAt'[q], LastSnapshot')
    <3> DEFINE d == Discovered(q, near, dead)
               i == q \in immersed
               n == Passed(Observed(given)[q], 2, i, d, last + 2)
               u == UnmetAfter(unmetAt[q], i, d, eventAt'[q], last + 2)
    <3>1. /\ entries'[q] = n /\ shown'[q] = entries'[q].ghost /\ unmetAt'[q] = u
      BY <1>3, <1>4, <1>5, <2>1, <2>2, SnapshotOfOne
    <3>2. n \in Entry /\ Agrees(n, u, eventAt'[q], last + 2, last + 2)
      <4>1. q \in Subjects /\ i \in BOOLEAN /\ d \in BOOLEAN
        BY <1>3 DEF StealthTypes, Discovered
      <4>2. WasObserved(entries[q], eventAt[q], Observed(given)[q], eventAt'[q], last + 2)
        <5>1. tickCount + 1 = last + 2
          BY <1>3, <2>2
        <5>2. WasObserved(entries[q], eventAt[q], Observed(given)[q], eventAt'[q], tickCount + 1)
          BY <1>4, <4>1
        <5> HIDE DEF last
        <5> QED
          BY <5>1, <5>2
      <4>3. Agrees(entries[q], unmetAt[q], eventAt[q], last, last + 1)
        BY <1>3, <2>2
      <4>4. eventAt'[q] \in Int /\ started \in Nat
        BY <1>3, <1>4, <4>1 DEF StealthTypes
      <4> HIDE DEF d, i, last
      <4> QED
        BY <1>3, <4>1, <4>2, <4>3, <4>4, PassAgrees DEF CodeDelays
    <3> HIDE DEF n, u
    <3>3. tickCount' = last + 2 /\ LastSnapshot' = last + 2 /\ started' = started
          /\ unmetAt'[q] \in Int /\ last + 2 \in Int
      <4>1. q \in Subjects
        BY <1>3 DEF StealthTypes
      <4> QED
        BY <1>2, <1>3, <1>5, <2>1, <2>2, <4>1 DEF StealthTypes
    <3>4. Agrees(entries[q], unmetAt[q], eventAt[q], LastSnapshot, tickCount)'
      BY <3>1, <3>2, <3>3 DEF Agrees, Timed, RevealAgrees
    <3>5. Shows(shown'[q], unmetAt'[q], LastSnapshot')
      <4>1. Timed(n, u, last + 2)
        BY <3>2 DEF Agrees
      <4> QED
        BY <3>1, <3>2, <3>3, <4>1, TimedShows
    <3> QED
      BY <3>1, <3>4, <3>5
  <2>4. StealthTypes' /\ LastSnapshot' = tickCount + 1 /\ stealthTick' > 0
    BY <1>5, <2>1
  <2>5. EntriesAgree'
    <3>1. LastSnapshot' % 2 = 0 /\ tickCount' = LastSnapshot'
      BY <1>2, <1>7, <2>4
    <3>2. phase' = "idle" \/ phase' = "stepped"
      BY <1>1, <1>2
    <3> QED
      BY <1>2, <2>3, <2>4, <3>1, <3>2 DEF EntriesAgree, NoTick
  <2>6. ShownByTheRule'
    BY <1>2, <2>3 DEF ShownByTheRule, Shows
  <2> QED
    BY <2>4, <2>5, <2>6 DEF StealthInv
<1>8. CASE finished /\ (tickCount + 1) % 2 # 0
  <2>1. PICK dead, immersed, near : Snapshot(Observed(given), immersed, near, dead)
    BY <1>1, <1>8
  <2>2. tickCount = last
    <3>1. last % 2 = 0 => (last + 2) % 2 = 0
      BY <1>3, Parity
    <3> QED
      BY <1>3, <1>8, <3>1
  <2>3. ASSUME NEW q \in simulated
        PROVE  Shows(shown'[q], unmetAt'[q], LastSnapshot')
    <3> DEFINE d == Discovered(q, near, dead)
               i == q \in immersed
               n == Passed(Observed(given)[q], 1, i, d, last + 1)
               u == UnmetAfter(unmetAt[q], i, d, eventAt'[q], last + 1)
    <3>1. /\ entries'[q] = n /\ shown'[q] = entries'[q].ghost /\ unmetAt'[q] = u
      BY <1>3, <1>4, <1>5, <2>1, <2>2, SnapshotOfOne
    <3>2. Shows(n.ghost, u, last + 1)
      <4>1. q \in Subjects /\ i \in BOOLEAN /\ d \in BOOLEAN
        BY <1>3 DEF StealthTypes, Discovered
      <4>2. WasObserved(entries[q], eventAt[q], Observed(given)[q], eventAt'[q], last + 1)
        BY <1>4, <2>2, <4>1
      <4>3. Agrees(entries[q], unmetAt[q], eventAt[q], last, last)
        BY <1>3, <2>2
      <4>4. eventAt'[q] \in Int /\ started \in Nat
        BY <1>3, <1>4, <4>1 DEF StealthTypes
      <4> HIDE DEF d, i, last
      <4> QED
        BY <1>3, <4>1, <4>2, <4>3, <4>4, LastPassShows DEF CodeDelays
    <3> QED
      BY <1>5, <2>1, <2>2, <3>1, <3>2
  <2>4. StealthTypes' /\ LastSnapshot' = tickCount + 1 /\ stealthTick' > 0
    BY <1>5, <2>1
  <2>5. EntriesAgree'
    BY <1>1, <1>8 DEF EntriesAgree
  <2>6. ShownByTheRule'
    BY <1>2, <2>3 DEF ShownByTheRule, Shows
  <2> QED
    BY <2>4, <2>5, <2>6 DEF StealthInv
<1> QED
  BY <1>6, <1>7, <1>8

(* The steps that send nothing.                                              *)
LEMMA OtherSteps ==
  ASSUME StealthInv, \/ Waits \/ RoundIsMade \/ CountdownBegins
                     \/ \E p \in Subjects : SubjectLeaves(p)
                     \/ UNCHANGED stealthVars
  PROVE  StealthInv'
<1> USE ConstantTypes DEF StealthInv
<1>1. Fresh \in Entry
  BY DEF Fresh, Entry, NoPlace
<1>2. CASE Waits
  <2>1. StealthTypes'
    BY <1>2 DEF Waits, StealthTypes
  <2>2. EntriesAgree'
    BY <1>2 DEF Waits, EntriesAgree, Untold
  <2>3. ShownByTheRule'
    BY <1>2 DEF Waits, ShownByTheRule, LastSnapshot
  <2> QED
    BY <2>1, <2>2, <2>3
<1>3. CASE RoundIsMade
  <2>1. StealthTypes'
    BY <1>1, <1>3 DEF RoundIsMade, ForgetRound, StealthTypes, NoTick
  <2>2. EntriesAgree'
    BY <1>3, <2>1 DEF RoundIsMade, ForgetRound, EntriesAgree, Untold, StealthTypes
  <2>3. ShownByTheRule'
    BY <1>3 DEF RoundIsMade, ForgetRound, ShownByTheRule
  <2> QED
    BY <2>1, <2>2, <2>3
<1>4. CASE CountdownBegins
  <2>1. StealthTypes'
    BY <1>4 DEF CountdownBegins, StealthTypes
  <2>2. EntriesAgree'
    BY <1>4 DEF CountdownBegins, EntriesAgree, Untold
  <2>3. ShownByTheRule'
    BY <1>4 DEF CountdownBegins, EntriesAgree, ShownByTheRule
  <2> QED
    BY <2>1, <2>2, <2>3
<1>5. CASE \E p \in Subjects : SubjectLeaves(p)
  <2>1. PICK p \in Subjects : SubjectLeaves(p)
    BY <1>5
  <2>2. StealthTypes'
    BY <1>1, <2>1 DEF SubjectLeaves, StealthTypes
  <2>3. \A q \in simulated' : q \in simulated /\ q # p
    BY <2>1 DEF SubjectLeaves
  <2>4. \A q \in simulated' : entries'[q] = entries[q]
    BY <2>1, <2>3 DEF SubjectLeaves, StealthTypes
  <2>5. UNCHANGED <<tickCount, phase, started, stealthTick, shown, eventAt, unmetAt>>
    BY <2>1 DEF SubjectLeaves
  <2>6. EntriesAgree'
    <3>1. \A q \in simulated' : Untold(q) => Untold(q)'
      BY <2>4, <2>5 DEF Untold
    <3>2. \A q \in simulated' :
            Agrees(entries[q], unmetAt[q], eventAt[q], LastSnapshot, tickCount)
              => Agrees(entries[q], unmetAt[q], eventAt[q], LastSnapshot, tickCount)'
      BY <2>4, <2>5 DEF Agrees, Timed, RevealAgrees, LastSnapshot
    <3>3. LastSnapshot' = LastSnapshot
      BY <2>5 DEF LastSnapshot
    <3> QED
      BY <2>3, <2>4, <2>5, <3>1, <3>2, <3>3 DEF EntriesAgree
  <2>7. ShownByTheRule'
    BY <2>3, <2>5 DEF ShownByTheRule, LastSnapshot
  <2> QED
    BY <2>2, <2>6, <2>7
<1>6. CASE UNCHANGED stealthVars
  <2>1. StealthTypes'
    BY <1>6 DEF stealthVars, snapVars, StealthTypes
  <2>2. EntriesAgree'
    BY <1>6 DEF stealthVars, snapVars, EntriesAgree, Untold, Agrees, Timed, RevealAgrees,
                LastSnapshot
  <2>3. ShownByTheRule'
    BY <1>6 DEF stealthVars, snapVars, ShownByTheRule, LastSnapshot
  <2> QED
    BY <2>1, <2>2, <2>3
<1> QED
  BY <1>2, <1>3, <1>4, <1>5, <1>6

(* With delays like the code's (snapshots two ticks apart, an odd revelation *)
(* that the snapshots cannot hit exactly, a delay of more than a tick), the  *)
(* place adversaries are shown is the rule's in every round, however many    *)
(* people play and whatever gives them away.                                 *)
THEOREM ShownHolds ==
  ASSUME CodeDelays
  PROVE  StealthSpec => []ShownByTheRule
<1>1. StealthInit => StealthInv
  <2> SUFFICES ASSUME StealthInit PROVE StealthInv
    OBVIOUS
  <2>1. StealthTypes
    BY ConstantTypes DEF StealthInit, StealthTypes, Entry, Fresh, NoPlace, NoTick
  <2>2. EntriesAgree /\ ShownByTheRule
    BY DEF StealthInit, EntriesAgree, ShownByTheRule
  <2> QED
    BY <2>1, <2>2 DEF StealthInv
<1>2. StealthInv /\ [StealthNext]_stealthVars => StealthInv'
  <2> SUFFICES ASSUME StealthInv, [StealthNext]_stealthVars PROVE StealthInv'
    OBVIOUS
  <2>1. CASE Ticks
    BY <2>1, FirstTicks, LaterTicks
  <2>2. CASE \/ Waits \/ RoundIsMade \/ CountdownBegins
             \/ \E p \in Subjects : SubjectLeaves(p)
             \/ UNCHANGED stealthVars
    BY <2>2, OtherSteps
  <2> QED
    BY <2>1, <2>2 DEF StealthNext
<1>3. StealthInv => ShownByTheRule
  BY DEF StealthInv
<1> QED
  BY <1>1, <1>2, <1>3, PTL DEF StealthSpec

-----------------------------------------------------------------------------
(*                               The Mutirao                                 *)

Painted == [number : Nat, at : Nat, square : Squares]
Activation == [at : Nat, pair : Crew \X Crew, squares : SUBSET Squares]

MutiraoTypes ==
  /\ moment \in Nat /\ converted \in Nat
  /\ recent \in [Crew -> SUBSET Painted] /\ conversions \in [Crew -> SUBSET Painted]
  /\ spent \in [Squares -> Nat \cup {NoMoment}]
  /\ resting \in [Crew -> Nat]
  /\ activations \in SUBSET Activation
  /\ \A act \in activations : act.at < moment

(* What the tracker keeps of the window is what was converted in it.       *)
WindowsAgree ==
  \A p \in Crew : /\ InWindow(recent[p]) = InWindow(conversions[p])
                  /\ \A x \in conversions[p] : x.at <= moment

(* A square that paid is remembered at the tick it last did, as long as    *)
(* that can matter.                                                        *)
SpentAgrees ==
  /\ \A act \in activations, c \in Squares :
       c \in act.squares /\ moment - act.at < SquareReuse =>
         spent[c] # NoMoment /\ act.at <= spent[c]
  /\ \A c \in Squares :
       spent[c] # NoMoment =>
         \E act \in activations : act.at = spent[c] /\ c \in act.squares

(* Whoever took part rests for what is left of the cooldown.               *)
RestingAgrees ==
  \A act \in activations, i \in 1..2 :
    PairCooldown - (moment - 1 - act.at) <= resting[act.pair[i]]

(* ActivationsAreEarned, part by part.                                     *)
Worn(at) == UNION {other.squares : other \in {o \in {a \in activations : a.at < at} :
                                                at - o.at < SquareReuse}}
Own(p, at) == {x \in conversions[p] : x.at \in (at - PairWindow)..at /\ x.square \notin Worn(at)}
Rests(act, p) ==
  \A other \in activations \ {act} :
    p \in {other.pair[1], other.pair[2]} => (act.at - other.at) \notin 0..(PairCooldown - 1)
Earned(act) ==
  /\ CrewSide[act.pair[1]] = CrewSide[act.pair[2]]
  /\ SquaresIn(Own(act.pair[1], act.at)) \cap SquaresIn(Own(act.pair[2], act.at)) = {}
  /\ \A i \in 1..2 : AreaIn(Own(act.pair[i], act.at)) >= MinArea /\ Rests(act, act.pair[i])

MutiraoInv ==
  MutiraoTypes /\ WindowsAgree /\ SpentAgrees /\ RestingAgrees /\ ActivationsAreEarned

(* At the start nothing was converted.                                     *)
LEMMA MutiraoStarts == MutiraoInit => MutiraoInv
<1>. SUFFICES ASSUME MutiraoInit PROVE MutiraoInv
  OBVIOUS
<1>1. MutiraoTypes
  BY DEF MutiraoInit, MutiraoTypes, NoMoment
<1>2. WindowsAgree
  BY DEF MutiraoInit, WindowsAgree
<1>3. SpentAgrees /\ RestingAgrees
  BY DEF MutiraoInit, SpentAgrees, RestingAgrees
<1>4. ActivationsAreEarned
  BY DEF MutiraoInit, ActivationsAreEarned
<1>. QED  BY <1>1, <1>2, <1>3, <1>4 DEF MutiraoInv

-----------------------------------------------------------------------------
\* a choice of pairs the tracker may come to
Chosen(S, ready, near) ==
  \A pair \in S :
    /\ pair[1] \in ready /\ pair[2] \in ready /\ pair \in near /\ Matches(pair)
    /\ \A other \in S \ {pair} : {pair[1], pair[2]} \cap {other[1], other[2]} = {}

\* upTo of Paired, as a function
May(pair, chosen, ready, near) ==
  /\ {pair[1], pair[2]} \subseteq ready /\ pair \in near /\ Matches(pair)
  /\ \A other \in chosen : {pair[1], pair[2]} \cap {other[1], other[2]} = {}
ChoosesAs(g, ready, near) ==
  g = [k \in 0..Cardinality(Pairs) |->
         IF k = 0 THEN {}
         ELSE g[k - 1] \cup {pair \in {PairAt[k]} : May(pair, g[k - 1], ready, near)}]

(* The pairs are finitely many.                                            *)
LEMMA PairsAreFinite == Cardinality(Pairs) \in Nat
<1>1. IsFiniteSet(Crew \X Crew)
  BY CrewAssumption, FS_Product
<1>2. Pairs \in SUBSET (Crew \X Crew)
  BY DEF Pairs
<1>. QED  BY <1>1, <1>2, FS_Subset, FS_CardinalityType


(* The loops choose pairs that match, and each person once.                *)
LEMMA PairedAreChosen ==
  ASSUME NEW ready, NEW near
  PROVE  Chosen(Paired(ready, near), ready, near)
<1>. DEFINE n == Cardinality(Pairs)
            More(S, k) == S \cup {pair \in {PairAt[k]} : May(pair, S, ready, near)}
            f == CHOOSE g : ChoosesAs(g, ready, near)
            Runs(g, k) == g = [j \in 0..k |-> IF j = 0 THEN {} ELSE More(g[j - 1], j)]
            Some == {k \in 0..n : \E g : Runs(g, k)}
            Good == {k \in 0..n : Chosen(f[k], ready, near)}
<1>1. n \in Nat
  BY PairsAreFinite
<1>2. Paired(ready, near) = f[n]
  BY Zenon DEF Paired, ChoosesAs, May
<1>3. ASSUME NEW S, NEW k, Chosen(S, ready, near) PROVE Chosen(More(S, k), ready, near)
  <2>. DEFINE new == PairAt[k]
  <2>1. CASE May(new, S, ready, near)
    <3>1. More(S, k) = S \cup {new}
      BY <2>1
    <3>. HIDE DEF new
    <3>. QED  BY <1>3, <2>1, <3>1 DEF Chosen, May
  <2>2. CASE ~ May(new, S, ready, near)
    <3>1. More(S, k) = S
      BY <2>2
    <3>. QED  BY <1>3, <3>1
  <2>. QED  BY <2>1, <2>2
<1>. HIDE DEF More
<1>4. 0 \in Some
  <2>1. Runs([j \in 0..0 |-> {}], 0)
    <3>1. \A j \in 0..0 : j = 0
      OBVIOUS
    <3>. QED  BY <3>1
  <2>2. 0 \in 0..n
    BY <1>1
  <2>. HIDE DEF Runs
  <2>. QED  BY <2>1, <2>2
<1>5. ASSUME NEW k \in 0..(n - 1), k \in Some PROVE k + 1 \in Some
  <2>1. PICK g : Runs(g, k)
    BY <1>5
  <2>. DEFINE e == [j \in 0..(k + 1) |-> IF j = k + 1 THEN More(g[k], k + 1) ELSE g[j]]
  <2>2. ASSUME NEW j \in 0..(k + 1)
        PROVE  e[j] = IF j = 0 THEN {} ELSE More(e[j - 1], j)
    <3>1. CASE j = k + 1
      <4>1. j # 0 /\ j - 1 = k /\ k \in 0..(k + 1) /\ k # k + 1
        BY <1>1, <3>1
      <4>2. e[j] = More(g[k], k + 1) /\ e[k] = g[k]
        BY <3>1, <4>1
      <4>. HIDE DEF e
      <4>. QED  BY <3>1, <4>1, <4>2
    <3>2. CASE j # k + 1
      <4>1. j \in 0..k /\ (j # 0 => j - 1 \in 0..(k + 1) /\ j - 1 # k + 1)
        BY <1>1, <3>2
      <4>2. e[j] = g[j] /\ (j # 0 => e[j - 1] = g[j - 1])
        BY <3>2, <4>1
      <4>3. g[j] = IF j = 0 THEN {} ELSE More(g[j - 1], j)
        BY <2>1, <4>1
      <4>. HIDE DEF e
      <4>. QED  BY <4>2, <4>3
    <3>. QED  BY <3>1, <3>2
  <2>3. Runs(e, k + 1)
    <3>1. e = [j \in 0..(k + 1) |-> e[j]]
      OBVIOUS
    <3>. HIDE DEF e
    <3>. QED  BY <2>2, <3>1
  <2>4. k + 1 \in 0..n
    BY <1>1
  <2>. HIDE DEF e, Runs
  <2>. QED  BY <2>3, <2>4
<1>6. \E g : Runs(g, n)
  <2>. HIDE DEF Some
  <2>1. \A k \in 0..(n - 1) : k \in Some => k + 1 \in Some
    BY <1>5
  <2>2. \A k \in 0..n : k \in Some
    BY <1>1, <1>4, <2>1, NumberInduction
  <2>3. n \in 0..n
    BY <1>1
  <2>. HIDE DEF Runs
  <2>. QED  BY <2>2, <2>3 DEF Some
<1>7. ChoosesAs(f, ready, near)
  <2>1. \E g : ChoosesAs(g, ready, near)
    BY <1>6 DEF ChoosesAs, More
  <2>. QED  BY <2>1
<1>. HIDE DEF f
<1>8. \A k \in 0..n : f[k] = IF k = 0 THEN {} ELSE More(f[k - 1], k)
  BY <1>7 DEF ChoosesAs, More
<1>9. 0 \in Good
  <2>1. 0 \in 0..n
    BY <1>1
  <2>2. f[0] = {}
    BY <1>8, <2>1
  <2>. QED  BY <2>1, <2>2 DEF Chosen
<1>10. ASSUME NEW k \in 0..(n - 1), k \in Good PROVE k + 1 \in Good
  <2>1. k + 1 \in 0..n /\ k + 1 # 0 /\ k + 1 - 1 = k
    BY <1>1
  <2>2. f[k + 1] = More(f[k], k + 1)
    BY <1>8, <2>1
  <2>3. Chosen(f[k], ready, near)
    BY <1>10
  <2>4. Chosen(More(f[k], k + 1), ready, near)
    BY <1>3, <2>3
  <2>. QED  BY <2>1, <2>2, <2>4
<1>11. \A k \in 0..n : k \in Good
  <2>. HIDE DEF Good
  <2>1. \A k \in 0..(n - 1) : k \in Good => k + 1 \in Good
    BY <1>10
  <2>. QED  BY <1>1, <1>9, <2>1, NumberInduction
<1>12. n \in 0..n
  BY <1>1
<1>. QED  BY <1>2, <1>11, <1>12

-----------------------------------------------------------------------------
(* Who can pay, of whoever converted: the square is not worn.              *)
LEMMA FreeIsUnworn ==
  ASSUME MutiraoTypes, SpentAgrees, NEW c \in Squares
  PROVE  Free(c) <=> ~ \E act \in activations : moment - act.at < SquareReuse /\ c \in act.squares
<1>1. moment \in Nat /\ SquareReuse \in Nat /\ spent[c] \in Nat \cup {NoMoment}
  BY PairAssumption DEF MutiraoTypes
<1>2. \A act \in activations : act.at \in Nat
  BY DEF MutiraoTypes, Activation
<1>3. CASE Free(c)
  <2>. SUFFICES ASSUME NEW act \in activations, moment - act.at < SquareReuse, c \in act.squares
                PROVE  FALSE
    BY <1>3
  <2>1. spent[c] # NoMoment /\ act.at <= spent[c]
    BY DEF SpentAgrees
  <2>2. moment - spent[c] >= SquareReuse
    BY <1>3, <2>1 DEF Free
  <2>. QED  BY <1>1, <1>2, <2>1, <2>2
<1>4. CASE ~ Free(c)
  <2>1. spent[c] # NoMoment /\ moment - spent[c] < SquareReuse
    BY <1>1, <1>4 DEF Free, NoMoment
  <2>2. PICK act \in activations : act.at = spent[c] /\ c \in act.squares
    BY <2>1 DEF SpentAgrees
  <2>. QED  BY <1>4, <2>1, <2>2
<1>. QED  BY <1>3, <1>4

(* A Mutirao is earned when its squares are and its pair rested.           *)
LEMMA EarnedByParts ==
  ActivationsAreEarned <=> \A act \in activations : act.at = moment - 1 => Earned(act)
BY DEF ActivationsAreEarned, Earned, Own, Worn, Rests

(* A conversion changes nothing of what was activated.                     *)
LEMMA RecordKeeps ==
  ASSUME MutiraoInv, NEW p \in Crew, NEW c \in Squares, Records(p, c)
  PROVE  MutiraoInv'
<1>. DEFINE new == [number |-> converted, at |-> moment, square |-> c]
<1>1. /\ UNCHANGED <<moment, spent, resting, activations>>
      /\ recent' = [recent EXCEPT ![p] = InWindow(@ \cup {new})]
      /\ conversions' = [conversions EXCEPT ![p] = @ \cup {new}]
      /\ converted' = converted + 1
  BY DEF Records
<1>2. MutiraoTypes /\ WindowsAgree /\ SpentAgrees /\ RestingAgrees /\ ActivationsAreEarned
  BY DEF MutiraoInv
<1>3. new \in Painted
  BY <1>2 DEF MutiraoTypes, Painted
<1>. HIDE DEF new
<1>4. MutiraoTypes'
  BY <1>1, <1>2, <1>3 DEF MutiraoTypes, InWindow
<1>5. WindowsAgree'
  <2>. SUFFICES ASSUME NEW q \in Crew
                PROVE  /\ (InWindow(recent[q]) = InWindow(conversions[q]))'
                       /\ \A x \in conversions'[q] : x.at <= moment'
    BY DEF WindowsAgree
  <2>1. InWindow(recent[q]) = InWindow(conversions[q]) /\ \A x \in conversions[q] : x.at <= moment
    BY <1>2 DEF WindowsAgree
  <2>2. /\ recent'[q] = IF q = p THEN InWindow(recent[q] \cup {new}) ELSE recent[q]
        /\ conversions'[q] = IF q = p THEN conversions[q] \cup {new} ELSE conversions[q]
    BY <1>1, <1>2 DEF MutiraoTypes
  <2>3. new.at <= moment
    BY <1>2 DEF new, MutiraoTypes
  <2>. QED  BY <1>1, <2>1, <2>2, <2>3 DEF InWindow
<1>6. SpentAgrees' /\ RestingAgrees'
  BY <1>1, <1>2 DEF SpentAgrees, RestingAgrees
<1>7. ASSUME NEW act \in activations', act.at = moment' - 1 PROVE Earned(act)'
  <2>1. Earned(act)
    BY <1>1, <1>2, <1>7, EarnedByParts
  <2>2. act.at = moment - 1 /\ moment \in Nat /\ PairWindow \in Nat /\ act.pair \in Crew \X Crew
    BY <1>1, <1>2, <1>7, PairAssumption DEF MutiraoTypes, Activation
  <2>3. new.at = moment
    BY DEF new
  <2>4. \A q \in Crew : Own(q, act.at)' = Own(q, act.at)
    <3>1. Worn(act.at)' = Worn(act.at)
      BY <1>1 DEF Worn
    <3>2. \A q \in Crew : conversions'[q] = conversions[q] \cup (IF q = p THEN {new} ELSE {})
      BY <1>1, <1>2 DEF MutiraoTypes
    <3>3. new.at \notin (act.at - PairWindow)..act.at
      BY <2>2, <2>3
    <3>. QED  BY <3>1, <3>2, <3>3 DEF Own
  <2>5. \A q : Rests(act, q)' <=> Rests(act, q)
    BY <1>1 DEF Rests
  <2>6. Own(act.pair[1], act.at)' = Own(act.pair[1], act.at) /\ Own(act.pair[2], act.at)' = Own(act.pair[2], act.at)
    BY <2>2, <2>4
  <2>. QED  BY <2>1, <2>5, <2>6 DEF Earned
<1>8. ActivationsAreEarned'
  BY <1>7 DEF ActivationsAreEarned, Earned, Own, Worn, Rests
<1>. QED  BY <1>4, <1>5, <1>6, <1>8 DEF MutiraoInv

(* The end of a tick keeps what the window says.                           *)
LEMMA WindowSlides ==
  ASSUME MutiraoTypes, WindowsAgree, StepsMutirao
  PROVE  /\ moment' = moment + 1 /\ moment \in Nat
         /\ recent' \in [Crew -> SUBSET Painted] /\ conversions' \in [Crew -> SUBSET Painted]
         /\ converted' \in Nat
         /\ \A p \in Crew : conversions'[p] = InWindow(recent[p])
         /\ WindowsAgree'
<1>1. /\ moment' = moment + 1 /\ moment \in Nat /\ PairWindow \in Nat
      /\ recent' = [p \in Crew |-> InWindow(recent[p])]
      /\ conversions' = [p \in Crew |-> InWindow(conversions[p])]
      /\ converted' \in Nat
  BY PairAssumption DEF StepsMutirao, MutiraoTypes
<1>2. \A p \in Crew : recent[p] \in SUBSET Painted /\ conversions[p] \in SUBSET Painted
  BY DEF MutiraoTypes
<1>3. \A p \in Crew : InWindow(recent[p]) = InWindow(conversions[p])
  BY DEF WindowsAgree
<1>4. recent' \in [Crew -> SUBSET Painted] /\ conversions' \in [Crew -> SUBSET Painted]
  BY <1>1, <1>2 DEF InWindow
<1>5. \A p \in Crew : \A x \in conversions'[p] : x.at <= moment'
  <2>. SUFFICES ASSUME NEW p \in Crew, NEW x \in conversions'[p] PROVE x.at <= moment'
    OBVIOUS
  <2>1. x \in conversions[p]
    BY <1>1 DEF InWindow
  <2>2. x.at <= moment /\ x.at \in Nat
    BY <1>2, <2>1 DEF WindowsAgree, Painted
  <2>. QED  BY <1>1, <2>2
<1>6. \A p \in Crew : recent'[p] = conversions'[p]
  BY <1>1, <1>3
<1>. QED  BY <1>1, <1>3, <1>4, <1>5, <1>6 DEF WindowsAgree, InWindow

(* What rests after the timers of a tick.                                  *)
LEMMA RestedFacts ==
  ASSUME MutiraoTypes
  PROVE  /\ Rested \in [Crew -> Nat]
         /\ \A p \in Crew : resting[p] \in Nat /\ resting[p] - 1 <= Rested[p]
BY DEF MutiraoTypes, Rested

(* A tick without an evaluation only lets time pass.                       *)
LEMMA IdleKeeps ==
  ASSUME MutiraoInv, StepsMutirao, resting' = Rested, UNCHANGED <<spent, activations>>
  PROVE  MutiraoInv'
<1>1. MutiraoTypes /\ WindowsAgree /\ SpentAgrees /\ RestingAgrees
  BY DEF MutiraoInv
<1>2. moment' = moment + 1 /\ moment \in Nat /\ SquareReuse \in Nat /\ PairCooldown \in Nat
  BY <1>1, WindowSlides, PairAssumption
<1>3. \A act \in activations : act.at \in Nat /\ act.at < moment /\ act.pair \in Crew \X Crew
  BY <1>1 DEF MutiraoTypes, Activation
<1>4. MutiraoTypes'
  <2>1. \A act \in activations : act.at < moment'
    BY <1>2, <1>3
  <2>. QED  BY <1>1, <1>2, <2>1, WindowSlides, RestedFacts DEF MutiraoTypes
<1>5. SpentAgrees'
  <2>1. \A act \in activations : moment' - act.at < SquareReuse => moment - act.at < SquareReuse
    BY <1>2, <1>3
  <2>. QED  BY <1>1, <2>1 DEF SpentAgrees
<1>6. RestingAgrees'
  <2>. SUFFICES ASSUME NEW act \in activations, NEW i \in 1..2
                PROVE  PairCooldown - (moment' - 1 - act.at) <= Rested[act.pair[i]]
    BY DEF RestingAgrees
  <2>1. act.pair[i] \in Crew
    BY <1>3
  <2>2. PairCooldown - (moment - 1 - act.at) <= resting[act.pair[i]]
    BY <1>1 DEF RestingAgrees
  <2>3. /\ resting[act.pair[i]] \in Nat /\ Rested[act.pair[i]] \in Nat
        /\ resting[act.pair[i]] - 1 <= Rested[act.pair[i]]
    BY <1>1, <2>1, RestedFacts
  <2>. QED  BY <1>2, <1>3, <2>2, <2>3
<1>7. ActivationsAreEarned'
  <2>1. \A act \in activations' : act.at # moment' - 1
    BY <1>2, <1>3
  <2>. QED  BY <2>1 DEF ActivationsAreEarned
<1>8. WindowsAgree'
  BY <1>1, WindowSlides
<1>. QED  BY <1>4, <1>5, <1>6, <1>7, <1>8 DEF MutiraoInv

\* what is started for some pairs
Started(pairs) == {[at |-> moment, pair |-> pair, squares |-> PaidBy(pair)] : pair \in pairs}

(* What a player pays with is its own, told from all that was converted.   *)
LEMMA PayingIsOwn ==
  ASSUME MutiraoInv, StepsMutirao, NEW pairs, activations' = activations \cup Started(pairs),
         NEW now \in Nat, now = moment, NEW p \in Crew
  PROVE  Own(p, now)' = Paying[p]
<1>1. MutiraoTypes /\ WindowsAgree /\ SpentAgrees /\ PairWindow \in Nat
  BY PairAssumption DEF MutiraoInv
<1>2. \A act \in activations : act.at < now
  BY <1>1 DEF MutiraoTypes
<1>3. \A act \in Started(pairs) : act.at = now
  BY DEF Started
<1>4. {a \in activations' : a.at < now} = activations
  BY <1>2, <1>3
<1>5. ASSUME NEW c \in Squares PROVE c \notin Worn(now)' <=> Free(c)
  <2>1. c \in Worn(now)' <=> \E act \in activations : now - act.at < SquareReuse /\ c \in act.squares
    BY <1>4 DEF Worn
  <2>. QED  BY <1>1, <2>1, FreeIsUnworn
<1>6. conversions'[p] = InWindow(recent[p]) /\ conversions'[p] = InWindow(conversions[p])
  BY <1>1, WindowSlides DEF WindowsAgree
<1>7. ASSUME NEW x \in conversions'[p] PROVE x.square \in Squares /\ x.at \in (now - PairWindow)..now
  <2>1. x \in conversions[p] /\ x.at >= now - PairWindow /\ x \in Painted
    BY <1>1, <1>6, <1>7 DEF InWindow, MutiraoTypes
  <2>2. x.at <= now /\ x.at \in Nat /\ x.square \in Squares
    BY <1>1, <2>1 DEF WindowsAgree, Painted
  <2>. QED  BY <1>1, <2>1, <2>2
<1>8. Own(p, now)' = {x \in conversions'[p] : x.square \notin Worn(now)'}
  BY <1>7 DEF Own
<1>9. Paying[p] = {x \in InWindow(recent[p]) : Free(x.square)}
  BY DEF Paying
<1>. QED  BY <1>5, <1>6, <1>7, <1>8, <1>9

(* What starts for the chosen pairs is earned, and what the tracker keeps  *)
(* of it is what the next evaluations need.                                *)
LEMMA StartsKeep ==
  ASSUME MutiraoInv, StepsMutirao, NEW pairs, NEW ready \in SUBSET {p \in Crew : Rested[p] = 0},
         NEW near \in SUBSET (Crew \X Crew), Chosen(pairs, ready, near), Starts(pairs)
  PROVE  MutiraoInv'
<1>. DEFINE paid == UNION {PaidBy(pair) : pair \in pairs}
<1>1. /\ MutiraoTypes /\ WindowsAgree /\ SpentAgrees /\ RestingAgrees
      /\ moment' = moment + 1 /\ moment \in Nat /\ SquareReuse \in Nat /\ PairCooldown \in Nat
  BY WindowSlides, PairAssumption DEF MutiraoInv
<1>2. \A act \in activations : act \in Activation /\ act.at \in Nat /\ act.at < moment
                               /\ act.pair \in Crew \X Crew
  BY <1>1 DEF MutiraoTypes, Activation
<1>3. /\ spent' = [c \in Squares |-> IF c \in paid THEN moment
                                     ELSE IF Forgotten(c) THEN NoMoment ELSE spent[c]]
      /\ resting' = [p \in Crew |-> IF \E pair \in pairs : p \in {pair[1], pair[2]}
                                    THEN PairCooldown ELSE Rested[p]]
      /\ activations' = activations \cup Started(pairs)
  BY DEF Starts, Started
<1>4. ASSUME NEW pair \in pairs
      PROVE  /\ pair \in Crew \X Crew /\ pair[1] \in ready /\ pair[2] \in ready /\ Matches(pair)
             /\ PaidBy(pair) \in SUBSET Squares
             /\ \A other \in pairs \ {pair} : {pair[1], pair[2]} \cap {other[1], other[2]} = {}
  <2>1. pair \in Crew \X Crew /\ pair[1] \in Crew /\ pair[2] \in Crew
    BY DEF Chosen
  <2>2. \A p \in Crew : Paying[p] \in SUBSET Painted
    BY <1>1 DEF Paying, InWindow, MutiraoTypes
  <2>3. PaidBy(pair) \in SUBSET Squares
    BY <2>1, <2>2 DEF PaidBy, SquaresIn, Painted
  <2>. QED  BY <2>1, <2>3 DEF Chosen
<1>5. ASSUME NEW act \in Started(pairs)
      PROVE  act \in Activation /\ act.at = moment /\ act.pair \in pairs /\ act.squares = PaidBy(act.pair)
  <2>1. PICK pair \in pairs : act = [at |-> moment, pair |-> pair, squares |-> PaidBy(pair)]
    BY DEF Started
  <2>. QED  BY <1>1, <1>4, <2>1 DEF Activation
<1>6. MutiraoTypes'
  <2>1. activations' \in SUBSET Activation /\ \A act \in activations' : act.at < moment'
    BY <1>1, <1>2, <1>3, <1>5
  <2>2. resting' \in [Crew -> Nat]
    BY <1>1, <1>3, RestedFacts
  <2>3. spent' \in [Squares -> Nat \cup {NoMoment}]
    BY <1>1, <1>3 DEF MutiraoTypes
  <2>. QED  BY <1>1, <2>1, <2>2, <2>3, WindowSlides DEF MutiraoTypes
<1>7. SpentAgrees'
  <2>1. ASSUME NEW act \in activations', NEW c \in Squares, c \in act.squares,
               moment' - act.at < SquareReuse
        PROVE  spent'[c] # NoMoment /\ act.at <= spent'[c]
    <3>1. CASE c \in paid
      <4>1. spent'[c] = moment
        BY <1>3, <3>1
      <4>2. act.at <= moment /\ moment # NoMoment
        BY <1>1, <1>2, <1>3, <1>5 DEF NoMoment
      <4>. QED  BY <4>1, <4>2
    <3>2. CASE c \notin paid
      <4>1. act \in activations
        BY <1>3, <1>5, <2>1, <3>2
      <4>2. moment - act.at < SquareReuse
        BY <1>1, <1>2, <2>1, <4>1
      <4>3. spent[c] # NoMoment /\ act.at <= spent[c]
        BY <1>1, <2>1, <4>1, <4>2 DEF SpentAgrees
      <4>4. spent[c] \in Nat
        BY <1>1, <4>3 DEF MutiraoTypes
      <4>5. ~ Forgotten(c)
        BY <1>1, <1>2, <4>1, <4>2, <4>3, <4>4 DEF Forgotten
      <4>. QED  BY <1>3, <3>2, <4>3, <4>5
    <3>. QED  BY <3>1, <3>2
  <2>2. ASSUME NEW c \in Squares, spent'[c] # NoMoment
        PROVE  \E act \in activations' : act.at = spent'[c] /\ c \in act.squares
    <3>1. CASE c \in paid
      <4>1. PICK pair \in pairs : c \in PaidBy(pair)
        BY <3>1
      <4>. DEFINE act == [at |-> moment, pair |-> pair, squares |-> PaidBy(pair)]
      <4>2. act \in activations' /\ act.at = moment /\ act.squares = PaidBy(pair)
        BY <1>3 DEF Started
      <4>3. spent'[c] = moment
        BY <1>3, <3>1
      <4>. HIDE DEF act
      <4>. QED  BY <4>1, <4>2, <4>3
    <3>2. CASE c \notin paid
      <4>1. spent'[c] = spent[c]
        BY <1>3, <2>2, <3>2
      <4>. QED  BY <1>1, <1>3, <2>2, <4>1 DEF SpentAgrees
    <3>. QED  BY <3>1, <3>2
  <2>. QED  BY <2>1, <2>2 DEF SpentAgrees
<1>8. RestingAgrees'
  <2>. SUFFICES ASSUME NEW act \in activations', NEW i \in 1..2
                PROVE  PairCooldown - (moment' - 1 - act.at) <= resting'[act.pair[i]]
    BY DEF RestingAgrees
  <2>1. act.at \in Nat /\ act.at <= moment /\ act.pair[i] \in Crew
    BY <1>1, <1>2, <1>3, <1>4, <1>5
  <2>2. CASE \E pair \in pairs : act.pair[i] \in {pair[1], pair[2]}
    <3>1. resting'[act.pair[i]] = PairCooldown
      BY <1>3, <2>1, <2>2
    <3>. QED  BY <1>1, <2>1, <3>1
  <2>3. CASE ~ \E pair \in pairs : act.pair[i] \in {pair[1], pair[2]}
    <3>1. resting'[act.pair[i]] = Rested[act.pair[i]]
      BY <1>3, <2>1, <2>3
    <3>2. act \in activations
      <4>1. act.pair[i] \in {act.pair[1], act.pair[2]}
        OBVIOUS
      <4>. QED  BY <1>3, <1>5, <2>3, <4>1
    <3>3. PairCooldown - (moment - 1 - act.at) <= resting[act.pair[i]]
      BY <1>1, <3>2 DEF RestingAgrees
    <3>4. /\ resting[act.pair[i]] \in Nat /\ Rested[act.pair[i]] \in Nat
          /\ resting[act.pair[i]] - 1 <= Rested[act.pair[i]]
      BY <1>1, <2>1, RestedFacts
    <3>. QED  BY <1>1, <2>1, <3>1, <3>3, <3>4
  <2>. QED  BY <2>2, <2>3
<1>9. ASSUME NEW act \in activations', act.at = moment' - 1 PROVE Earned(act)'
  <2>. DEFINE a == act.pair[1]
              b == act.pair[2]
  <2>1. act \in Started(pairs) /\ act.at = moment /\ act.at \in Nat /\ act.pair \in pairs
    BY <1>1, <1>2, <1>3, <1>5, <1>9
  <2>2. a \in Crew /\ b \in Crew /\ a \in ready /\ b \in ready /\ Matches(act.pair)
    BY <1>4, <2>1
  <2>3. Own(a, act.at)' = Paying[a] /\ Own(b, act.at)' = Paying[b]
    BY <1>3, <2>1, <2>2, PayingIsOwn
  <2>4. /\ CrewSide[a] = CrewSide[b] /\ SquaresIn(Paying[a]) \cap SquaresIn(Paying[b]) = {}
        /\ AreaIn(Paying[a]) >= MinArea /\ AreaIn(Paying[b]) >= MinArea
    BY <2>2 DEF Matches
  <2>5. ASSUME NEW p \in {a, b}, NEW other \in activations' \ {act}, p \in {other.pair[1], other.pair[2]}
        PROVE  (act.at - other.at) \notin 0..(PairCooldown - 1)
    <3>1. CASE other \in Started(pairs)
      <4>1. other.pair \in pairs /\ other.pair # act.pair
        <5>1. other.at = act.at /\ other.pair \in pairs /\ other.squares = PaidBy(other.pair)
              /\ act.squares = PaidBy(act.pair) /\ other \in Activation /\ act \in Activation
          BY <1>5, <2>1, <3>1
        <5>2. \A x, y \in Activation : x.at = y.at /\ x.pair = y.pair /\ x.squares = y.squares => x = y
          BY DEF Activation
        <5>. QED  BY <5>1, <5>2
      <4>. QED  BY <1>4, <2>1, <2>5, <4>1
    <3>2. CASE other \in activations
      <4>1. other.at \in Nat /\ other.at < moment
        BY <1>2, <3>2
      <4>2. PairCooldown - (moment - 1 - other.at) <= resting[p]
        BY <1>1, <2>5, <3>2 DEF RestingAgrees
      <4>3. resting[p] \in Nat /\ resting[p] <= 1
        <5>1. p \in Crew /\ Rested[p] = 0
          BY <2>2
        <5>. QED  BY <1>1, <5>1, RestedFacts
      <4>4. moment - other.at >= PairCooldown
        BY <1>1, <4>1, <4>2, <4>3
      <4>. QED  BY <1>1, <2>1, <4>1, <4>4
    <3>. QED  BY <1>3, <3>1, <3>2
  <2>6. Rests(act, a)' /\ Rests(act, b)'
    BY <2>5 DEF Rests
  <2>7. \A i \in 1..2 : act.pair[i] = a \/ act.pair[i] = b
    OBVIOUS
  <2>. HIDE DEF a, b
  <2>8. \A i \in 1..2 : AreaIn(Own(act.pair[i], act.at))' >= MinArea /\ Rests(act, act.pair[i])'
    BY <2>3, <2>4, <2>6, <2>7
  <2>. QED  BY <2>3, <2>4, <2>8 DEF Earned, a, b
<1>10. ActivationsAreEarned'
  BY <1>9 DEF ActivationsAreEarned, Earned, Own, Worn, Rests
<1>11. WindowsAgree'
  BY <1>1, WindowSlides
<1>. QED  BY <1>6, <1>7, <1>8, <1>10, <1>11 DEF MutiraoInv

(* Every step keeps what the tracker knows in line with what happened.     *)
LEMMA MutiraoStep == MutiraoInv /\ [MutiraoNext]_mutiraoVars => MutiraoInv'
<1>. SUFFICES ASSUME MutiraoInv, [MutiraoNext]_mutiraoVars PROVE MutiraoInv'
  OBVIOUS
<1>1. CASE StepsMutirao
  <2>1. CASE moment % PairEvery = 0
    <3>1. PICK alive \in SUBSET Crew, near \in SUBSET {pair \in Crew \X Crew : Matches(pair)} :
            Starts(Paired({p \in alive : Rested[p] = 0}, near))
      BY <1>1, <2>1 DEF StepsMutirao
    <3>. DEFINE ready == {p \in alive : Rested[p] = 0}
    <3>2. Chosen(Paired(ready, near), ready, near)
      BY PairedAreChosen
    <3>3. ready \in SUBSET {p \in Crew : Rested[p] = 0} /\ near \in SUBSET (Crew \X Crew)
      OBVIOUS
    <3>4. Starts(Paired(ready, near))
      BY <3>1
    <3>. HIDE DEF ready
    <3>. QED  BY <1>1, <3>2, <3>3, <3>4, StartsKeep
  <2>2. CASE moment % PairEvery # 0
    BY <1>1, <2>2, IdleKeeps DEF StepsMutirao
  <2>. QED  BY <2>1, <2>2
<1>2. CASE \E p \in Crew, c \in Squares : Records(p, c)
  BY <1>2, RecordKeeps
<1>3. CASE UNCHANGED mutiraoVars
  <2>1. UNCHANGED <<moment, recent, spent, resting, converted, conversions, activations>>
    BY <1>3 DEF mutiraoVars, mutiraoHistory
  <2>2. MutiraoTypes'
    BY <2>1 DEF MutiraoInv, MutiraoTypes
  <2>3. WindowsAgree'
    BY <2>1 DEF MutiraoInv, WindowsAgree, InWindow
  <2>4. SpentAgrees' /\ RestingAgrees'
    BY <2>1 DEF MutiraoInv, SpentAgrees, RestingAgrees
  <2>5. ActivationsAreEarned'
    <3>1. \A act \in activations' : act.at = moment' - 1 => Earned(act)'
      <4>. SUFFICES ASSUME NEW act \in activations', act.at = moment' - 1 PROVE Earned(act)'
        OBVIOUS
      <4>1. Earned(act)
        BY <2>1, EarnedByParts DEF MutiraoInv
      <4>2. \A p : Own(p, act.at)' = Own(p, act.at) /\ Rests(act, p)' = Rests(act, p)
        BY <2>1 DEF Own, Worn, Rests
      <4>. QED  BY <4>1, <4>2 DEF Earned
    <3>. QED  BY <3>1 DEF ActivationsAreEarned, Earned, Own, Worn, Rests
  <2>. QED  BY <2>2, <2>3, <2>4, <2>5 DEF MutiraoInv
<1>. QED  BY <1>1, <1>2, <1>3 DEF MutiraoNext

(* Every Mutirao is earned, for any players, squares, areas, windows and   *)
(* cooldowns: what the tracker trims, marks and forgets decides as all     *)
(* that was converted and started would (MutiraoTracker).                  *)
THEOREM MutiroesAreEarned == MutiraoSpec => []ActivationsAreEarned
<1>1. MutiraoInv => ActivationsAreEarned
  BY DEF MutiraoInv
<1>. QED  BY <1>1, MutiraoStarts, MutiraoStep, PTL DEF MutiraoSpec

-----------------------------------------------------------------------------
(* The way of a bot (NavGraph).                                            *)

\* the nodes, by their numbers
Ids == DOMAIN nodes
PlaceOf(i) == nodes[i].place

(* The nodes are the reached places, each under one number, and their      *)
(* edges the links between them; nothing leads away from them.             *)
NodesOk ==
  /\ Ids = 1..Cardinality(reach) /\ Len(nodes) = Cardinality(reach)
  /\ \A i \in Ids : PlaceOf(i) \in reach
  /\ \A i, j \in Ids : PlaceOf(i) = PlaceOf(j) => i = j
  /\ \A n \in reach : \E i \in Ids : PlaceOf(i) = n
  /\ \A i \in Ids : nodes[i].edges = {j \in Ids : PlaceOf(j) \in links[PlaceOf(i)]}
  /\ \A n \in reach : links[n] \subseteq reach

\* the priority of a node, as its cost is
Priority(n) == cost[n] + Remaining(n, to)
Reached(n) == cost[n] # Infinite

SearchTypes ==
  /\ from \in Ids /\ to \in Ids /\ from # to
  /\ cost \in [Ids -> Nat \cup {Infinite}] /\ came \in [Ids -> Ids \cup {NoNode}]
  /\ closed \in SUBSET Ids /\ open \in SUBSET (Nat \X Ids)
  /\ cost[from] = 0 /\ to \notin closed

(* A reached node that is not closed has its priority in the queue, and no *)
(* entry promises less than the node keeps.                                *)
QueueAgrees ==
  /\ \A n \in Ids \ closed : Reached(n) => <<Priority(n), n>> \in open
  /\ \A e \in open : Reached(e[2]) /\ Priority(e[2]) <= e[1]

(* What is closed is settled: it came before all that waits, and what it   *)
(* leads to was offered its way.                                           *)
ClosedAgree ==
  \A u \in closed :
    /\ Reached(u)
    /\ \A e \in open : Priority(u) <= e[1]
    /\ \A v \in nodes[u].edges : Reached(v) /\ cost[v] <= cost[u] + Between(u, v)

(* Every reached node but the first came from a closed one, at its cost.   *)
CameAgrees ==
  \A n \in Ids \ {from} :
    Reached(n) => /\ came[n] \in closed /\ came[n] # n /\ n \in nodes[came[n]].edges
                  /\ cost[n] = cost[came[n]] + Between(came[n], n)

SearchOk == SearchTypes /\ QueueAgrees /\ ClosedAgree /\ CameAgrees

FloodOk ==
  /\ queue \subseteq reach
  /\ \A n \in reach \ queue : links[n] \subseteq reach

NavInv ==
  /\ links \in [Places -> SUBSET Places] /\ reach \in SUBSET Places
  /\ navStage \in {"flood", "built", "search", "done"}
  /\ navStage = "flood" => FloodOk
  /\ navStage \in {"flood", "built"} => closed = {}
  /\ navStage # "flood" => NodesOk
  /\ navStage = "search" => SearchOk
  /\ PathIsShortest

(* The start: the nearest places are to be visited.                        *)
LEMMA NavStarts == NavInit => NavInv
<1>. SUFFICES ASSUME NavInit PROVE NavInv
  OBVIOUS
<1>1. PICK some \in SUBSET Links : NavStart([n \in Places |-> {m \in Places : <<n, m>> \in some}])
  BY DEF NavInit
<1>2. links \in [Places -> SUBSET Places] /\ navStage = "flood" /\ closed = {}
  BY <1>1 DEF NavStart
<1>3. reach \in SUBSET Places /\ queue = reach
  BY LinksJoinPlaces DEF NavInit
<1>. QED  BY <1>2, <1>3 DEF NavInv, FloodOk, PathIsShortest

(* The flood stays in what it reached.                                     *)
LEMMA FloodsKeep == NavInv /\ Floods => NavInv'
<1>. SUFFICES ASSUME NavInv, Floods PROVE NavInv'
  OBVIOUS
<1>1. PICK id \in queue : /\ reach' = reach \cup links[id]
                          /\ queue' = (queue \ {id}) \cup (links[id] \ reach)
  BY DEF Floods
<1>2. navStage = "flood" /\ navStage' = "flood" /\ links' = links /\ closed' = closed
  BY DEF Floods, searchVars
<1>3. FloodOk /\ links \in [Places -> SUBSET Places] /\ reach \in SUBSET Places
  BY <1>2 DEF NavInv
<1>4. reach' \in SUBSET Places
  BY <1>1, <1>3 DEF FloodOk
<1>5. FloodOk'
  BY <1>1, <1>2, <1>3 DEF FloodOk
<1>. QED  BY <1>2, <1>3, <1>4, <1>5 DEF NavInv, PathIsShortest

-----------------------------------------------------------------------------
(* The numbers from one to n are n.                                        *)
LEMMA CountIsInterval == \A n \in Nat : Cardinality(1..n) = n
BY FS_Interval

(* The kept places are numbered from one on, each once.                    *)
LEMMA NumbersAreNew ==
  ASSUME reach \in SUBSET Places
  PROVE  /\ Cardinality(reach) \in Nat /\ IsFiniteSet(reach)
         /\ \A n \in reach : NewNumber(n) \in 1..Cardinality(reach)
         /\ \A n, m \in reach : NewNumber(n) = NewNumber(m) => n = m
         /\ \A i \in 1..Cardinality(reach) : \E n \in reach : NewNumber(n) = i
<1>. DEFINE lower == [n \in Nat |-> {m \in Nat : m < n}]
            k == Cardinality(reach)
<1>1. IsFiniteSet(reach) /\ k \in Nat /\ reach \in SUBSET Nat
  <2>1. PlaceCount \in Nat /\ Places \in SUBSET Nat
    BY SizesArePositive DEF Places
  <2>2. IsFiniteSet(Places)
    BY <2>1, FS_Interval DEF Places
  <2>. QED  BY <2>1, <2>2, FS_Subset, FS_CardinalityType
<1>2. Orders(lower, reach)
  BY <1>1 DEF Orders
<1>3. RankOf(lower, reach) \in Bijection(reach, 0..(k - 1))
  <2>. HIDE DEF lower
  <2>. QED  BY <1>1, <1>2, RanksCount
<1>. DEFINE r == RankOf(lower, reach)
<1>4. ASSUME NEW n \in reach PROVE NewNumber(n) = r[n] + 1
  <2>1. Before(lower, reach, n) = {m \in reach : m < n}
    BY <1>1 DEF Before
  <2>2. {m \in reach : m <= n} = {m \in reach : m < n} \cup {n}
    <3>1. \A m \in reach : m <= n <=> m < n \/ m = n
      <4>1. \A m \in reach : m \in Nat
        BY <1>1
      <4>. QED  BY <4>1
    <3>2. n <= n
      BY <3>1
    <3>. QED  BY <3>1, <3>2
  <2>3. IsFiniteSet({m \in reach : m < n}) /\ n \notin {m \in reach : m < n}
    <3>1. {m \in reach : m < n} \in SUBSET reach
      OBVIOUS
    <3>2. ~ (n < n)
      BY <1>1
    <3>. QED  BY <1>1, <3>1, <3>2, FS_Subset
  <2>4. Cardinality({m \in reach : m < n} \cup {n}) = Cardinality({m \in reach : m < n}) + 1
    BY <2>3, FS_AddElement
  <2>5. r[n] = Cardinality({m \in reach : m < n})
    BY <2>1 DEF RankOf
  <2>. QED  BY <2>2, <2>4, <2>5 DEF NewNumber
<1>5. /\ \A n \in reach : r[n] \in 0..(k - 1)
      /\ \A n, m \in reach : r[n] = r[m] => n = m
      /\ \A i \in 0..(k - 1) : \E n \in reach : r[n] = i
  <2>. HIDE DEF r
  <2>. QED  BY <1>3 DEF Bijection, Injection, IsInjective, Surjection, r
<1>. HIDE DEF r, k
<1>6. \A n \in reach : NewNumber(n) \in 1..k
  BY <1>1, <1>4, <1>5
<1>7. \A n, m \in reach : NewNumber(n) = NewNumber(m) => n = m
  <2>. SUFFICES ASSUME NEW n \in reach, NEW m \in reach, NewNumber(n) = NewNumber(m) PROVE n = m
    OBVIOUS
  <2>1. r[n] \in 0..(k - 1) /\ r[m] \in 0..(k - 1) /\ r[n] + 1 = r[m] + 1
    BY <1>4, <1>5
  <2>2. r[n] = r[m]
    BY <1>1, <2>1
  <2>. QED  BY <1>5, <2>2
<1>8. \A i \in 1..k : \E n \in reach : NewNumber(n) = i
  <2>. SUFFICES ASSUME NEW i \in 1..k PROVE \E n \in reach : NewNumber(n) = i
    OBVIOUS
  <2>1. i - 1 \in 0..(k - 1)
    BY <1>1
  <2>2. PICK n \in reach : r[n] = i - 1
    BY <1>5, <2>1
  <2>. QED  BY <1>4, <2>2
<1>. QED  BY <1>1, <1>6, <1>7, <1>8 DEF k

(* compact keeps the reached places and the links between them.            *)
LEMMA CompactsKeep == NavInv /\ Compacts => NavInv'
<1>. SUFFICES ASSUME NavInv, Compacts PROVE NavInv'
  OBVIOUS
<1>. DEFINE place(i) == CHOOSE m \in reach : NewNumber(m) = i
            k == Cardinality(reach)
<1>1. /\ links \in [Places -> SUBSET Places] /\ reach \in SUBSET Places
      /\ \A n \in reach : links[n] \subseteq reach
      /\ closed = {} /\ navStage' = "built" /\ UNCHANGED <<links, reach, closed>>
  BY DEF Compacts, NavInv, FloodOk, searchVars
<1>2. nodes' = [i \in 1..k |-> [place |-> place(i),
                                edges |-> {NewNumber(e) : e \in links[place(i)] \cap reach}]]
  BY DEF Compacts, NewNumber
<1>3. /\ k \in Nat /\ \A n \in reach : NewNumber(n) \in 1..k
      /\ \A n, m \in reach : NewNumber(n) = NewNumber(m) => n = m
      /\ \A i \in 1..k : \E n \in reach : NewNumber(n) = i
  BY <1>1, NumbersAreNew
<1>4. \A i \in 1..k : place(i) \in reach /\ NewNumber(place(i)) = i
  BY <1>3
<1>5. \A n \in reach : place(NewNumber(n)) = n
  <2>. SUFFICES ASSUME NEW n \in reach PROVE place(NewNumber(n)) = n
    OBVIOUS
  <2>1. place(NewNumber(n)) \in reach /\ NewNumber(place(NewNumber(n))) = NewNumber(n)
    BY <1>3, <1>4
  <2>. HIDE DEF place
  <2>. QED  BY <1>3, <2>1
<1>. HIDE DEF place, k
<1>6. Ids' = 1..k /\ \A i \in 1..k : PlaceOf(i)' = place(i)
  BY <1>2 DEF Ids, PlaceOf
<1>7. Len(nodes') = k
  <2>1. nodes' \in [1..k -> {nodes'[i] : i \in 1..k}]
    BY <1>2
  <2>2. nodes' \in Seq({nodes'[i] : i \in 1..k})
    BY <1>3, <2>1, SeqDef
  <2>3. DOMAIN nodes' = 1..Len(nodes') /\ Len(nodes') \in Nat
    BY <2>2, LenProperties
  <2>4. 1..Len(nodes') = 1..k
    BY <1>2, <2>3
  <2>5. Cardinality(1..k) = k /\ Cardinality(1..Len(nodes')) = Len(nodes')
    <3>. QED  BY <1>3, <2>3, CountIsInterval
  <2>. QED  BY <2>4, <2>5
<1>8. ASSUME NEW i \in 1..k
      PROVE  nodes'[i].edges = {j \in 1..k : place(j) \in links[place(i)]}
  <2>1. nodes'[i].edges = {NewNumber(e) : e \in links[place(i)]}
    BY <1>1, <1>2, <1>4
  <2>2. links[place(i)] \subseteq reach
    BY <1>1, <1>4
  <2>. QED  BY <1>3, <1>4, <1>5, <2>1, <2>2
<1>9. NodesOk'
  <2>1. /\ \A i \in 1..k : place(i) \in reach
        /\ \A i, j \in 1..k : place(i) = place(j) => i = j
        /\ \A n \in reach : \E i \in 1..k : place(i) = n
    BY <1>3, <1>4, <1>5
  <2>2. reach' = reach /\ links' = links /\ Cardinality(reach) = k
    BY <1>1 DEF k
  <2>. QED  BY <1>1, <1>6, <1>7, <1>8, <2>1, <2>2 DEF NodesOk
<1>. QED  BY <1>1, <1>9 DEF NavInv, PathIsShortest

-----------------------------------------------------------------------------
(* Distances between nodes are those of a metric.                          *)
LEMMA NodesAreApart ==
  ASSUME NodesOk, reach \in SUBSET Places
  PROVE  \A a, b, c \in Ids : /\ Between(a, b) \in Nat
                              /\ (Between(a, b) = 0 <=> a = b)
                              /\ Between(a, c) <= Between(a, b) + Between(b, c)
<1>. SUFFICES ASSUME NEW a \in Ids, NEW b \in Ids, NEW c \in Ids
              PROVE  /\ Between(a, b) \in Nat
                     /\ (Between(a, b) = 0 <=> a = b)
                     /\ Between(a, c) <= Between(a, b) + Between(b, c)
  OBVIOUS
<1>1. PlaceOf(a) \in Places /\ PlaceOf(b) \in Places /\ PlaceOf(c) \in Places
  BY DEF NodesOk
<1>2. PlaceOf(a) = PlaceOf(b) <=> a = b
  BY DEF NodesOk
<1>3. \A x, y : Between(x, y) = Metres[PlaceOf(x)][PlaceOf(y)]
  BY DEF Between, PlaceOf
<1>. QED  BY <1>1, <1>2, <1>3, MetresAreMetric


(* A search begins at its first node.                                      *)
LEMMA AsksKeep ==
  ASSUME NavInv, Asks, from' # to'
  PROVE  SearchOk'
<1>1. PICK a \in Ids, b \in Ids :
        /\ from' = a /\ to' = b
        /\ cost' = [n \in Ids |-> IF n = a THEN 0 ELSE Infinite]
        /\ came' = [n \in Ids |-> NoNode]
        /\ open' = {<<Remaining(a, b), a>>}
  BY DEF Asks, Ids
<1>2. nodes' = nodes /\ reach' = reach /\ closed' = {} /\ NodesOk /\ reach \in SUBSET Places
  BY DEF Asks, NavInv
<1>3. Ids' = Ids /\ \A x, y : Remaining(x, y)' = Remaining(x, y)
  BY <1>2 DEF Ids, Remaining, Between
<1>4. Remaining(a, b) \in Nat
  BY <1>2, NodesAreApart DEF Remaining
<1>5. \A n \in Ids : (Reached(n)' <=> n = a) /\ cost'[a] = 0
  BY <1>1 DEF Reached, Infinite
<1>6. Priority(a)' = Remaining(a, b)
  BY <1>1, <1>3, <1>4, <1>5 DEF Priority
<1>7. SearchTypes'
  BY <1>1, <1>2, <1>3, <1>4, <1>5 DEF SearchTypes
<1>8. QueueAgrees'
  BY <1>1, <1>3, <1>4, <1>5, <1>6 DEF QueueAgrees
<1>9. ClosedAgree' /\ CameAgrees'
  BY <1>1, <1>2, <1>3, <1>5 DEF ClosedAgree, CameAgrees
<1>. QED  BY <1>7, <1>8, <1>9 DEF SearchOk

\* what a turn of the loop takes off the queue
Least(entry) == entry \in open /\ \A other \in open : entry[1] <= other[1]

(* What is taken off first and is not closed has the cost its node keeps.  *)
LEMMA LeastIsCurrent ==
  ASSUME SearchOk, NodesOk, reach \in SUBSET Places, NEW entry, Least(entry), entry[2] \notin closed
  PROVE  /\ entry[2] \in Ids /\ Reached(entry[2]) /\ cost[entry[2]] \in Nat
         /\ entry[1] \in Nat /\ entry[1] = Priority(entry[2])
<1>. DEFINE n == entry[2]
<1>1. entry \in Nat \X Ids /\ n \in Ids /\ entry[1] \in Nat
  BY DEF SearchOk, SearchTypes, Least
<1>2. Reached(n) /\ Priority(n) <= entry[1]
  BY DEF SearchOk, QueueAgrees, Least
<1>3. cost[n] \in Nat
  BY <1>1, <1>2 DEF SearchOk, SearchTypes, Reached
<1>4. Priority(n) \in Nat
  BY <1>1, <1>3, NodesAreApart DEF Priority, Remaining, SearchOk, SearchTypes
<1>5. <<Priority(n), n>> \in open
  BY <1>1, <1>2 DEF SearchOk, QueueAgrees
<1>6. entry[1] <= Priority(n)
  BY <1>5 DEF Least
<1>. HIDE DEF n
<1>. QED  BY <1>1, <1>2, <1>3, <1>4, <1>6 DEF n

(* An entry of a closed node is thrown away.                               *)
LEMMA SkipKeeps ==
  ASSUME SearchOk, NEW entry, Least(entry), entry[2] \in closed, open' = open \ {entry},
         UNCHANGED <<nodes, from, to, cost, came, closed>>
  PROVE  SearchOk'
<1>1. Ids' = Ids /\ (\A x, y : Between(x, y)' = Between(x, y))
      /\ (\A n : Priority(n)' = Priority(n) /\ Reached(n)' = Reached(n))
  BY DEF Ids, Between, Remaining, Priority, Reached
<1>2. SearchTypes'
  BY <1>1 DEF SearchOk, SearchTypes
<1>3. QueueAgrees'
  <2>1. \A n \in Ids \ closed : <<Priority(n), n>> # entry
    OBVIOUS
  <2>. QED  BY <1>1, <2>1 DEF SearchOk, QueueAgrees
<1>4. ClosedAgree'
  BY <1>1 DEF SearchOk, ClosedAgree
<1>5. CameAgrees'
  BY <1>1 DEF SearchOk, CameAgrees
<1>. QED  BY <1>2, <1>3, <1>4, <1>5 DEF SearchOk

(* A node is closed, and offers its way to those it leads to.              *)
LEMMA ExpandKeeps ==
  ASSUME SearchOk, NodesOk, reach \in SUBSET Places, NEW entry, Least(entry), entry[2] \notin closed, entry[2] # to,
         closed' = closed \cup {entry[2]}, Expands(entry[2], open \ {entry}),
         UNCHANGED <<nodes, from, to>>
  PROVE  SearchOk'
<1>. DEFINE cur == entry[2]
            way(n) == cost[cur] + Between(cur, n)
            better == {n \in nodes[cur].edges \ (closed \cup {cur}) : Shorter(n, way(n))}
            H(n) == Remaining(n, to)
<1>1. /\ cost' = [n \in Ids |-> IF n \in better THEN way(n) ELSE cost[n]]
      /\ came' = [n \in Ids |-> IF n \in better THEN cur ELSE came[n]]
      /\ open' = (open \ {entry}) \cup {<<way(n) + H(n), n>> : n \in better}
  BY DEF Expands, Ids
<1>2. /\ cur \in Ids /\ Reached(cur) /\ cost[cur] \in Nat /\ entry[1] \in Nat
      /\ entry[1] = cost[cur] + H(cur)
  BY LeastIsCurrent DEF Priority
<1>3. /\ from \in Ids /\ to \in Ids /\ closed \in SUBSET Ids /\ open \in SUBSET (Nat \X Ids)
      /\ cost \in [Ids -> Nat \cup {Infinite}] /\ came \in [Ids -> Ids \cup {NoNode}]
      /\ cost[from] = 0 /\ to \notin closed
  BY DEF SearchOk, SearchTypes
<1>4. nodes[cur].edges \in SUBSET Ids
  BY <1>2 DEF NodesOk
<1>5. \A n \in Ids : H(n) \in Nat /\ way(n) \in Nat /\ H(cur) <= Between(cur, n) + H(n)
                     /\ Between(cur, n) \in Nat
  BY <1>2, <1>3, NodesAreApart DEF Remaining
<1>6. /\ Ids' = Ids /\ (\A x, y : Between(x, y)' = Between(x, y))
      /\ (\A n : Remaining(n, to)' = H(n))
  BY DEF Ids, Between, Remaining
<1>7. better \in SUBSET Ids /\ \A n \in better : n \notin closed /\ n # cur /\ n \in nodes[cur].edges
  BY <1>4
<1>8. \A n \in better : cost[n] = Infinite \/ way(n) < cost[n]
  BY DEF Shorter
<1>9. \A n \in nodes[cur].edges : n \notin closed /\ n # cur /\ n \notin better =>
        cost[n] # Infinite /\ ~ (way(n) < cost[n])
  BY DEF Shorter
<1>. HIDE DEF better, H, way, cur
<1>10. \A n \in Ids : cost[n] # Infinite => cost[n] \in Nat
  BY <1>3
<1>11. ASSUME NEW n \in Ids
       PROVE  /\ n \in better => cost'[n] = way(n) /\ Reached(n)' /\ came'[n] = cur
              /\ n \notin better => cost'[n] = cost[n] /\ Reached(n)' = Reached(n) /\ came'[n] = came[n]
              /\ n \in closed \/ n = cur => n \notin better
  BY <1>1, <1>5, <1>7 DEF Reached, Infinite
<1>12. \A n \in Ids : Reached(n) => Reached(n)' /\ cost'[n] \in Nat /\ cost[n] \in Nat /\ cost'[n] <= cost[n]
  <2>. SUFFICES ASSUME NEW n \in Ids, Reached(n)
                PROVE  Reached(n)' /\ cost'[n] \in Nat /\ cost[n] \in Nat /\ cost'[n] <= cost[n]
    OBVIOUS
  <2>1. cost[n] \in Nat /\ cost[n] # Infinite
    BY <1>10 DEF Reached
  <2>. QED  BY <1>5, <1>8, <1>11, <2>1
<1>13. SearchTypes'
  <2>1. cost'[from] = 0
    <3>1. from \notin better
      <4>1. ~ (way(from) < 0) /\ cost[from] # Infinite
        BY <1>3, <1>5 DEF Infinite
      <4>. QED  BY <1>3, <1>8, <4>1
    <3>. QED  BY <1>3, <1>11, <3>1
  <2>2. \A n \in Ids : cost'[n] \in Nat \cup {Infinite} /\ came'[n] \in Ids \cup {NoNode}
    BY <1>2, <1>3, <1>5, <1>11
  <2>3. cost' \in [Ids -> Nat \cup {Infinite}] /\ came' \in [Ids -> Ids \cup {NoNode}]
    BY <1>1, <2>2
  <2>4. open' \in SUBSET (Nat \X Ids)
    <3>1. \A n \in better : <<way(n) + H(n), n>> \in Nat \X Ids
      BY <1>5, <1>7
    <3>. QED  BY <1>1, <1>3, <3>1
  <2>5. closed' \in SUBSET Ids /\ to \notin closed' /\ from # to
    BY <1>2, <1>3 DEF SearchOk, SearchTypes, cur
  <2>. QED  BY <1>3, <1>6, <2>1, <2>3, <2>4, <2>5 DEF SearchTypes
<1>14. QueueAgrees'
  <2>1. ASSUME NEW n \in Ids \ closed', Reached(n)' PROVE <<cost'[n] + H(n), n>> \in open'
    <3>0. n \notin closed /\ n # cur
      BY DEF cur
    <3>1. CASE n \in better
      BY <1>1, <1>11, <3>1
    <3>2. CASE n \notin better
      <4>1. cost'[n] = cost[n] /\ Reached(n)
        BY <1>11, <2>1, <3>2
      <4>2. <<cost[n] + H(n), n>> \in open
        BY <3>0, <4>1 DEF SearchOk, QueueAgrees, Priority, H
      <4>3. <<cost[n] + H(n), n>> # entry
        BY <3>0 DEF cur
      <4>. QED  BY <1>1, <4>1, <4>2, <4>3
    <3>. QED  BY <3>1, <3>2
  <2>2. ASSUME NEW e \in open' PROVE Reached(e[2])' /\ cost'[e[2]] + H(e[2]) <= e[1]
    <3>1. CASE e \in open
      <4>1. e[2] \in Ids /\ e[1] \in Nat /\ Reached(e[2]) /\ cost[e[2]] + H(e[2]) <= e[1]
        BY <1>3, <3>1 DEF SearchOk, QueueAgrees, Priority, H
      <4>2. Reached(e[2])' /\ cost'[e[2]] \in Nat /\ cost[e[2]] \in Nat /\ cost'[e[2]] <= cost[e[2]]
            /\ H(e[2]) \in Nat
        BY <1>5, <1>12, <4>1
      <4>. QED  BY <4>1, <4>2
    <3>2. ASSUME NEW n \in better, e = <<way(n) + H(n), n>> PROVE Reached(e[2])' /\ cost'[e[2]] + H(e[2]) <= e[1]
      <4>1. e[2] = n /\ e[1] = way(n) + H(n) /\ n \in Ids
        BY <1>7, <3>2
      <4>2. cost'[n] = way(n) /\ Reached(n)' /\ way(n) + H(n) \in Nat
        BY <1>5, <1>11, <4>1
      <4>. QED  BY <4>1, <4>2
    <3>. QED  BY <1>1, <3>1, <3>2
  <2>. QED  BY <1>6, <2>1, <2>2 DEF QueueAgrees, Priority
<1>15. ASSUME NEW e \in open', NEW p \in Nat, p <= entry[1] PROVE p <= e[1]
  <2>1. CASE e \in open
    <3>1. entry[1] <= e[1] /\ e[1] \in Nat
      BY <1>3, <2>1 DEF Least
    <3>. QED  BY <1>2, <1>15, <3>1
  <2>2. ASSUME NEW n \in better, e = <<way(n) + H(n), n>> PROVE p <= e[1]
    <3>1. e[1] = cost[cur] + Between(cur, n) + H(n) /\ n \in Ids
      BY <1>7, <2>2 DEF way
    <3>. QED  BY <1>2, <1>5, <1>15, <3>1
  <2>. QED  BY <1>1, <2>1, <2>2
<1>16. ClosedAgree'
  <2>1. ASSUME NEW u \in closed'
        PROVE  /\ u \in Ids /\ Reached(u)' /\ cost'[u] = cost[u] /\ cost[u] \in Nat
               /\ cost[u] + H(u) \in Nat /\ cost[u] + H(u) <= entry[1]
    <3>1. CASE u = cur
      BY <1>2, <1>5, <1>11, <3>1
    <3>2. CASE u \in closed
      <4>1. u \in Ids /\ Reached(u) /\ cost[u] + H(u) <= entry[1]
        BY <1>3, <3>2 DEF SearchOk, ClosedAgree, Least, Priority, H
      <4>2. cost[u] \in Nat
        BY <1>10, <4>1 DEF Reached
      <4>. QED  BY <1>5, <1>11, <3>2, <4>1, <4>2
    <3>. QED  BY <3>1, <3>2 DEF cur
  <2>2. ASSUME NEW u \in closed', NEW v \in nodes[u].edges
        PROVE  Reached(v)' /\ cost'[v] <= cost'[u] + Between(u, v)
    <3>1. v \in Ids /\ u \in Ids /\ Between(u, v) \in Nat /\ cost'[u] = cost[u] /\ cost[u] \in Nat
      <4>1. u \in Ids /\ cost'[u] = cost[u] /\ cost[u] \in Nat
        BY <2>1
      <4>2. v \in Ids
        BY <2>2, <4>1 DEF NodesOk
      <4>. QED  BY <4>1, <4>2, NodesAreApart
    <3>2. CASE u \in closed
      <4>1. Reached(v) /\ cost[v] <= cost[u] + Between(u, v)
        BY <2>2, <3>2 DEF SearchOk, ClosedAgree
      <4>. QED  BY <1>12, <3>1, <4>1
    <3>3. CASE u = cur
      <4>1. CASE v \in better
        <5>1. cost'[v] = cost[cur] + Between(cur, v) /\ Reached(v)'
          BY <1>11, <3>1, <4>1 DEF way
        <5>. QED  BY <3>1, <3>3, <5>1
      <4>2. CASE v = cur
        BY <1>2, <1>12, <3>1, <3>3, <4>2
      <4>3. CASE v \in closed
        <5>1. Reached(v) /\ cost[v] + H(v) <= entry[1]
          BY <4>3 DEF SearchOk, ClosedAgree, Least, Priority, H
        <5>2. cost[v] \in Nat /\ Reached(v)' /\ cost'[v] = cost[v]
          BY <1>11, <1>12, <3>1, <4>3, <5>1
        <5>3. cost[v] + H(v) <= cost[cur] + Between(cur, v) + H(v)
          BY <1>2, <1>5, <3>1, <5>1, <5>2
        <5>. QED  BY <1>2, <1>5, <3>1, <3>3, <5>2, <5>3
      <4>4. CASE v \notin better /\ v # cur /\ v \notin closed
        <5>1. cost[v] # Infinite /\ ~ (way(v) < cost[v])
          BY <1>9, <2>2, <3>3, <4>4
        <5>2. cost[v] \in Nat /\ Reached(v)' /\ cost'[v] = cost[v]
          BY <1>10, <1>11, <3>1, <4>4, <5>1 DEF Reached
        <5>. QED  BY <1>2, <1>5, <3>1, <3>3, <5>1, <5>2 DEF way
      <4>. QED  BY <4>1, <4>2, <4>3, <4>4
    <3>. QED  BY <3>2, <3>3 DEF cur
  <2>3. \A u \in closed' : \A e \in open' : cost'[u] + H(u) <= e[1]
    BY <1>15, <2>1
  <2>. QED  BY <1>6, <2>1, <2>2, <2>3 DEF ClosedAgree, Priority
<1>17. CameAgrees'
  <2>. SUFFICES ASSUME NEW n \in Ids \ {from}, Reached(n)'
                PROVE  /\ came'[n] \in closed' /\ came'[n] # n /\ n \in nodes[came'[n]].edges
                       /\ cost'[n] = cost'[came'[n]] + Between(came'[n], n)
    BY <1>6 DEF CameAgrees
  <2>1. CASE n \in better
    <3>1. came'[n] = cur /\ cost'[n] = way(n) /\ cur \in closed' /\ cur # n /\ n \in nodes[cur].edges
      BY <1>7, <1>11, <2>1 DEF cur
    <3>2. cost'[cur] = cost[cur]
      BY <1>2, <1>11
    <3>. QED  BY <3>1, <3>2 DEF way
  <2>2. CASE n \notin better
    <3>1. Reached(n) /\ came'[n] = came[n] /\ cost'[n] = cost[n]
      BY <1>11, <2>2
    <3>2. /\ came[n] \in closed /\ came[n] # n /\ n \in nodes[came[n]].edges
          /\ cost[n] = cost[came[n]] + Between(came[n], n)
      BY <3>1 DEF SearchOk, CameAgrees
    <3>3. cost'[came[n]] = cost[came[n]]
      BY <1>3, <1>11, <3>2
    <3>. QED  BY <3>1, <3>2, <3>3
  <2>. QED  BY <2>1, <2>2
<1>. QED  BY <1>13, <1>14, <1>16, <1>17 DEF SearchOk

-----------------------------------------------------------------------------
(*                               The ways                                  *)

\* the ways of PathIsShortest
WaysOf(a, b) == {w \in Walks : /\ w[1] = nodes[a].place
                               /\ w[Len(w)] = nodes[b].place
                               /\ \A i \in 1..(Len(w) - 1) : w[i + 1] \in links[w[i]]}
Ways == WaysOf(from, to)

(* A way has at least a place, and each once.                              *)
LEMMA WalkShape ==
  ASSUME NEW w \in Walks
  PROVE  /\ Len(w) \in Nat \ {0} /\ w \in [1..Len(w) -> Places] /\ DOMAIN w = 1..Len(w)
         /\ \A i \in 1..Len(w) : w[i] \in Places
<1>1. PICK k \in 1..PlaceCount : w \in [1..k -> Places]
  BY DEF Walks
<1>2. k \in Nat \ {0}
  BY <1>1, SizesArePositive
<1>3. w \in Seq(Places)
  BY <1>1, <1>2, SeqDef
<1>4. Len(w) \in Nat /\ DOMAIN w = 1..Len(w) /\ w \in [1..Len(w) -> Places]
  BY <1>3, LenProperties
<1>5. 1 \in 1..Len(w)
  BY <1>1, <1>2, <1>4
<1>. QED  BY <1>4, <1>5

\* h[k] is what the first k places of w cost
MetresUpTo(w, h) ==
  /\ h[1] = 0
  /\ \A k \in 1..Len(w) : h[k] \in Nat
  /\ \A k \in 2..Len(w) : h[k] = h[k - 1] + Metres[w[k - 1]][w[k]]
  /\ WalkMetres[w] = h[Len(w)]

Sums(g, w, n) ==
  g = [k \in 1..n |-> IF k = 1 THEN 0 ELSE g[k - 1] + Metres[w[k - 1]][w[k]]]

(* What a way costs is summed up from place to place.                      *)
LEMMA SumsAreThere ==
  ASSUME NEW w, NEW n \in Nat
  PROVE  \E g : Sums(g, w, n)
<1>. DEFINE M(k) == Metres[w[k - 1]][w[k]]
            Some == {k \in 0..n : \E g : Sums(g, w, k)}
<1>1. 0 \in Some
  <2>1. Sums([k \in 1..0 |-> 0], w, 0)
    BY DEF Sums
  <2>. QED  BY <2>1
<1>2. ASSUME NEW k \in 0..(n - 1), k \in Some PROVE k + 1 \in Some
  <2>1. PICK g : Sums(g, w, k)
    BY <1>2
  <2>2. \A j \in 1..k : g[j] = IF j = 1 THEN 0 ELSE g[j - 1] + M(j)
    BY <2>1 DEF Sums
  <2>. DEFINE last == IF k = 0 THEN 0 ELSE g[k] + M(k + 1)
              f == [j \in 1..(k + 1) |-> IF j = k + 1 THEN last ELSE g[j]]
  <2>. HIDE DEF M
  <2>3. ASSUME NEW j \in 1..(k + 1) PROVE f[j] = IF j = 1 THEN 0 ELSE f[j - 1] + M(j)
    <3>1. CASE j = k + 1
      <4>1. f[j] = last /\ (k # 0 => f[k] = g[k])
        BY <3>1
      <4>2. (j = 1 <=> k = 0) /\ j - 1 = k
        BY <3>1
      <4>. HIDE DEF f
      <4>. QED  BY <3>1, <4>1, <4>2
    <3>2. CASE j # k + 1
      <4>1. j \in 1..k /\ (j # 1 => j - 1 \in 1..(k + 1) /\ j - 1 # k + 1)
        BY <3>2
      <4>2. f[j] = g[j] /\ (j # 1 => f[j - 1] = g[j - 1])
        BY <3>2, <4>1
      <4>. HIDE DEF f
      <4>. QED  BY <2>2, <4>1, <4>2
    <3>. QED  BY <3>1, <3>2
  <2>4. Sums(f, w, k + 1)
    <3>1. f = [j \in 1..(k + 1) |-> f[j]]
      OBVIOUS
    <3>. HIDE DEF f
    <3>. QED  BY <2>3, <3>1 DEF Sums, M
  <2>5. k + 1 \in 0..n
    OBVIOUS
  <2>. HIDE DEF f
  <2>. QED  BY <2>4, <2>5
<1>3. \A k \in 0..n : k \in Some
  <2>. HIDE DEF Some
  <2>1. \A k \in 0..(n - 1) : k \in Some => k + 1 \in Some
    BY <1>2
  <2>. QED  BY <1>1, <2>1, NumberInduction
<1>4. n \in 0..n
  OBVIOUS
<1>. QED  BY <1>3, <1>4

(* The metres of a walk are those of its steps, one after the other.       *)
LEMMA MetresInTurn ==
  ASSUME NEW w \in Walks
  PROVE  \E h : MetresUpTo(w, h)
<1>. DEFINE n == Len(w)
            h == CHOOSE g : Sums(g, w, n)
            Good == {k \in 0..(n - 1) : h[k + 1] \in Nat}
<1>1. n \in Nat \ {0} /\ \A i \in 1..n : w[i] \in Places
  BY WalkShape
<1>2. Sums(h, w, n)
  BY <1>1, SumsAreThere
<1>3. WalkMetres[w] = h[n]
  BY Zenon DEF WalkMetres, Sums
<1>. HIDE DEF h, n
<1>4. \A k \in 1..n : h[k] = IF k = 1 THEN 0 ELSE h[k - 1] + Metres[w[k - 1]][w[k]]
  BY <1>2 DEF Sums
<1>5. h[1] = 0 /\ \A k \in 2..n : h[k] = h[k - 1] + Metres[w[k - 1]][w[k]]
  BY <1>1, <1>4
<1>6. 0 \in Good
  BY <1>1, <1>5
<1>7. ASSUME NEW k \in 0..(n - 1 - 1), k \in Good PROVE k + 1 \in Good
  <2>1. k + 1 \in 0..(n - 1) /\ k + 2 \in 2..n /\ k + 1 \in 1..n /\ k + 2 \in 1..n /\ k + 2 - 1 = k + 1
        /\ k + 1 + 1 = k + 2
    BY <1>1
  <2>2. h[k + 2] = h[k + 1] + Metres[w[k + 1]][w[k + 2]]
    BY <1>5, <2>1
  <2>3. Metres[w[k + 1]][w[k + 2]] \in Nat
    BY <1>1, <2>1, MetresAreMetric
  <2>. QED  BY <1>7, <2>1, <2>2, <2>3
<1>8. \A k \in 0..(n - 1) : k \in Good
  <2>. HIDE DEF Good
  <2>1. n - 1 \in Nat /\ \A k \in 0..(n - 1 - 1) : k \in Good => k + 1 \in Good
    BY <1>1, <1>7
  <2>. QED  BY <1>6, <2>1, NumberInduction
<1>9. \A k \in 1..n : h[k] \in Nat
  <2>. SUFFICES ASSUME NEW k \in 1..n PROVE h[k] \in Nat
    OBVIOUS
  <2>1. k - 1 \in 0..(n - 1) /\ k - 1 + 1 = k
    BY <1>1
  <2>2. k - 1 \in Good
    BY <1>8, <2>1
  <2>. QED  BY <2>1, <2>2
<1>10. MetresUpTo(w, h)
  BY <1>3, <1>5, <1>9 DEF MetresUpTo, n
<1>. QED  BY <1>10

(* No way is shorter than the first priority that waits, unless the end    *)
(* was reached at less.                                                    *)
LEMMA NoWayIsShorter ==
  ASSUME SearchOk, NodesOk, reach \in SUBSET Places, NEW w \in Ways, NEW bound \in Nat,
         \A n \in Ids \ closed : Reached(n) => bound <= Priority(n)
  PROVE  (Reached(to) /\ cost[to] <= WalkMetres[w]) \/ bound <= WalkMetres[w]
<1>. DEFINE L == Len(w)
<1>1. /\ w \in Walks /\ w[1] = PlaceOf(from) /\ w[L] = PlaceOf(to)
      /\ \A i \in 1..(L - 1) : w[i + 1] \in links[w[i]]
  BY DEF Ways, WaysOf, PlaceOf
<1>2. L \in Nat \ {0}
  BY <1>1, WalkShape
<1>3. PICK h : MetresUpTo(w, h)
  BY <1>1, MetresInTurn
<1>4. from \in Ids /\ to \in Ids /\ cost[from] = 0 /\ cost \in [Ids -> Nat \cup {Infinite}]
  BY DEF SearchOk, SearchTypes
<1>. DEFINE Near(n, k) == /\ n \in Ids /\ PlaceOf(n) = w[k]
                          /\ (Reached(n) /\ cost[n] <= h[k]) \/ bound <= h[k] + Remaining(n, to)
            Good == {k \in 0..(L - 1) : \E n \in Ids : Near(n, k + 1)}
<1>. HIDE DEF L
<1>5. 0 \in Good
  <2>1. Near(from, 1)
    BY <1>1, <1>3, <1>4 DEF MetresUpTo, Reached, Infinite
  <2>. QED  BY <1>2, <1>4, <2>1
<1>6. ASSUME NEW k \in 0..(L - 1 - 1), k \in Good PROVE k + 1 \in Good
  <2>1. PICK n \in Ids : Near(n, k + 1)
    BY <1>6
  <2>2. /\ k + 1 \in 0..(L - 1) /\ k + 1 \in 1..(L - 1) /\ k + 1 \in 1..L /\ k + 2 \in 1..L /\ k + 2 \in 2..L
        /\ k + 1 + 1 = k + 2 /\ k + 2 - 1 = k + 1
    BY <1>2
  <2>3. w[k + 2] \in links[PlaceOf(n)]
    BY <1>1, <2>1, <2>2
  <2>4. PICK m \in Ids : PlaceOf(m) = w[k + 2] /\ m \in nodes[n].edges
    BY <2>3 DEF NodesOk
  <2>5. h[k + 2] = h[k + 1] + Between(n, m)
    <3>1. Between(n, m) = Metres[PlaceOf(n)][PlaceOf(m)]
      BY DEF Between, PlaceOf
    <3>2. h[k + 2] = h[k + 1] + Metres[w[k + 1]][w[k + 2]]
      BY <1>3, <2>2 DEF MetresUpTo, L
    <3>. QED  BY <2>1, <2>4, <3>1, <3>2
  <2>6. /\ h[k + 1] \in Nat /\ Between(n, m) \in Nat /\ Remaining(n, to) \in Nat /\ Remaining(m, to) \in Nat
        /\ Remaining(n, to) <= Between(n, m) + Remaining(m, to)
    <3>1. h[k + 1] \in Nat
      BY <1>3, <2>2 DEF MetresUpTo, L
    <3>. QED  BY <1>4, <3>1, NodesAreApart DEF Remaining
  <2>7. CASE bound <= h[k + 1] + Remaining(n, to)
    <3>1. bound <= h[k + 2] + Remaining(m, to)
      BY <2>5, <2>6, <2>7
    <3>. QED  BY <2>2, <2>4, <3>1
  <2>8. CASE Reached(n) /\ cost[n] <= h[k + 1] /\ n \in closed
    <3>1. Reached(m) /\ cost[m] <= cost[n] + Between(n, m)
      BY <2>4, <2>8 DEF SearchOk, ClosedAgree
    <3>2. cost[n] \in Nat /\ cost[m] \in Nat
      BY <1>4, <2>8, <3>1 DEF Reached
    <3>3. cost[m] <= h[k + 2]
      BY <2>5, <2>6, <2>8, <3>1, <3>2
    <3>. QED  BY <2>2, <2>4, <3>1, <3>3
  <2>9. CASE Reached(n) /\ cost[n] <= h[k + 1] /\ n \notin closed
    <3>1. bound <= cost[n] + Remaining(n, to) /\ cost[n] \in Nat
      BY <1>4, <2>9 DEF Priority, Reached
    <3>2. bound <= h[k + 2] + Remaining(m, to)
      BY <2>5, <2>6, <2>9, <3>1
    <3>. QED  BY <2>2, <2>4, <3>2
  <2>. QED  BY <2>1, <2>7, <2>8, <2>9
<1>7. L - 1 \in Good
  <2>. HIDE DEF Good
  <2>1. L - 1 \in Nat /\ \A k \in 0..(L - 1 - 1) : k \in Good => k + 1 \in Good
    BY <1>2, <1>6
  <2>2. \A k \in 0..(L - 1) : k \in Good
    BY <1>5, <2>1, NumberInduction
  <2>. QED  BY <2>1, <2>2
<1>8. PICK n \in Ids : Near(n, L)
  BY <1>2, <1>7
<1>9. n = to
  BY <1>1, <1>4, <1>8 DEF NodesOk
<1>10. h[L] \in Nat /\ WalkMetres[w] = h[L] /\ Remaining(to, to) = 0
  BY <1>2, <1>3, <1>4, NodesAreApart DEF MetresUpTo, L, Remaining
<1>. QED  BY <1>8, <1>9, <1>10

-----------------------------------------------------------------------------
(*                               The path                                  *)

\* one step back on the path
StepBack(p) == IF Head(p) = from THEN p ELSE <<came[Head(p)]>> \o p
GoesBack(g, n) == g = [k \in 0..n |-> IF k = 0 THEN <<to>> ELSE StepBack(g[k - 1])]

(* What was traced after k steps: reached nodes, each from the one before, *)
(* at ever greater cost, up to the end.                                    *)
TracedBy(p, k) ==
  /\ p \in Seq(Ids) /\ Len(p) >= 1 /\ p[Len(p)] = to
  /\ \A i \in 1..Len(p) : Reached(p[i])
  /\ \A i \in 1..(Len(p) - 1) : p[i + 1] # from /\ came[p[i + 1]] = p[i]
  /\ \A i, j \in 1..Len(p) : i < j => cost[p[i]] < cost[p[j]]
  /\ p[1] = from \/ Len(p) = k + 1

(* One turn of the tracing loop puts the place before the first.           *)
LEMMA OneStepBack ==
  ASSUME SearchOk, NodesOk, reach \in SUBSET Places, NEW k \in Nat, NEW p, TracedBy(p, k)
  PROVE  TracedBy(StepBack(p), k + 1)
<1>. DEFINE n == Len(p)
            c == came[p[1]]
            q == <<c>> \o p
<1>1. n \in Nat /\ n >= 1 /\ p \in Seq(Ids) /\ 1 \in 1..n /\ \A i \in 1..n : p[i] \in Ids
  <2>1. p \in Seq(Ids) /\ n >= 1
    BY DEF TracedBy
  <2>2. n \in Nat /\ \A i \in 1..n : p[i] \in Ids
    BY <2>1, LenProperties, ElementOfSeq
  <2>. QED  BY <2>1, <2>2
<1>2. Head(p) = p[1]
  BY <1>1
<1>3. CASE p[1] = from
  <2>1. StepBack(p) = p
    BY <1>2, <1>3 DEF StepBack
  <2>. QED  BY <1>3, <2>1 DEF TracedBy
<1>4. CASE p[1] # from
  <2>1. StepBack(p) = q
    BY <1>2, <1>4 DEF StepBack
  <2>2. /\ Reached(p[1]) /\ \A i \in 1..n : Reached(p[i])
        /\ \A i, j \in 1..n : i < j => cost[p[i]] < cost[p[j]]
        /\ \A i \in 1..(n - 1) : p[i + 1] # from /\ came[p[i + 1]] = p[i]
        /\ n = k + 1 /\ p[n] = to
    BY <1>1, <1>4 DEF TracedBy
  <2>3. c \in closed /\ c # p[1] /\ cost[p[1]] = cost[c] + Between(c, p[1])
    BY <1>1, <1>4, <2>2 DEF SearchOk, CameAgrees
  <2>4. c \in Ids /\ Reached(c) /\ \A x \in Ids : Reached(x) => cost[x] \in Nat
    BY <2>3 DEF SearchOk, SearchTypes, ClosedAgree, Reached
  <2>5. cost[c] < cost[p[1]] /\ cost[c] \in Nat
    <3>1. Between(c, p[1]) \in Nat /\ Between(c, p[1]) # 0
      BY <1>1, <2>3, <2>4, NodesAreApart
    <3>. QED  BY <2>3, <2>4, <3>1
  <2>6. /\ q \in Seq(Ids) /\ Len(q) = n + 1 /\ q[1] = c
        /\ \A i \in 2..(n + 1) : q[i] = p[i - 1]
    <3>1. <<c>> \in Seq(Ids) /\ Len(<<c>>) = 1 /\ <<c>>[1] = c
      BY <2>4
    <3>2. /\ q \in Seq(Ids) /\ Len(q) = 1 + n
          /\ \A i \in 1..(1 + n) : q[i] = IF i <= 1 THEN <<c>>[i] ELSE p[i - 1]
      BY <1>1, <3>1, ConcatProperties
    <3>. HIDE DEF q, c, n
    <3>3. 1 \in 1..(1 + n) /\ 1 + n = n + 1
      BY <1>1
    <3>4. q[1] = c
      BY <3>1, <3>2, <3>3
    <3>5. ASSUME NEW i \in 2..(n + 1) PROVE q[i] = p[i - 1]
      <4>1. i \in 1..(1 + n) /\ ~ (i <= 1)
        BY <1>1
      <4>. QED  BY <3>2, <4>1
    <3>. QED  BY <3>2, <3>3, <3>4, <3>5
  <2>. HIDE DEF q, c, n
  <2>7. \A i \in 1..(n + 1) : i = 1 \/ (i \in 2..(n + 1) /\ i - 1 \in 1..n)
    BY <1>1
  <2>8. \A i \in 1..(n + 1) : Reached(q[i])
    BY <2>2, <2>4, <2>6, <2>7
  <2>9. ASSUME NEW i \in 1..n PROVE q[i + 1] # from /\ came[q[i + 1]] = q[i]
    <3>1. q[i + 1] = p[i]
      BY <1>1, <2>6
    <3>2. CASE i = 1
      BY <1>4, <2>6, <3>1, <3>2 DEF c
    <3>3. CASE i # 1
      <4>1. i - 1 \in 1..(n - 1) /\ i - 1 + 1 = i /\ i \in 2..(n + 1)
        BY <1>1, <3>3
      <4>2. p[i] # from /\ came[p[i]] = p[i - 1]
        BY <2>2, <4>1
      <4>. QED  BY <2>6, <3>1, <4>1, <4>2
    <3>. QED  BY <3>2, <3>3
  <2>10. ASSUME NEW i \in 1..(n + 1), NEW j \in 1..(n + 1), i < j PROVE cost[q[i]] < cost[q[j]]
    <3>1. j \in 2..(n + 1) /\ j - 1 \in 1..n /\ q[j] = p[j - 1]
      BY <1>1, <2>6, <2>10
    <3>2. cost[p[j - 1]] \in Nat /\ cost[p[1]] \in Nat
      BY <1>1, <2>2, <2>4, <3>1
    <3>3. CASE i = 1
      <4>1. cost[q[i]] < cost[p[1]] /\ cost[q[i]] \in Nat
        BY <2>5, <2>6, <3>3
      <4>2. cost[p[1]] <= cost[p[j - 1]]
        <5>1. CASE j - 1 = 1
          BY <3>2, <5>1
        <5>2. CASE j - 1 # 1
          <6>1. 1 < j - 1
            BY <3>1, <5>2
          <6>. QED  BY <1>1, <2>2, <3>1, <3>2, <6>1
        <5>. QED  BY <5>1, <5>2
      <4>. QED  BY <3>1, <3>2, <4>1, <4>2
    <3>4. CASE i # 1
      <4>1. i \in 2..(n + 1) /\ i - 1 \in 1..n /\ q[i] = p[i - 1] /\ i - 1 < j - 1
        BY <1>1, <2>6, <2>10, <3>4
      <4>. QED  BY <2>2, <3>1, <4>1
    <3>. QED  BY <3>3, <3>4
  <2>11. q[n + 1] = to
    <3>1. n + 1 \in 2..(n + 1) /\ n + 1 - 1 = n
      BY <1>1
    <3>. QED  BY <2>2, <2>6, <3>1
  <2>12. Len(q) >= 1 /\ Len(q) - 1 = n /\ Len(q) = k + 1 + 1
    BY <1>1, <2>2, <2>6
  <2>13. TracedBy(q, k + 1)
    BY <2>6, <2>8, <2>9, <2>10, <2>11, <2>12 DEF TracedBy
  <2>. QED  BY <2>1, <2>13
<1>. QED  BY <1>3, <1>4

(* There is such a function.                                               *)
LEMMA BackIsThere ==
  ASSUME NEW n \in Nat
  PROVE  \E g : GoesBack(g, n)
<1>. DEFINE Some == {k \in 0..n : \E g : GoesBack(g, k)}
<1>1. 0 \in Some
  <2>1. \A j \in 0..0 : j = 0
    OBVIOUS
  <2>2. GoesBack([j \in 0..0 |-> <<to>>], 0)
    BY <2>1 DEF GoesBack
  <2>. QED  BY <2>2
<1>2. ASSUME NEW k \in 0..(n - 1), k \in Some PROVE k + 1 \in Some
  <2>1. PICK g : GoesBack(g, k)
    BY <1>2
  <2>2. \A j \in 0..k : g[j] = IF j = 0 THEN <<to>> ELSE StepBack(g[j - 1])
    BY <2>1 DEF GoesBack
  <2>. DEFINE f == [j \in 0..(k + 1) |-> IF j = k + 1 THEN StepBack(g[k]) ELSE g[j]]
  <2>3. ASSUME NEW j \in 0..(k + 1) PROVE f[j] = IF j = 0 THEN <<to>> ELSE StepBack(f[j - 1])
    <3>1. CASE j = k + 1
      <4>1. f[j] = StepBack(g[k]) /\ f[k] = g[k]
        BY <3>1
      <4>2. j # 0 /\ j - 1 = k
        BY <3>1
      <4>. HIDE DEF f
      <4>. QED  BY <3>1, <4>1, <4>2
    <3>2. CASE j # k + 1
      <4>1. j \in 0..k /\ (j # 0 => j - 1 \in 0..(k + 1) /\ j - 1 # k + 1)
        BY <3>2
      <4>2. f[j] = g[j] /\ (j # 0 => f[j - 1] = g[j - 1])
        BY <3>2, <4>1
      <4>. HIDE DEF f
      <4>. QED  BY <2>2, <4>1, <4>2
    <3>. QED  BY <3>1, <3>2
  <2>4. GoesBack(f, k + 1)
    <3>1. f = [j \in 0..(k + 1) |-> f[j]]
      OBVIOUS
    <3>. HIDE DEF f
    <3>. QED  BY <2>3, <3>1 DEF GoesBack
  <2>5. k + 1 \in 0..n
    OBVIOUS
  <2>. HIDE DEF f
  <2>. QED  BY <2>4, <2>5
<1>3. \A k \in 0..n : k \in Some
  <2>. HIDE DEF Some
  <2>1. \A k \in 0..(n - 1) : k \in Some => k + 1 \in Some
    BY <1>2
  <2>. QED  BY <1>1, <2>1, NumberInduction
<1>4. n \in 0..n
  OBVIOUS
<1>. QED  BY <1>3, <1>4

(* The trace leads from the first node to the end.                         *)
LEMMA TraceIsWhole ==
  ASSUME SearchOk, NodesOk, reach \in SUBSET Places, Reached(to)
  PROVE  \E k \in Nat : TracedBy(Traced, k) /\ Traced[1] = from
<1>. DEFINE n == Len(nodes)
            f == CHOOSE g : GoesBack(g, n)
            Good == {k \in 0..n : TracedBy(f[k], k)}
<1>1. n \in Nat /\ n = Cardinality(reach) /\ Ids = 1..n /\ IsFiniteSet(Ids) /\ Cardinality(Ids) = n
  <2>1. n = Cardinality(reach) /\ Cardinality(reach) \in Nat /\ Ids = 1..Cardinality(reach)
    BY NumbersAreNew DEF NodesOk
  <2>2. n \in Nat /\ Ids = 1..n
    BY <2>1
  <2>. QED  BY <2>1, <2>2, FS_Interval, CountIsInterval
<1>2. GoesBack(f, n)
  BY <1>1, BackIsThere
<1>3. Traced = f[n]
  BY Zenon DEF Traced, GoesBack, StepBack
<1>. HIDE DEF f, n
<1>4. \A k \in 0..n : f[k] = IF k = 0 THEN <<to>> ELSE StepBack(f[k - 1])
  BY <1>2 DEF GoesBack
<1>5. 0 \in Good
  <2>1. 0 \in 0..n
    BY <1>1
  <2>2. f[0] = <<to>> /\ to \in Ids
    BY <1>4, <2>1 DEF SearchOk, SearchTypes
  <2>3. <<to>> \in Seq(Ids) /\ Len(<<to>>) = 1 /\ <<to>>[1] = to
    BY <2>2
  <2>4. TracedBy(<<to>>, 0)
    BY <2>3 DEF TracedBy
  <2>. QED  BY <2>1, <2>2, <2>4
<1>6. ASSUME NEW k \in 0..(n - 1), k \in Good PROVE k + 1 \in Good
  <2>1. k + 1 \in 0..n /\ k + 1 # 0 /\ k + 1 - 1 = k /\ k \in Nat
    BY <1>1
  <2>2. f[k + 1] = StepBack(f[k])
    BY <1>4, <2>1
  <2>3. TracedBy(StepBack(f[k]), k + 1)
    BY <1>6, <2>1, OneStepBack
  <2>. QED  BY <2>1, <2>2, <2>3
<1>7. TracedBy(f[n], n)
  <2>. HIDE DEF Good
  <2>1. \A k \in 0..(n - 1) : k \in Good => k + 1 \in Good
    BY <1>6
  <2>2. \A k \in 0..n : k \in Good
    BY <1>1, <1>5, <2>1, NumberInduction
  <2>3. n \in 0..n
    BY <1>1
  <2>. QED  BY <2>2, <2>3 DEF Good
<1>8. ASSUME f[n][1] # from PROVE FALSE
  <2>. DEFINE p == f[n]
  <2>. HIDE DEF p
  <2>1. p \in Seq(Ids) /\ Len(p) = n + 1 /\ \A i, j \in 1..Len(p) : i < j => cost[p[i]] < cost[p[j]]
    BY <1>7, <1>8 DEF TracedBy, p
  <2>2. p \in [1..(n + 1) -> Ids] /\ \A i \in 1..(n + 1) : p[i] \in Ids
    BY <2>1, LenProperties
  <2>3. IsFiniteSet(1..(n + 1)) /\ Cardinality(1..(n + 1)) = n + 1
    <3>1. n + 1 \in Nat
      BY <1>1
    <3>2. IsFiniteSet(1..(n + 1))
      BY <3>1, FS_Interval
    <3>. QED  BY <3>1, <3>2, CountIsInterval
  <2>4. Cardinality(Ids) < Cardinality(1..(n + 1))
    BY <1>1, <2>3
  <2>5. PICK i \in 1..(n + 1), j \in 1..(n + 1) : i # j /\ p[i] = p[j]
    BY <1>1, <2>2, <2>3, <2>4, FS_PigeonHole
  <2>6. i < j \/ j < i
    BY <1>1, <2>5
  <2>7. \A x \in Nat : ~ (x < x)
    OBVIOUS
  <2>8. cost[p[i]] \in Nat
    BY <1>7, <2>1, <2>2 DEF TracedBy, Reached, SearchOk, SearchTypes, p
  <2>. QED  BY <2>1, <2>5, <2>6, <2>7, <2>8
<1>. QED  BY <1>1, <1>3, <1>7, <1>8

\* the answer of PathIsShortest, for a path
PlacesOf(p) == [i \in DOMAIN p |-> nodes[p[i]].place]
Best(p) == PlacesOf(p) \in Ways /\ \A w \in Ways : WalkMetres[PlacesOf(p)] <= WalkMetres[w]

(* The places of the trace are a way that costs what its end keeps.        *)
LEMMA TraceIsWay ==
  ASSUME SearchOk, NodesOk, reach \in SUBSET Places, NEW k \in Nat, NEW p, TracedBy(p, k), p[1] = from
  PROVE  PlacesOf(p) \in Ways /\ WalkMetres[PlacesOf(p)] = cost[to]
<1>. DEFINE n == Len(p)
            w == PlacesOf(p)
<1>1. n \in Nat \ {0} /\ DOMAIN p = 1..n /\ \A i \in 1..n : p[i] \in Ids
  <2>1. p \in Seq(Ids) /\ n >= 1
    BY DEF TracedBy
  <2>2. n \in Nat /\ DOMAIN p = 1..n /\ \A i \in 1..n : p[i] \in Ids
    BY <2>1, LenProperties, ElementOfSeq
  <2>. QED  BY <2>1, <2>2
<1>2. /\ \A i \in 1..n : Reached(p[i])
      /\ \A i \in 1..(n - 1) : p[i + 1] # from /\ came[p[i + 1]] = p[i]
      /\ \A i, j \in 1..n : i < j => cost[p[i]] < cost[p[j]]
      /\ p[n] = to /\ cost[from] = 0
  BY DEF TracedBy, SearchOk, SearchTypes
<1>. HIDE DEF n
<1>3. \A i \in 1..n : cost[p[i]] \in Nat
  BY <1>1, <1>2 DEF SearchOk, SearchTypes, Reached
<1>4. ASSUME NEW i \in 1..n, NEW j \in 1..n, p[i] = p[j] PROVE i = j
  <2>1. ~ (i < j) /\ ~ (j < i)
    <3>1. \A x \in Nat : ~ (x < x)
      OBVIOUS
    <3>. QED  BY <1>2, <1>3, <1>4, <3>1
  <2>. QED  BY <1>1, <2>1
<1>5. w = [i \in 1..n |-> PlaceOf(p[i])] /\ \A i \in 1..n : w[i] = PlaceOf(p[i]) /\ w[i] \in Places
  BY <1>1 DEF PlacesOf, PlaceOf, NodesOk
<1>. HIDE DEF w
<1>6. w \in [1..n -> Places]
  BY <1>5
<1>7. \A i, j \in 1..n : w[i] = w[j] => i = j
  BY <1>1, <1>4, <1>5 DEF NodesOk
<1>8. n \in 1..PlaceCount
  <2>1. PlaceCount \in Nat /\ n \in Nat
    BY <1>1, SizesArePositive
  <2>2. IsFiniteSet(Places) /\ Cardinality(Places) = PlaceCount /\ Cardinality(1..n) = n
    BY <2>1, FS_Interval, CountIsInterval DEF Places
  <2>3. w \in Injection(1..n, Places)
    BY <1>6, <1>7 DEF Injection, IsInjective
  <2>4. Cardinality(1..n) <= Cardinality(Places)
    BY <2>2, <2>3, FS_Injection
  <2>. QED  BY <1>1, <2>1, <2>2, <2>4
<1>9. w \in Walks
  BY <1>6, <1>7, <1>8 DEF Walks
<1>10. Len(w) = n
  <2>1. Len(w) \in Nat /\ DOMAIN w = 1..Len(w)
    BY <1>9, WalkShape
  <2>2. 1..Len(w) = 1..n /\ n \in Nat
    BY <1>1, <1>5, <2>1
  <2>. QED  BY <2>1, <2>2, CountIsInterval
<1>11. ASSUME NEW i \in 1..(n - 1)
       PROVE  /\ p[i + 1] \in nodes[p[i]].edges
              /\ cost[p[i + 1]] = cost[p[i]] + Between(p[i], p[i + 1])
  <2>1. i + 1 \in 1..n /\ i \in 1..n
    BY <1>1
  <2>2. p[i + 1] \in Ids \ {from} /\ Reached(p[i + 1]) /\ came[p[i + 1]] = p[i]
    BY <1>1, <1>2, <2>1
  <2>. QED  BY <2>2 DEF SearchOk, CameAgrees
<1>12. \A i \in 1..(n - 1) : w[i + 1] \in links[w[i]]
  <2>. SUFFICES ASSUME NEW i \in 1..(n - 1) PROVE w[i + 1] \in links[w[i]]
    OBVIOUS
  <2>1. i + 1 \in 1..n /\ i \in 1..n
    BY <1>1
  <2>2. p[i] \in Ids /\ p[i + 1] \in nodes[p[i]].edges
    BY <1>1, <1>11, <2>1
  <2>3. PlaceOf(p[i + 1]) \in links[PlaceOf(p[i])]
    BY <2>2 DEF NodesOk
  <2>. QED  BY <1>5, <2>1, <2>3
<1>13. w \in Ways
  <2>1. 1 \in 1..n /\ n \in 1..n
    BY <1>1
  <2>2. w[1] = nodes[from].place /\ w[n] = nodes[to].place
    BY <1>2, <1>5, <2>1 DEF PlaceOf
  <2>. QED  BY <1>9, <1>10, <1>12, <2>2 DEF Ways, WaysOf
<1>14. PICK h : MetresUpTo(w, h)
  BY <1>9, MetresInTurn
<1>. DEFINE Good == {i \in 0..(n - 1) : h[i + 1] = cost[p[i + 1]]}
<1>15. 0 \in Good
  BY <1>1, <1>2, <1>14 DEF MetresUpTo
<1>16. ASSUME NEW i \in 0..(n - 1 - 1), i \in Good PROVE i + 1 \in Good
  <2>1. i + 1 \in 0..(n - 1) /\ i + 2 \in 2..n /\ i + 1 \in 1..n /\ i + 2 \in 1..n /\ i + 2 - 1 = i + 1
        /\ i + 1 + 1 = i + 2 /\ i + 1 \in 1..(n - 1)
    BY <1>1
  <2>2. h[i + 2] = h[i + 1] + Metres[w[i + 1]][w[i + 2]]
    BY <1>10, <1>14, <2>1 DEF MetresUpTo
  <2>3. Metres[w[i + 1]][w[i + 2]] = Between(p[i + 1], p[i + 2])
    BY <1>5, <2>1 DEF Between, PlaceOf
  <2>4. cost[p[i + 2]] = cost[p[i + 1]] + Between(p[i + 1], p[i + 2])
    BY <1>11, <2>1
  <2>. QED  BY <1>16, <2>1, <2>2, <2>3, <2>4
<1>17. n - 1 \in Good
  <2>. HIDE DEF Good
  <2>1. n - 1 \in Nat /\ \A i \in 0..(n - 1 - 1) : i \in Good => i + 1 \in Good
    BY <1>1, <1>16
  <2>2. \A i \in 0..(n - 1) : i \in Good
    BY <1>15, <2>1, NumberInduction
  <2>. QED  BY <2>1, <2>2
<1>18. h[n] = cost[p[n]]
  BY <1>1, <1>17
<1>. QED  BY <1>2, <1>10, <1>13, <1>14, <1>18 DEF MetresUpTo, w

(* The end is taken off the queue: its trace is the shortest way.          *)
LEMMA EndIsBest ==
  ASSUME SearchOk, NodesOk, reach \in SUBSET Places, NEW entry, Least(entry), entry[2] = to
  PROVE  Best(Traced) /\ Traced # NoPath
<1>1. to \in Ids /\ to \notin closed
  BY DEF SearchOk, SearchTypes
<1>2. Reached(to) /\ cost[to] \in Nat /\ entry[1] \in Nat /\ entry[1] = Priority(to)
  BY <1>1, LeastIsCurrent
<1>3. Remaining(to, to) = 0
  BY <1>1, NodesAreApart DEF Remaining
<1>4. entry[1] = cost[to]
  BY <1>2, <1>3 DEF Priority
<1>5. \A n \in Ids \ closed : Reached(n) => cost[to] <= Priority(n)
  <2>. SUFFICES ASSUME NEW n \in Ids \ closed, Reached(n) PROVE cost[to] <= Priority(n)
    OBVIOUS
  <2>1. <<Priority(n), n>> \in open
    BY DEF SearchOk, QueueAgrees
  <2>. QED  BY <1>4, <2>1 DEF Least
<1>6. PICK k \in Nat : TracedBy(Traced, k) /\ Traced[1] = from
  BY <1>2, TraceIsWhole
<1>7. PlacesOf(Traced) \in Ways /\ WalkMetres[PlacesOf(Traced)] = cost[to]
  BY <1>6, TraceIsWay
<1>8. \A w \in Ways : cost[to] <= WalkMetres[w]
  BY <1>2, <1>5, NoWayIsShorter
<1>9. Traced # NoPath
  <2>1. Len(Traced) >= 1
    BY <1>6 DEF TracedBy
  <2>2. Len(<<>>) = 0
    BY EmptySeq
  <2>. QED  BY <2>1, <2>2 DEF NoPath
<1>. QED  BY <1>7, <1>8, <1>9 DEF Best

(* Nothing is left: there is no way.                                       *)
LEMMA NothingLeft ==
  ASSUME SearchOk, NodesOk, reach \in SUBSET Places, open = {}
  PROVE  Ways = {}
<1>1. to \in Ids /\ to \notin closed
  BY DEF SearchOk, SearchTypes
<1>2. \A n \in Ids \ closed : ~ Reached(n)
  BY DEF SearchOk, QueueAgrees
<1>. SUFFICES ASSUME NEW w \in Ways PROVE FALSE
  OBVIOUS
<1>3. w \in Walks
  BY DEF Ways, WaysOf
<1>4. WalkMetres[w] \in Nat
  <2>1. PICK h : MetresUpTo(w, h)
    BY <1>3, MetresInTurn
  <2>2. Len(w) \in 1..Len(w)
    BY <1>3, WalkShape
  <2>. QED  BY <2>1, <2>2 DEF MetresUpTo
<1>. DEFINE bound == WalkMetres[w] + 1
<1>5. bound \in Nat /\ ~ (bound <= WalkMetres[w])
  BY <1>4
<1>. HIDE DEF bound
<1>6. Reached(to)
  BY <1>2, <1>5, NoWayIsShorter
<1>. QED  BY <1>1, <1>2, <1>6

(* Who stands at the end already needs no way.                             *)
LEMMA StandingIsBest ==
  ASSUME NodesOk, reach \in SUBSET Places, NEW a \in Ids
  PROVE  /\ PlacesOf(<<a>>) \in WaysOf(a, a)
         /\ \A v \in WaysOf(a, a) : WalkMetres[PlacesOf(<<a>>)] <= WalkMetres[v]
<1>. DEFINE w == PlacesOf(<<a>>)
<1>1. w = [i \in 1..1 |-> PlaceOf(a)] /\ PlaceOf(a) \in Places
  <2>1. DOMAIN <<a>> = 1..1 /\ \A i \in 1..1 : <<a>>[i] = a
    OBVIOUS
  <2>. QED  BY <2>1 DEF PlacesOf, PlaceOf, NodesOk
<1>. HIDE DEF w
<1>2. w \in [1..1 -> Places] /\ w[1] = PlaceOf(a) /\ \A i, j \in 1..1 : i = j
  BY <1>1
<1>3. 1 \in 1..PlaceCount
  BY SizesArePositive
<1>4. w \in Walks
  BY <1>2, <1>3 DEF Walks
<1>5. Len(w) = 1
  <2>1. Len(w) \in Nat /\ DOMAIN w = 1..Len(w)
    BY <1>4, WalkShape
  <2>2. 1..Len(w) = 1..1 /\ 1 \in Nat
    BY <1>1, <2>1
  <2>. QED  BY <2>1, <2>2, CountIsInterval
<1>6. w \in WaysOf(a, a)
  <2>1. \A i \in 1..(Len(w) - 1) : w[i + 1] \in links[w[i]]
    BY <1>5
  <2>. QED  BY <1>2, <1>4, <1>5, <2>1 DEF WaysOf, PlaceOf
<1>7. WalkMetres[w] = 0
  <2>1. PICK h : MetresUpTo(w, h)
    BY <1>4, MetresInTurn
  <2>. QED  BY <1>5, <2>1 DEF MetresUpTo
<1>8. ASSUME NEW v \in WaysOf(a, a) PROVE WalkMetres[v] \in Nat
  <2>0. v \in Walks
    BY DEF Ways, WaysOf
  <2>1. PICK h : MetresUpTo(v, h)
    BY <2>0, MetresInTurn
  <2>2. Len(v) \in 1..Len(v)
    BY <2>0, WalkShape
  <2>. QED  BY <2>1, <2>2 DEF MetresUpTo
<1>9. 0 <= 0 /\ \A x \in Nat : 0 <= x
  OBVIOUS
<1>. QED  BY <1>6, <1>7, <1>8, <1>9 DEF w

-----------------------------------------------------------------------------
(* What the search answers is right, told in the state it answers.         *)
LEMMA Answered ==
  ASSUME UNCHANGED <<links, nodes, from, to>>,
         IF path' = NoPath THEN Ways = {} \/ expanded' > limit' ELSE Best(path')
  PROVE  PathIsShortest'
BY DEF PathIsShortest, Ways, WaysOf, Best, PlacesOf

(* A request keeps the invariant, the one that asks for its own place too. *)
LEMMA AskedKeep == NavInv /\ Asks => NavInv'
<1>. SUFFICES ASSUME NavInv, Asks PROVE NavInv'
  OBVIOUS
<1>1. /\ UNCHANGED <<links, reach, nodes, closed>> /\ NodesOk
      /\ links \in [Places -> SUBSET Places] /\ reach \in SUBSET Places
  BY DEF Asks, NavInv
<1>2. NodesOk'
  BY <1>1 DEF NodesOk, Ids, PlaceOf
<1>3. CASE from' = to'
  <2>1. PICK a \in Ids : from' = a /\ to' = a /\ path' = <<a>> /\ navStage' = "done"
    BY <1>3 DEF Asks, Ids
  <2>2. WaysOf(a, a)' = WaysOf(a, a) /\ PlacesOf(<<a>>)' = PlacesOf(<<a>>)
    BY <1>1 DEF WaysOf, PlacesOf
  <2>3. Ways' = WaysOf(a, a)
    BY <2>1, <2>2 DEF Ways
  <2>4. <<a>> # NoPath
    BY DEF NoPath
  <2>5. PathIsShortest'
    <3>1. Best(path)'
      BY <1>1, <2>1, <2>2, <2>3, StandingIsBest DEF Best
    <3>. QED  BY <2>1, <2>4, <3>1 DEF PathIsShortest, Ways, WaysOf, Best, PlacesOf
  <2>. QED  BY <1>1, <1>2, <2>1, <2>5 DEF NavInv
<1>4. CASE from' # to'
  <2>1. navStage' = "search"
    BY <1>4 DEF Asks
  <2>2. SearchOk'
    BY <1>4, AsksKeep
  <2>. QED  BY <1>1, <1>2, <2>1, <2>2 DEF NavInv, PathIsShortest
<1>. QED  BY <1>3, <1>4

(* A turn of the search keeps it.                                          *)
LEMMA IteratesKeep == NavInv /\ Iterates => NavInv'
<1>. SUFFICES ASSUME NavInv, Iterates PROVE NavInv'
  OBVIOUS
<1>1. /\ UNCHANGED <<links, reach, queue, nodes, from, to, limit>> /\ NodesOk /\ SearchOk
      /\ links \in [Places -> SUBSET Places] /\ reach \in SUBSET Places /\ navStage = "search"
  BY DEF Iterates, NavInv
<1>2. NodesOk'
  BY <1>1 DEF NodesOk, Ids, PlaceOf
<1>3. PICK entry : /\ Least(entry)
                   /\ \/ /\ entry[2] \in closed /\ open' = open \ {entry}
                         /\ UNCHANGED <<navStage, cost, came, closed, expanded, path>>
                      \/ /\ entry[2] \notin closed /\ entry[2] = to
                         /\ Ends(Traced) /\ UNCHANGED <<closed, expanded>>
                      \/ /\ entry[2] \notin closed /\ entry[2] # to
                         /\ expanded' = expanded + 1 /\ expanded + 1 > limit /\ Ends(NoPath)
                      \/ /\ entry[2] \notin closed /\ entry[2] # to
                         /\ closed' = closed \cup {entry[2]} /\ Expands(entry[2], open \ {entry})
  BY DEF Iterates, Least
<1>4. CASE entry[2] \in closed /\ open' = open \ {entry} /\ UNCHANGED <<navStage, cost, came, closed, expanded, path>>
  <2>1. SearchOk'
    BY <1>1, <1>3, <1>4, SkipKeeps
  <2>. QED  BY <1>1, <1>2, <1>4, <2>1 DEF NavInv, PathIsShortest
<1>5. CASE entry[2] = to /\ Ends(Traced)
  <2>1. navStage' = "done" /\ path' = Traced
    BY <1>5 DEF Ends
  <2>2. Best(path') /\ path' # NoPath
    BY <1>1, <1>3, <1>5, <2>1, EndIsBest
  <2>3. PathIsShortest'
    BY <1>1, <2>2, Answered
  <2>. QED  BY <1>1, <1>2, <2>1, <2>3 DEF NavInv
<1>6. CASE expanded' = expanded + 1 /\ expanded + 1 > limit /\ Ends(NoPath)
  <2>1. navStage' = "done" /\ path' = NoPath /\ expanded' > limit'
    BY <1>1, <1>6 DEF Ends
  <2>2. PathIsShortest'
    BY <1>1, <2>1, Answered
  <2>. QED  BY <1>1, <1>2, <2>1, <2>2 DEF NavInv
<1>7. CASE entry[2] \notin closed /\ entry[2] # to
           /\ closed' = closed \cup {entry[2]} /\ Expands(entry[2], open \ {entry})
  <2>1. navStage' = "search"
    BY <1>1, <1>7 DEF Expands
  <2>2. SearchOk'
    BY <1>1, <1>3, <1>7, ExpandKeeps
  <2>. QED  BY <1>1, <1>2, <2>1, <2>2 DEF NavInv, PathIsShortest
<1>. QED  BY <1>3, <1>4, <1>5, <1>6, <1>7

(* A search whose queue is empty keeps it.                                 *)
LEMMA GivesUpKeep == NavInv /\ GivesUp => NavInv'
<1>. SUFFICES ASSUME NavInv, GivesUp PROVE NavInv'
  OBVIOUS
<1>1. /\ UNCHANGED <<links, reach, queue, nodes, from, to, limit>> /\ NodesOk /\ SearchOk
      /\ links \in [Places -> SUBSET Places] /\ reach \in SUBSET Places
      /\ open = {} /\ navStage' = "done" /\ path' = NoPath
  BY DEF GivesUp, Ends, NavInv
<1>2. NodesOk'
  BY <1>1 DEF NodesOk, Ids, PlaceOf
<1>3. Ways = {}
  BY <1>1, NothingLeft
<1>4. PathIsShortest'
  BY <1>1, <1>3, Answered
<1>. QED  BY <1>1, <1>2, <1>4 DEF NavInv

(* Every step keeps it.                                                    *)
LEMMA NavStep == NavInv /\ [NavNext]_navVars => NavInv'
<1>. SUFFICES ASSUME NavInv, UNCHANGED navVars PROVE NavInv'
  BY FloodsKeep, CompactsKeep, AskedKeep, IteratesKeep, GivesUpKeep DEF NavNext
<1>1. UNCHANGED <<navStage, links, reach, queue, nodes, from, to, limit, cost, came, closed, open, expanded, path>>
  BY DEF navVars, searchVars
<1>2. NodesOk => NodesOk'
  BY <1>1 DEF NodesOk, Ids, PlaceOf
<1>3. Ids' = Ids /\ (\A x, y : Between(x, y)' = Between(x, y))
      /\ (\A n : Priority(n)' = Priority(n) /\ Reached(n)' = Reached(n))
  BY <1>1 DEF Ids, Between, Remaining, Priority, Reached
<1>4. SearchOk => SearchOk'
  BY <1>1, <1>3 DEF SearchOk, SearchTypes, QueueAgrees, ClosedAgree, CameAgrees
<1>5. FloodOk => FloodOk'
  BY <1>1 DEF FloodOk
<1>6. PathIsShortest'
  BY <1>1 DEF NavInv, PathIsShortest
<1>. QED  BY <1>1, <1>2, <1>4, <1>5, <1>6 DEF NavInv

(* For every graph, metric and pair of nodes, the path a bot gets is the   *)
(* shortest way of the sampled places, and it gets none only when there is *)
(* none or the search was cut short (NavGraph.build, findPath).            *)
THEOREM PathsAreShortest == NavSpec => []PathIsShortest
<1>1. NavInv => PathIsShortest
  BY DEF NavInv
<1>. QED  BY <1>1, NavStarts, NavStep, PTL DEF NavSpec
==============================================================================
