------------------------------ MODULE PaintProofs ------------------------------
(***************************************************************************)
(* Theorems about the paint of a room and its copy in a client, for every  *)
(* arena, every limit of a delta, of the buffer and of the queue, and any  *)
(* number of rounds, drops and messages on the way: the score is the area  *)
(* owned, a replica in step equals the room, and nobody waits for paint    *)
(* that will not come.                                                     *)
(*                                                                         *)
(* The argument.  What a painting has told and a copy has not heard are    *)
(* the deltas on their way from the number of the copy on.  A message or a *)
(* replica of number n is true when, if no delta is missing from n on,     *)
(* applying them gives the painting but for its pending cells, with the    *)
(* versions the deltas begin from.  Each delta tells the truth of the      *)
(* number it ends at, each snapshot of its own, and whoever applies what   *)
(* comes next stays true; a missing delta makes the claim void, never      *)
(* wrong.  That a replica which waits will not wait forever is a matter of *)
(* what the room has sent on this connection and of when it answers again. *)
(***************************************************************************)
EXTENDS PaintSync, FiniteSetTheorems, SequenceTheorems, WellFoundedInduction, TLAPS

-----------------------------------------------------------------------------
(*                     Numbers, sets and areas                             *)

(* Some numbers have a least one.                                          *)
LEMMA LeastNumber ==
  ASSUME NEW T \in SUBSET Nat, T # {}
  PROVE  \E x \in T : \A y \in T : x <= y
<1>1. PICK x \in T : \A y \in T : ~ (<<y, x>> \in OpToRel(<, Nat))
  BY NatLessThanWellFounded, WFMin
<1>2. \A y \in T : ~ (y < x)
  BY <1>1 DEF OpToRel
<1>. QED  BY <1>2

(* Induction over the numbers up to a bound, for the set of good ones.     *)
LEMMA NumberInduction ==
  ASSUME NEW n \in Nat, NEW Good, 0 \in Good,
         \A k \in 0..(n - 1) : k \in Good => k + 1 \in Good
  PROVE  \A k \in 0..n : k \in Good
<1>. DEFINE T == {k \in 0..n : k \notin Good}
<1>1. SUFFICES ASSUME T # {} PROVE FALSE
  OBVIOUS
<1>2. T \in SUBSET Nat
  OBVIOUS
<1>3. PICK x \in T : \A y \in T : x <= y
  <2>. HIDE DEF T
  <2>. QED  BY <1>1, <1>2, LeastNumber
<1>4. x # 0 /\ x \in 0..n
  OBVIOUS
<1>5. x - 1 \in 0..n /\ ~ (x <= x - 1) /\ x - 1 \in 0..(n - 1) /\ x - 1 + 1 = x
  BY <1>4
<1>6. x - 1 \in Good
  BY <1>3, <1>5
<1>. QED  BY <1>5, <1>6

(* Induction over the parts of a finite set, for the set of good ones.     *)
LEMMA SetInduction ==
  ASSUME NEW S, IsFiniteSet(S), NEW Good, {} \in Good,
         \A s \in SUBSET S : s # {} /\ (\A x \in s : s \ {x} \in Good) => s \in Good
  PROVE  \A s \in SUBSET S : s \in Good
<1>. DEFINE T == {s \in SUBSET S : s \notin Good}
<1>1. SUFFICES ASSUME T # {} PROVE FALSE
  OBVIOUS
<1>2. T \subseteq SUBSET S /\ IsWellFoundedOn(StrictSubsetOrdering(S), SUBSET S)
  BY FS_StrictSubsetOrderingWellFounded, FS_FiniteSubsetsOfFinite
<1>3. PICK s \in T : \A u \in T : ~ (<<u, s>> \in StrictSubsetOrdering(S))
  <2>. HIDE DEF T
  <2>. QED  BY <1>1, <1>2, WFMin
<1>4. ASSUME NEW x \in s PROVE s \ {x} \in Good
  <2>1. <<s \ {x}, s>> \in StrictSubsetOrdering(S)
    BY DEF StrictSubsetOrdering
  <2>. QED  BY <1>3, <2>1
<1>. QED  BY <1>4

-----------------------------------------------------------------------------
(*                               Areas                                     *)

(* The weights of the sets of some cells, if every cell counts once.       *)
Additive(total, cells) ==
  /\ total \in [SUBSET cells -> Nat]
  /\ total[{}] = 0
  /\ \A s \in SUBSET cells : \A x \in s : total[s] = Weight[x] + total[s \ {x}]

(* There are such weights.                                                 *)
LEMMA TotalsExist == \E total : Additive(total, Cells)
<1>. DEFINE Good == {D \in SUBSET Cells : \E total : Additive(total, D)}
<1>1. {} \in Good
  <2>. DEFINE none == [s \in SUBSET {} |-> 0]
  <2>1. Additive(none, {})
    BY DEF Additive
  <2>. QED  BY <2>1
<1>2. ASSUME NEW D \in SUBSET Cells, D # {}, \A x \in D : D \ {x} \in Good
      PROVE  D \in Good
  <2>1. PICK x \in D : TRUE
    BY <1>2
  <2>2. PICK F : Additive(F, D \ {x})
    BY <1>2
  <2>. DEFINE G == [s \in SUBSET D |-> IF x \in s THEN Weight[x] + F[s \ {x}] ELSE F[s]]
  <2>3. F \in [SUBSET (D \ {x}) -> Nat] /\ F[{}] = 0 /\ \A y \in Cells : Weight[y] \in Nat
    BY <2>2, PaintConstants DEF Additive
  <2>4. \A s \in SUBSET (D \ {x}) : \A y \in s : F[s] = Weight[y] + F[s \ {y}]
    BY <2>2 DEF Additive
  <2>5. G \in [SUBSET D -> Nat]
    <3>1. ASSUME NEW s \in SUBSET D PROVE G[s] \in Nat
      <4>1. s \ {x} \in SUBSET (D \ {x}) /\ (x \notin s => s \in SUBSET (D \ {x}))
        OBVIOUS
      <4>. QED  BY <4>1, <2>3
    <3>. QED  BY <3>1
  <2>6. G[{}] = 0
    BY <2>3
  <2>7. ASSUME NEW s \in SUBSET D, NEW y \in s PROVE G[s] = Weight[y] + G[s \ {y}]
    <3>1. CASE y = x
      BY <3>1
    <3>2. CASE y # x /\ x \notin s
      <4>1. s \in SUBSET (D \ {x}) /\ x \notin s \ {y}
        BY <3>2
      <4>. QED  BY <4>1, <2>4, <3>2
    <3>3. CASE y # x /\ x \in s
      <4>1. s \ {x} \in SUBSET (D \ {x}) /\ y \in s \ {x} /\ (s \ {x}) \ {y} = (s \ {y}) \ {x}
            /\ (s \ {y}) \ {x} \in SUBSET (D \ {x}) /\ x \in s \ {y}
        BY <3>3
      <4>2. F[s \ {x}] = Weight[y] + F[(s \ {y}) \ {x}]
        BY <4>1, <2>4
      <4>3. Weight[x] \in Nat /\ Weight[y] \in Nat /\ F[(s \ {y}) \ {x}] \in Nat
        BY <2>3, <4>1
      <4>4. G[s] = Weight[x] + F[s \ {x}] /\ G[s \ {y}] = Weight[x] + F[(s \ {y}) \ {x}]
        BY <4>1, <3>3
      <4>. HIDE DEF G
      <4>. QED  BY <4>2, <4>3, <4>4
    <3>. QED  BY <3>1, <3>2, <3>3
  <2>8. Additive(G, D)
    <3>. HIDE DEF G
    <3>. QED  BY <2>5, <2>6, <2>7 DEF Additive
  <2>. QED  BY <2>8
<1>3. \A s \in SUBSET Cells : s \in Good
  <2>. HIDE DEF Good
  <2>. QED  BY <1>1, <1>2, SetInduction, PaintConstants
<1>. QED  BY <1>3

(* The weight of a set of cells.                                           *)
Total == CHOOSE total : Additive(total, Cells)

(* The sum is one.                                                         *)
LEMMA TotalIsAdditive == Additive(Total, Cells)
BY TotalsExist DEF Total

(* The area of a team, a sum in whatever order, is the weight of its cells.*)
LEMMA AreaIsTotal ==
  ASSUME NEW owner, NEW t
  PROVE  AreaOf(owner, t) = Total[{x \in Scoring : owner[x] = t}]
<1>. DEFINE S == {x \in Scoring : owner[x] = t}
            Pick(s) == CHOOSE x \in s : TRUE
            Sums(g) == g = [s \in SUBSET S |-> IF s = {} THEN 0 ELSE Weight[Pick(s)] + g[s \ {Pick(s)}]]
            sums == [s \in SUBSET S |-> Total[s]]
<1>1. S \subseteq Cells /\ IsFiniteSet(S)
  BY PaintConstants, FS_Subset
<1>2. AreaOf(owner, t) = (CHOOSE g : Sums(g))[S]
  BY Zenon DEF AreaOf, MapThenSumSet, MapThenFoldSet
<1>3. \A s \in SUBSET S : s # {} => Pick(s) \in s
  OBVIOUS
<1>4. \A s \in SUBSET S : Total[s] = IF s = {} THEN 0 ELSE Weight[Pick(s)] + Total[s \ {Pick(s)}]
  <2>. HIDE DEF Pick
  <2>. QED  BY <1>1, <1>3, TotalIsAdditive DEF Additive
<1>5. Sums(sums)
  <2>1. \A s \in SUBSET S : s # {} => s \ {Pick(s)} \in SUBSET S
    OBVIOUS
  <2>2. \A s \in SUBSET S : sums[s] = IF s = {} THEN 0 ELSE Weight[Pick(s)] + sums[s \ {Pick(s)}]
    <3>. HIDE DEF Pick
    <3>. QED  BY <2>1, <1>4
  <2>. HIDE DEF Pick
  <2>. QED  BY <2>2
<1>6. ASSUME NEW g, Sums(g) PROVE g[S] = Total[S]
  <2>. DEFINE Good == {s \in SUBSET S : g[s] = Total[s]}
  <2>1. \A s \in SUBSET S : g[s] = IF s = {} THEN 0 ELSE Weight[Pick(s)] + g[s \ {Pick(s)}]
    <3>. HIDE DEF Pick
    <3>. QED  BY <1>6
  <2>2. {} \in Good
    BY <2>1, <1>4
  <2>3. ASSUME NEW s \in SUBSET S, s # {}, \A x \in s : s \ {x} \in Good PROVE s \in Good
    <3>1. g[s \ {Pick(s)}] = Total[s \ {Pick(s)}]
      BY <2>3, <1>3
    <3>. HIDE DEF Pick
    <3>. QED  BY <3>1, <2>1, <2>3, <1>4
  <2>4. \A s \in SUBSET S : s \in Good
    <3>. HIDE DEF Good, S
    <3>. QED  BY <2>2, <2>3, <1>1, SetInduction
  <2>. QED  BY <2>4
<1>7. Sums(CHOOSE g : Sums(g))
  <2>. HIDE DEF Sums
  <2>. QED  BY <1>5
<1>8. (CHOOSE g : Sums(g))[S] = Total[S]
  <2>. HIDE DEF Sums, S
  <2>. QED  BY <1>6, <1>7
<1>. QED  BY <1>2, <1>8

(* What changes when a cell changes hands.                                 *)
LEMMA AreaAfter ==
  ASSUME NEW owner \in Owners, NEW x \in Cells, NEW t \in Teams \cup {Neutral}, owner[x] # t,
         NEW u \in Teams
  PROVE  AreaOf([owner EXCEPT ![x] = t], u) =
           IF x \in Scoring
           THEN AreaOf(owner, u) + (IF u = t THEN Weight[x] ELSE 0)
                                 - (IF u = owner[x] THEN Weight[x] ELSE 0)
           ELSE AreaOf(owner, u)
<1>. DEFINE new == [owner EXCEPT ![x] = t]
            S == {y \in Scoring : owner[y] = u}
            N == {y \in Scoring : new[y] = u}
<1>1. S \in SUBSET Cells /\ N \in SUBSET Cells /\ Scoring \subseteq Cells
  BY PaintConstants
<1>2. new[x] = t /\ \A y \in Cells : y # x => new[y] = owner[y]
  BY DEF Owners
<1>3. AreaOf(owner, u) = Total[S] /\ AreaOf(new, u) = Total[N]
  BY AreaIsTotal
<1>4. Total[S] \in Nat /\ Total[N] \in Nat /\ Weight[x] \in Nat
  BY <1>1, TotalIsAdditive, PaintConstants DEF Additive
<1>. HIDE DEF new
<1>5. CASE x \notin Scoring \/ (u # t /\ u # owner[x])
  <2>1. S = N
    BY <1>1, <1>2, <1>5
  <2>. HIDE DEF S, N
  <2>. QED  BY <2>1, <1>3, <1>4, <1>5 DEF new
<1>6. CASE x \in Scoring /\ u = t
  <2>1. x \in N /\ N \ {x} = S
    BY <1>1, <1>2, <1>6
  <2>2. Total[N] = Weight[x] + Total[S]
    BY <1>1, <2>1, TotalIsAdditive DEF Additive
  <2>. HIDE DEF S, N
  <2>. QED  BY <2>2, <1>3, <1>4, <1>6 DEF new
<1>7. CASE x \in Scoring /\ u = owner[x]
  <2>1. x \in S /\ S \ {x} = N
    BY <1>1, <1>2, <1>7
  <2>2. Total[S] = Weight[x] + Total[N]
    BY <1>1, <2>1, TotalIsAdditive DEF Additive
  <2>. HIDE DEF S, N
  <2>. QED  BY <2>2, <1>3, <1>4, <1>7 DEF new
<1>. QED  BY <1>5, <1>6, <1>7

(* A blank arena has no area.                                              *)
LEMMA AreaOfBlank == Area([x \in Cells |-> Neutral]) = [t \in Teams |-> 0]
<1>1. ASSUME NEW t \in Teams PROVE AreaOf([x \in Cells |-> Neutral], t) = 0
  <2>1. {x \in Scoring : [y \in Cells |-> Neutral][x] = t} = {}
    BY PaintConstants DEF Teams, Neutral
  <2>. QED  BY <2>1, AreaIsTotal, TotalIsAdditive DEF Additive
<1>. QED  BY <1>1 DEF Area

(* An area is a number for each team.                                      *)
LEMMA AreaType ==
  ASSUME NEW owner
  PROVE  Area(owner) \in [Teams -> Int]
<1>1. ASSUME NEW t PROVE AreaOf(owner, t) \in Int
  <2>1. {x \in Scoring : owner[x] = t} \in SUBSET Cells
    BY PaintConstants
  <2>2. Total[{x \in Scoring : owner[x] = t}] \in Nat
    BY <2>1, TotalIsAdditive DEF Additive
  <2>. QED  BY <2>2, AreaIsTotal
<1>. QED  BY <1>1 DEF Area

(* What setOwner does to a painting: r comes of s when x goes to t.  The    *)
(* counters stay the areas.                                                *)
Changes(s, x, t, r) ==
  /\ r \in Painting
  /\ r.round = s.round /\ r.seq = s.seq /\ r.version = s.version /\ r.tracking = s.tracking
  /\ r.owner = IF Weight[x] = 0 THEN s.owner ELSE [s.owner EXCEPT ![x] = t]
  /\ r.pending =
       IF s.owner[x] # t /\ Weight[x] # 0 /\ s.tracking THEN s.pending \cup {x} ELSE s.pending
  /\ s.units = Area(s.owner) => r.units = Area(r.owner)

(* setOwner changes no more than that.                                     *)
LEMMA SetOwnerChanges ==
  ASSUME NEW s \in Painting, NEW x \in Cells, NEW t \in Teams \cup {Neutral}
  PROVE  Changes(s, x, t, SetOwner(s, x, t))
<1>1. CASE s.owner[x] = t \/ Weight[x] = 0
  <2>1. SetOwner(s, x, t) = s
    BY <1>1 DEF SetOwner
  <2>2. s.owner[x] = t => [s.owner EXCEPT ![x] = t] = s.owner
    BY DEF Painting, Owners
  <2>. QED  BY <1>1, <2>1, <2>2 DEF Painting, Changes
<1>2. CASE s.owner[x] # t /\ Weight[x] # 0
  <2>. DEFINE new == [s.owner EXCEPT ![x] = t]
              units == IF x \in Scoring THEN Units(s, x, t) ELSE s.units
              pending == IF s.tracking THEN s.pending \cup {x} ELSE s.pending
  <2>1. SetOwner(s, x, t) = [s EXCEPT !.owner = new, !.units = units, !.pending = pending]
    BY <1>2 DEF SetOwner, Painting
  <2>2. /\ s.round \in Nat /\ s.seq \in Nat /\ s.owner \in Owners /\ s.version \in Versions
        /\ s.units \in [Teams -> Int] /\ s.tracking \in BOOLEAN /\ s.pending \in SUBSET Cells
    BY DEF Painting
  <2>3. new \in Owners /\ pending \in SUBSET Cells
    BY <2>2 DEF Owners
  <2>4. units \in [Teams -> Int]
    <3>1. Weight[x] \in Int
      BY PaintConstants
    <3>. QED  BY <3>1, <2>2 DEF Units
  <2>. HIDE DEF new, units, pending
  <2>5. SetOwner(s, x, t) \in Painting
    BY <2>1, <2>3, <2>4, Zenon DEF Painting
  <2>6. /\ SetOwner(s, x, t).owner = new /\ SetOwner(s, x, t).units = units
        /\ SetOwner(s, x, t).pending = pending /\ SetOwner(s, x, t).round = s.round
        /\ SetOwner(s, x, t).seq = s.seq /\ SetOwner(s, x, t).version = s.version
        /\ SetOwner(s, x, t).tracking = s.tracking
    BY <2>1 DEF Painting
  <2>7. ASSUME s.units = Area(s.owner) PROVE units = Area(new)
    <3>1. ASSUME NEW u \in Teams PROVE units[u] = AreaOf(new, u)
      <4>1. AreaOf(new, u) = IF x \in Scoring
              THEN AreaOf(s.owner, u) + (IF u = t THEN Weight[x] ELSE 0)
                                    - (IF u = s.owner[x] THEN Weight[x] ELSE 0)
              ELSE AreaOf(s.owner, u)
        BY <1>2, <2>2, AreaAfter DEF new
      <4>2. s.units[u] = AreaOf(s.owner, u)
        BY <2>7 DEF Area
      <4>. QED  BY <4>1, <4>2 DEF units, Units
    <3>2. units = [u \in Teams |-> units[u]]
      BY <2>4
    <3>. QED  BY <3>1, <3>2 DEF Area
  <2>. QED  BY <1>2, <2>5, <2>6, <2>7 DEF new, pending, Changes
<1>. QED  BY <1>1, <1>2

-----------------------------------------------------------------------------
(*                          Applying a delta                               *)

CellNews == UNION {[X -> Teams \cup {Neutral}] : X \in SUBSET Cells}
Bases == UNION {[P -> Nat] : P \in SUBSET Chunks}

(* Owners with the news of some cells.                                     *)
Repainted(owner, cells, u) ==
  [x \in Cells |-> IF x \in u /\ Weight[x] # 0 THEN cells[x] ELSE owner[x]]

(* A painting with them, where nothing is tracked.                         *)
WithNews(s, cells, u) ==
  [s EXCEPT !.owner = Repainted(s.owner, cells, u), !.units = Area(Repainted(s.owner, cells, u))]

(* What is painted so is a painting.                                       *)
LEMMA RepaintedType ==
  ASSUME NEW s \in Painting, NEW cells \in CellNews, NEW u \in SUBSET DOMAIN cells
  PROVE  WithNews(s, cells, u) \in Painting /\ Repainted(s.owner, cells, u) \in Owners
<1>1. s.owner \in Owners
  BY DEF Painting
<1>2. \A x \in DOMAIN cells : cells[x] \in Teams \cup {Neutral}
  BY DEF CellNews
<1>3. Repainted(s.owner, cells, u) \in Owners
  BY <1>1, <1>2 DEF Repainted, Owners
<1>4. Area(Repainted(s.owner, cells, u)) \in [Teams -> Int]
  BY AreaType
<1>. QED  BY <1>3, <1>4, Zenon DEF WithNews, Painting

(* One more cell is one call of setOwner.                                  *)
LEMMA OneMoreCell ==
  ASSUME NEW s \in Painting, ~ s.tracking, NEW cells \in CellNews, NEW u \in SUBSET DOMAIN cells,
         NEW x \in u
  PROVE  SetOwner(WithNews(s, cells, u \ {x}), x, cells[x]) = WithNews(s, cells, u)
<1>. DEFINE w == WithNews(s, cells, u \ {x})
            v == WithNews(s, cells, u)
            r == SetOwner(w, x, cells[x])
<1>1. x \in Cells /\ cells[x] \in Teams \cup {Neutral} /\ u \ {x} \in SUBSET DOMAIN cells
  BY DEF CellNews
<1>2. w \in Painting /\ v \in Painting /\ w.owner \in Owners /\ s.owner \in Owners
  BY <1>1, RepaintedType DEF Painting
<1>3. /\ w.round = s.round /\ w.seq = s.seq /\ w.version = s.version /\ w.tracking = s.tracking
      /\ w.pending = s.pending /\ w.owner = Repainted(s.owner, cells, u \ {x})
      /\ w.units = Area(w.owner)
      /\ v.round = s.round /\ v.seq = s.seq /\ v.version = s.version /\ v.tracking = s.tracking
      /\ v.pending = s.pending /\ v.owner = Repainted(s.owner, cells, u)
      /\ v.units = Area(v.owner)
  BY DEF WithNews, Painting
<1>. HIDE DEF w, v
<1>4. v.owner = IF Weight[x] = 0 THEN w.owner ELSE [w.owner EXCEPT ![x] = cells[x]]
  <2>1. \A y \in Cells : y # x => v.owner[y] = w.owner[y]
    BY <1>3 DEF Repainted
  <2>2. v.owner[x] = IF Weight[x] = 0 THEN w.owner[x] ELSE cells[x]
    BY <1>1, <1>3 DEF Repainted
  <2>3. v.owner \in Owners
    BY <1>2 DEF Painting
  <2>. QED  BY <2>1, <2>2, <2>3, <1>1, <1>2 DEF Owners
<1>5. /\ r \in Painting /\ r.round = s.round /\ r.seq = s.seq /\ r.version = s.version
      /\ r.tracking = s.tracking /\ r.pending = s.pending /\ r.owner = v.owner
      /\ r.units = Area(r.owner)
  <2>1. Changes(w, x, cells[x], r)
    BY <1>1, <1>2, SetOwnerChanges
  <2>. HIDE DEF r
  <2>. QED  BY <2>1, <1>3, <1>4 DEF Changes
<1>6. r = v
  BY <1>2, <1>3, <1>5 DEF Painting
<1>. QED  BY <1>6 DEF r, v, w

(* A delta is applied cell by cell, in whatever order.                     *)
LEMMA ApplyDeltaPaints ==
  ASSUME NEW s \in Painting, ~ s.tracking, s.units = Area(s.owner),
         NEW d, d.cells \in CellNews, d.base \in Bases, d.to \in Nat
  PROVE  ApplyDelta(s, d) =
           [WithNews(s, d.cells, DOMAIN d.cells) EXCEPT
              !.version = [c \in Chunks |-> IF c \in DOMAIN d.base THEN d.base[c] + 1 ELSE @[c]],
              !.seq = d.to]
<1>. DEFINE D == DOMAIN d.cells
            Pick(u) == CHOOSE x \in u : TRUE
            Paints(g) == g = [u \in SUBSET D |->
                                IF u = {} THEN s ELSE SetOwner(g[u \ {Pick(u)}], Pick(u), d.cells[Pick(u)])]
            result == [u \in SUBSET D |-> WithNews(s, d.cells, u)]
<1>1. FoldSet(LAMBDA x, p : SetOwner(p, x, d.cells[x]), s, DOMAIN d.cells)
        = (CHOOSE g : Paints(g))[D]
  BY Zenon DEF FoldSet, MapThenFoldSet
<1>2. \A u \in SUBSET D : u # {} => Pick(u) \in u /\ u \ {Pick(u)} \in SUBSET D
  OBVIOUS
<1>3. IsFiniteSet(D)
  BY PaintConstants, FS_Subset DEF CellNews
<1>4. WithNews(s, d.cells, {}) = s
  <2>1. Repainted(s.owner, d.cells, {}) = s.owner
    BY DEF Repainted, Painting, Owners
  <2>2. [s EXCEPT !.owner = s.owner, !.units = s.units] = s
    BY DEF Painting
  <2>. QED  BY <2>1, <2>2 DEF WithNews
<1>. HIDE DEF Pick
<1>5. \A u \in SUBSET D : WithNews(s, d.cells, u) =
        IF u = {} THEN s ELSE SetOwner(WithNews(s, d.cells, u \ {Pick(u)}), Pick(u), d.cells[Pick(u)])
  BY <1>2, <1>4, OneMoreCell
<1>6. Paints(result)
  <2>1. \A u \in SUBSET D : result[u] =
          IF u = {} THEN s ELSE SetOwner(result[u \ {Pick(u)}], Pick(u), d.cells[Pick(u)])
    BY <1>2, <1>5
  <2>. QED  BY <2>1
<1>7. ASSUME NEW g, Paints(g) PROVE g[D] = result[D]
  <2>. DEFINE Good == {u \in SUBSET D : g[u] = result[u]}
  <2>1. /\ \A u \in SUBSET D : g[u] =
             IF u = {} THEN s ELSE SetOwner(g[u \ {Pick(u)}], Pick(u), d.cells[Pick(u)])
        /\ \A u \in SUBSET D : result[u] =
             IF u = {} THEN s ELSE SetOwner(result[u \ {Pick(u)}], Pick(u), d.cells[Pick(u)])
    <3>. HIDE DEF result
    <3>. QED  BY <1>6, <1>7
  <2>. HIDE DEF result, D
  <2>2. {} \in Good
    BY <2>1
  <2>3. ASSUME NEW u \in SUBSET D, u # {}, \A x \in u : u \ {x} \in Good PROVE u \in Good
    BY <2>1, <2>3, <1>2
  <2>4. \A u \in SUBSET D : u \in Good
    <3>. HIDE DEF Good
    <3>. QED  BY <2>2, <2>3, <1>3, SetInduction
  <2>. QED  BY <2>4
<1>8. (CHOOSE g : Paints(g))[D] = result[D]
  <2>1. Paints(CHOOSE g : Paints(g))
    <3>. HIDE DEF Paints
    <3>. QED  BY <1>6
  <2>. HIDE DEF Paints
  <2>. QED  BY <1>7, <2>1
<1>9. FoldSet(LAMBDA x, p : SetOwner(p, x, d.cells[x]), s, DOMAIN d.cells)
        = WithNews(s, d.cells, DOMAIN d.cells)
  BY <1>1, <1>8
<1>. QED  BY Zenon, <1>9 DEF ApplyDelta

-----------------------------------------------------------------------------
(*                              Folds                                      *)

(* The highest of some numbers, if it is known.                            *)
LEMMA HighestIsLast ==
  ASSUME NEW k \in Nat, NEW u \in SUBSET (1..(k + 1)), k + 1 \in u
  PROVE  Max(u) = k + 1
<1>1. \A y \in u : k + 1 >= y
  OBVIOUS
<1>2. Max(u) \in u /\ \A y \in u : Max(u) >= y
  BY <1>1 DEF Max
<1>3. Max(u) \in 1..(k + 1) /\ Max(u) >= k + 1
  BY <1>2
<1>. QED  BY <1>3

(* What a client makes of several messages.                                *)
HandleAll(a, q) == FoldLeft(Handle, a, q)
OneByOne(a, n, q, h) ==
  /\ h[0] = a
  /\ \A k \in 1..n : h[k] = Handle(h[k - 1], q[k])
  /\ HandleAll(a, q) = h[n]

(* FoldLeft goes through the messages one by one.                          *)
LEMMA HandleOneByOne ==
  ASSUME NEW a, NEW n \in Nat, NEW q, DOMAIN q = 1..n
  PROVE  \E h : OneByOne(a, n, q, h)
<1>. DEFINE Runs(g, D) == g = [u \in SUBSET D |->
                                 IF u = {} THEN a ELSE Handle(g[u \ {Max(u)}], q[Max(u)])]
            Good == {k \in 0..n : \E g : Runs(g, 1..k)}
            D == DOMAIN q
<1>1. FoldLeft(Handle, a, q) = (CHOOSE g : Runs(g, D))[D]
  BY Zenon DEF FoldLeft, MapThenFoldSet
<1>2. 0 \in Good
  <2>1. SUBSET (1..0) = {{}}
    OBVIOUS
  <2>2. Runs([u \in SUBSET (1..0) |-> a], 1..0)
    BY <2>1
  <2>. QED  BY <2>2
<1>3. ASSUME NEW k \in 0..(n - 1), k \in Good PROVE k + 1 \in Good
  <2>1. PICK g : Runs(g, 1..k)
    BY <1>3
  <2>2. \A u \in SUBSET (1..k) : g[u] = IF u = {} THEN a ELSE Handle(g[u \ {Max(u)}], q[Max(u)])
    BY <2>1
  <2>. DEFINE f == [u \in SUBSET (1..(k + 1)) |->
                      IF k + 1 \in u THEN Handle(g[u \ {k + 1}], q[k + 1]) ELSE g[u]]
  <2>3. ASSUME NEW u \in SUBSET (1..(k + 1))
        PROVE  f[u] = IF u = {} THEN a ELSE Handle(f[u \ {Max(u)}], q[Max(u)])
    <3>1. CASE k + 1 \in u
      <4>1. Max(u) = k + 1
        BY <3>1, HighestIsLast
      <4>2. u \ {k + 1} \in SUBSET (1..(k + 1))
        OBVIOUS
      <4>3. f[u \ {k + 1}] = g[u \ {k + 1}] /\ f[u] = Handle(g[u \ {k + 1}], q[k + 1])
        BY <4>2, <3>1
      <4>. HIDE DEF f
      <4>. QED  BY <3>1, <4>1, <4>3
    <3>2. CASE k + 1 \notin u
      <4>0. \A i \in 1..(k + 1) : i # k + 1 => i \in 1..k
        OBVIOUS
      <4>1. u \in SUBSET (1..k) /\ u \ {Max(u)} \in SUBSET (1..(k + 1)) /\ k + 1 \notin u \ {Max(u)}
        BY <3>2, <4>0
      <4>2. f[u] = g[u] /\ f[u \ {Max(u)}] = g[u \ {Max(u)}]
        BY <4>1, <3>2
      <4>. HIDE DEF f
      <4>. QED  BY <4>1, <4>2, <2>2
    <3>. QED  BY <3>1, <3>2
  <2>4. Runs(f, 1..(k + 1))
    BY <2>3
  <2>. HIDE DEF f, Runs
  <2>. QED  BY <2>4
<1>4. PICK g : Runs(g, 1..n)
  <2>. HIDE DEF Good
  <2>1. \A k \in 0..(n - 1) : k \in Good => k + 1 \in Good
    BY <1>3
  <2>2. \A k \in 0..n : k \in Good
    BY <1>2, <2>1, NumberInduction
  <2>3. n \in 0..n
    OBVIOUS
  <2>. HIDE DEF Runs
  <2>. QED  BY <2>2, <2>3 DEF Good
<1>5. PICK f : Runs(f, D) /\ FoldLeft(Handle, a, q) = f[D]
  <2>1. Runs(CHOOSE e : Runs(e, D), D)
    <3>. HIDE DEF Runs
    <3>. QED  BY <1>4
  <2>. HIDE DEF Runs
  <2>. QED  BY <1>1, <2>1
<1>6. \A u \in SUBSET (1..n) : f[u] = IF u = {} THEN a ELSE Handle(f[u \ {Max(u)}], q[Max(u)])
  BY <1>5
<1>. DEFINE h == [k \in 0..n |-> f[1..k]]
<1>7. h[0] = a
  <2>1. 1..0 = {} /\ 1..0 \in SUBSET (1..n)
    OBVIOUS
  <2>2. f[{}] = a
    BY <1>6, <2>1
  <2>. QED  BY <2>1, <2>2
<1>8. ASSUME NEW k \in 1..n PROVE h[k] = Handle(h[k - 1], q[k])
  <2>1. 1..k \in SUBSET (1..n) /\ k \in 1..k /\ (1..k) \ {k} = 1..(k - 1) /\ k - 1 \in 0..n
        /\ k - 1 \in Nat /\ k - 1 + 1 = k
    OBVIOUS
  <2>2. Max(1..k) = k
    BY <2>1, HighestIsLast
  <2>3. f[1..k] = Handle(f[(1..k) \ {k}], q[k])
    BY <1>6, <2>1, <2>2
  <2>4. h[k] = f[1..k] /\ h[k - 1] = f[1..(k - 1)]
    BY <2>1
  <2>. HIDE DEF h
  <2>. QED  BY <2>1, <2>3, <2>4
<1>9. h[n] = f[D]
  OBVIOUS
<1>. HIDE DEF h
<1>. QED  BY <1>5, <1>7, <1>8, <1>9 DEF HandleAll, OneByOne

-----------------------------------------------------------------------------
(*                       The parts of a flush                              *)

Identity == [c \in Chunks |-> c]

(* The chunks of a set, in ascending order, each of them once.             *)
LEMMA AscendingChunks ==
  ASSUME NEW S \in SUBSET Chunks
  PROVE  /\ Cardinality(S) \in Nat
         /\ Ascending(S, Identity) \in [1..Cardinality(S) -> S]
         /\ \A c \in S : \E i \in 1..Cardinality(S) : Ascending(S, Identity)[i] = c
         /\ \A i, j \in 1..Cardinality(S) :
              i # j => Ascending(S, Identity)[i] # Ascending(S, Identity)[j]
<1>. DEFINE InOrder(s, q) == /\ q \in [1..Cardinality(s) -> s]
                             /\ \A i, j \in DOMAIN q : i < j => Identity[q[i]] < Identity[q[j]]
            Good == {s \in SUBSET Chunks : \E q : InOrder(s, q)}
<1>0. \A s \in SUBSET Chunks : IsFiniteSet(s) /\ Cardinality(s) \in Nat /\ s \subseteq Nat
  BY PaintConstants, FS_Subset, FS_CardinalityType
<1>1. {} \in Good
  <2>1. Cardinality({}) = 0
    BY FS_EmptySet
  <2>2. InOrder({}, [i \in 1..0 |-> i])
    BY <2>1
  <2>. HIDE DEF InOrder
  <2>. QED  BY <2>2
<1>2. ASSUME NEW s \in SUBSET Chunks, s # {}, \A x \in s : s \ {x} \in Good PROVE s \in Good
  <2>1. PICK m \in s : \A y \in s : m <= y
    BY <1>0, <1>2, LeastNumber
  <2>2. PICK q : InOrder(s \ {m}, q)
    BY <1>2
  <2>. DEFINE n == Cardinality(s \ {m})
              p == [i \in 1..(n + 1) |-> IF i = 1 THEN m ELSE q[i - 1]]
  <2>3. Cardinality(s) = n + 1 /\ n \in Nat
    BY <1>0, FS_RemoveElement, FS_CardinalityType
  <2>4. /\ q \in [1..n -> s \ {m}] /\ DOMAIN q = 1..n
        /\ \A i, j \in 1..n : i < j => q[i] < q[j]
    <3>1. \A c \in s : Identity[c] = c
      BY DEF Identity
    <3>. QED  BY <2>2, <3>1
  <2>. HIDE DEF n
  <2>5. p \in [1..(n + 1) -> s]
    BY <2>3, <2>4
  <2>6. ASSUME NEW i \in 1..(n + 1), NEW j \in 1..(n + 1), i < j
        PROVE  p[i] < p[j]
    <3>0. j # 1 /\ j - 1 \in 1..n
      BY <2>3, <2>6
    <3>1. CASE i = 1
      <4>1. q[j - 1] \in s \ {m}
        BY <2>4, <3>0
      <4>2. m <= q[j - 1] /\ m # q[j - 1] /\ m \in Nat /\ q[j - 1] \in Nat
        BY <4>1, <2>1, <1>0
      <4>. QED  BY <4>2, <3>0, <3>1
    <3>2. CASE i # 1
      <4>1. i - 1 \in 1..n /\ i - 1 < j - 1
        BY <2>3, <2>6, <3>2
      <4>. QED  BY <4>1, <2>4, <3>0, <3>2
    <3>. QED  BY <3>1, <3>2
  <2>7. InOrder(s, p)
    <3>1. \A i \in 1..(n + 1) : Identity[p[i]] = p[i]
      BY <2>5 DEF Identity
    <3>2. DOMAIN p = 1..(n + 1)
      OBVIOUS
    <3>. HIDE DEF p
    <3>. QED  BY <2>3, <2>5, <2>6, <3>1, <3>2
  <2>. HIDE DEF InOrder
  <2>. QED  BY <2>7
<1>3. \A s \in SUBSET Chunks : s \in Good
  <2>. HIDE DEF Good
  <2>. QED  BY <1>1, <1>2, SetInduction, PaintConstants
<1>. DEFINE n == Cardinality(S)
            q == Ascending(S, Identity)
<1>4. InOrder(S, q)
  <2>1. \E e : InOrder(S, e)
    BY <1>3
  <2>. QED  BY <2>1 DEF Ascending
<1>5. n \in Nat /\ IsFiniteSet(S) /\ IsFiniteSet(1..n) /\ Cardinality(1..n) = n
  BY <1>0, FS_Interval
<1>6. q \in [1..n -> S] /\ \A i, j \in 1..n : i < j => q[i] < q[j]
  <2>1. \A c \in S : Identity[c] = c
    BY DEF Identity
  <2>. HIDE DEF q
  <2>. QED  BY <1>4, <2>1
<1>. HIDE DEF q, n
<1>7. \A i, j \in 1..n : i # j => q[i] # q[j]
  <2>. SUFFICES ASSUME NEW i \in 1..n, NEW j \in 1..n, i # j PROVE q[i] # q[j]
    OBVIOUS
  <2>1. i \in Nat /\ j \in Nat /\ q[i] \in Nat /\ q[j] \in Nat
    BY <1>0, <1>5, <1>6
  <2>2. i < j \/ j < i
    BY <2>1
  <2>3. q[i] < q[j] \/ q[j] < q[i]
    BY <2>2, <1>6
  <2>. QED  BY <2>1, <2>3
<1>8. q \in Injection(1..n, S)
  <2>1. \A i, j \in 1..n : q[i] = q[j] => i = j
    BY <1>7
  <2>. QED  BY <1>6, <2>1 DEF Injection, IsInjective
<1>9. q \in Surjection(1..n, S)
  BY <1>5, <1>8, FS_Injection DEF n
<1>. QED  BY <1>5, <1>6, <1>7, <1>9 DEF Surjection, q, n

(* The parts with one more chunk.                                          *)
PartsWith(s, parts, c) ==
  IF parts # <<>> /\ Cardinality(PendingIn(s, Last(parts) \cup {c})) <= DeltaMax
  THEN [parts EXCEPT ![Len(parts)] = @ \cup {c}]
  ELSE Append(parts, {c})

(* So does Parts with the chunks that changed.                             *)
LEMMA PartsOneByOne ==
  ASSUME NEW s, NEW n \in Nat, NEW q, q = Ascending(Touched(s), Identity), DOMAIN q = 1..n
  PROVE  \E h : /\ h[0] = <<>>
                /\ \A k \in 1..n : h[k] = PartsWith(s, h[k - 1], q[k])
                /\ Parts(s) = h[n]
<1>. DEFINE Runs(g, D) == g = [u \in SUBSET D |->
                                 IF u = {} THEN <<>> ELSE PartsWith(s, g[u \ {Max(u)}], q[Max(u)])]
            Good == {k \in 0..n : \E g : Runs(g, 1..k)}
            D == DOMAIN q
<1>1. Parts(s) = (CHOOSE g : Runs(g, D))[D]
  BY Zenon DEF Parts, FoldLeft, MapThenFoldSet, PartsWith, Identity
<1>2. 0 \in Good
  <2>1. SUBSET (1..0) = {{}}
    OBVIOUS
  <2>2. Runs([u \in SUBSET (1..0) |-> <<>>], 1..0)
    BY <2>1
  <2>. QED  BY <2>2
<1>3. ASSUME NEW k \in 0..(n - 1), k \in Good PROVE k + 1 \in Good
  <2>1. PICK g : Runs(g, 1..k)
    BY <1>3
  <2>2. \A u \in SUBSET (1..k) : g[u] = IF u = {} THEN <<>> ELSE PartsWith(s, g[u \ {Max(u)}], q[Max(u)])
    BY <2>1
  <2>. DEFINE f == [u \in SUBSET (1..(k + 1)) |->
                      IF k + 1 \in u THEN PartsWith(s, g[u \ {k + 1}], q[k + 1]) ELSE g[u]]
  <2>3. ASSUME NEW u \in SUBSET (1..(k + 1))
        PROVE  f[u] = IF u = {} THEN <<>> ELSE PartsWith(s, f[u \ {Max(u)}], q[Max(u)])
    <3>1. CASE k + 1 \in u
      <4>1. Max(u) = k + 1
        BY <3>1, HighestIsLast
      <4>2. u \ {k + 1} \in SUBSET (1..(k + 1))
        OBVIOUS
      <4>3. f[u \ {k + 1}] = g[u \ {k + 1}] /\ f[u] = PartsWith(s, g[u \ {k + 1}], q[k + 1])
        BY <4>2, <3>1
      <4>. HIDE DEF f
      <4>. QED  BY <3>1, <4>1, <4>3
    <3>2. CASE k + 1 \notin u
      <4>0. \A i \in 1..(k + 1) : i # k + 1 => i \in 1..k
        OBVIOUS
      <4>1. u \in SUBSET (1..k) /\ u \ {Max(u)} \in SUBSET (1..(k + 1)) /\ k + 1 \notin u \ {Max(u)}
        BY <3>2, <4>0
      <4>2. f[u] = g[u] /\ f[u \ {Max(u)}] = g[u \ {Max(u)}]
        BY <4>1, <3>2
      <4>. HIDE DEF f
      <4>. QED  BY <4>1, <4>2, <2>2
    <3>. QED  BY <3>1, <3>2
  <2>4. Runs(f, 1..(k + 1))
    BY <2>3
  <2>. HIDE DEF f, Runs
  <2>. QED  BY <2>4
<1>4. PICK g : Runs(g, 1..n)
  <2>. HIDE DEF Good
  <2>1. \A k \in 0..(n - 1) : k \in Good => k + 1 \in Good
    BY <1>3
  <2>2. \A k \in 0..n : k \in Good
    BY <1>2, <2>1, NumberInduction
  <2>3. n \in 0..n
    OBVIOUS
  <2>. HIDE DEF Runs
  <2>. QED  BY <2>2, <2>3 DEF Good
<1>5. PICK f : Runs(f, D) /\ Parts(s) = f[D]
  <2>1. Runs(CHOOSE e : Runs(e, D), D)
    <3>. HIDE DEF Runs
    <3>. QED  BY <1>4
  <2>. HIDE DEF Runs
  <2>. QED  BY <1>1, <2>1
<1>6. \A u \in SUBSET (1..n) : f[u] = IF u = {} THEN <<>> ELSE PartsWith(s, f[u \ {Max(u)}], q[Max(u)])
  BY <1>5
<1>. DEFINE h == [k \in 0..n |-> f[1..k]]
<1>7. h[0] = <<>>
  <2>1. 1..0 = {} /\ 1..0 \in SUBSET (1..n)
    OBVIOUS
  <2>2. f[{}] = <<>>
    BY <1>6, <2>1
  <2>. QED  BY <2>1, <2>2
<1>8. ASSUME NEW k \in 1..n PROVE h[k] = PartsWith(s, h[k - 1], q[k])
  <2>1. 1..k \in SUBSET (1..n) /\ k \in 1..k /\ (1..k) \ {k} = 1..(k - 1) /\ k - 1 \in 0..n
        /\ k - 1 \in Nat /\ k - 1 + 1 = k
    OBVIOUS
  <2>2. Max(1..k) = k
    BY <2>1, HighestIsLast
  <2>3. f[1..k] = PartsWith(s, f[(1..k) \ {k}], q[k])
    BY <1>6, <2>1, <2>2
  <2>4. h[k] = f[1..k] /\ h[k - 1] = f[1..(k - 1)]
    BY <2>1
  <2>. HIDE DEF h
  <2>. QED  BY <2>1, <2>3, <2>4
<1>9. h[n] = f[D]
  OBVIOUS
<1>. HIDE DEF h
<1>. QED  BY <1>5, <1>7, <1>8, <1>9

(* Every changed chunk is in exactly one part.                             *)
LEMMA PartsAreAPartition ==
  ASSUME NEW s \in Painting
  PROVE  /\ Parts(s) \in Seq(SUBSET Chunks)
         /\ \A k \in 1..Len(Parts(s)) : Parts(s)[k] \subseteq Touched(s)
         /\ \A c \in Touched(s) : \E k \in 1..Len(Parts(s)) : c \in Parts(s)[k]
         /\ \A k, l \in 1..Len(Parts(s)) : k # l => Parts(s)[k] \cap Parts(s)[l] = {}
<1>. DEFINE T == Touched(s)
            n == Cardinality(T)
            q == Ascending(T, Identity)
            Fine(parts, k) ==
              /\ parts \in Seq(SUBSET Chunks)
              /\ \A i \in 1..Len(parts) : \A c \in parts[i] : \E j \in 1..k : c = q[j]
              /\ \A j \in 1..k : \E i \in 1..Len(parts) : q[j] \in parts[i]
              /\ \A i, j \in 1..Len(parts) : i # j => parts[i] \cap parts[j] = {}
<1>1. T \in SUBSET Chunks
  BY PaintConstants DEF Touched, Painting
<1>2. /\ n \in Nat /\ q \in [1..n -> T] /\ \A c \in T : \E i \in 1..n : q[i] = c
      /\ \A i, j \in 1..n : i # j => q[i] # q[j]
  <2>. HIDE DEF T
  <2>. QED  BY <1>1, AscendingChunks
<1>. HIDE DEF n, q
<1>3. PICK h : h[0] = <<>> /\ (\A k \in 1..n : h[k] = PartsWith(s, h[k - 1], q[k])) /\ Parts(s) = h[n]
  BY <1>2, PartsOneByOne DEF q
<1>. DEFINE Good == {k \in 0..n : Fine(h[k], k)}
<1>4. 0 \in Good
  <2>1. Len(<<>>) = 0 /\ <<>> \in Seq(SUBSET Chunks) /\ 1..0 = {}
    OBVIOUS
  <2>2. Fine(<<>>, 0)
    BY <2>1
  <2>. HIDE DEF Fine
  <2>. QED  BY <1>2, <1>3, <2>2
<1>5. ASSUME NEW k \in 0..(n - 1), k \in Good PROVE k + 1 \in Good
  <2>. DEFINE old == h[k]
              c == q[k + 1]
              new == h[k + 1]
              m == Len(old)
  <2>0. k + 1 \in 1..n /\ k + 1 - 1 = k /\ k + 1 \in 0..n /\ k \in Nat /\ 1..k \subseteq 1..n
    BY <1>2
  <2>1. new = PartsWith(s, old, c) /\ c \in T /\ c \in Chunks
    BY <2>0, <1>1, <1>2, <1>3
  <2>2. Fine(old, k)
    BY <1>5
  <2>3. m \in Nat /\ old \in Seq(SUBSET Chunks) /\ \A i \in 1..m : old[i] \in SUBSET Chunks
    BY <2>2
  <2>4. \A i \in 1..m : c \notin old[i]
    <3>1. \A j \in 1..k : q[j] # c
      <4>1. \A j \in 1..k : j # k + 1 /\ j \in 1..n
        BY <2>0
      <4>. QED  BY <4>1, <2>0, <1>2
    <3>. QED  BY <2>2, <3>1
  <2>. HIDE DEF old, new, c
  <2>5. CASE old # <<>> /\ new = [old EXCEPT ![m] = @ \cup {c}]
    <3>1. m \in 1..m /\ Len(new) = m /\ new \in Seq(SUBSET Chunks)
      <4>1. m # 0
        BY <2>3, <2>5, EmptySeq
      <4>2. m \in 1..m
        BY <2>3, <4>1
      <4>. QED  BY <4>2, <2>1, <2>3, <2>5
    <3>2. /\ new[m] = old[m] \cup {c}
          /\ \A i \in 1..m : i # m => new[i] = old[i]
      <4>1. DOMAIN old = 1..m
        BY <2>3
      <4>. QED  BY <2>5, <3>1, <4>1
    <3>3. \A i \in 1..Len(new) : \A x \in new[i] : \E j \in 1..(k + 1) : x = q[j]
      <4>1. \A i \in 1..m : \A x \in old[i] : \E j \in 1..(k + 1) : x = q[j]
        BY <2>0, <2>2
      <4>2. k + 1 \in 1..(k + 1) /\ c = q[k + 1]
        BY <2>0 DEF c
      <4>. QED  BY <3>1, <3>2, <4>1, <4>2
    <3>4. \A j \in 1..(k + 1) : \E i \in 1..Len(new) : q[j] \in new[i]
      <4>1. \A j \in 1..k : \E i \in 1..m : q[j] \in old[i]
        BY <2>2
      <4>2. \A j \in 1..k : \E i \in 1..m : q[j] \in new[i]
        BY <4>1, <3>2
      <4>3. \A j \in 1..(k + 1) : j \in 1..k \/ q[j] = c
        BY <2>0 DEF c
      <4>. QED  BY <3>1, <3>2, <4>2, <4>3
    <3>5. \A i, j \in 1..Len(new) : i # j => new[i] \cap new[j] = {}
      <4>1. \A i, j \in 1..m : i # j => old[i] \cap old[j] = {}
        BY <2>2
      <4>. QED  BY <2>4, <3>1, <3>2, <4>1
    <3>. QED  BY <2>0, <3>1, <3>3, <3>4, <3>5 DEF new
  <2>6. CASE new = Append(old, {c})
    <3>1. Len(new) = m + 1 /\ new \in Seq(SUBSET Chunks) /\ new[m + 1] = {c}
          /\ \A i \in 1..m : new[i] = old[i]
      BY <2>1, <2>3, <2>6
    <3>2. \A i \in 1..(m + 1) : i \in 1..m \/ i = m + 1
      BY <2>3
    <3>3. \A i \in 1..Len(new) : \A x \in new[i] : \E j \in 1..(k + 1) : x = q[j]
      <4>1. \A i \in 1..m : \A x \in old[i] : \E j \in 1..(k + 1) : x = q[j]
        BY <2>0, <2>2
      <4>2. k + 1 \in 1..(k + 1) /\ c = q[k + 1]
        BY <2>0 DEF c
      <4>. QED  BY <3>1, <3>2, <4>1, <4>2
    <3>4. \A j \in 1..(k + 1) : \E i \in 1..Len(new) : q[j] \in new[i]
      <4>1. \A j \in 1..k : \E i \in 1..m : q[j] \in old[i]
        BY <2>2
      <4>2. \A j \in 1..k : \E i \in 1..m : q[j] \in new[i]
        BY <4>1, <3>1
      <4>3. \A j \in 1..(k + 1) : j \in 1..k \/ q[j] = c
        BY <2>0 DEF c
      <4>4. 1..m \subseteq 1..(m + 1) /\ m + 1 \in 1..(m + 1)
        BY <2>3
      <4>. QED  BY <3>1, <4>2, <4>3, <4>4
    <3>5. \A i, j \in 1..Len(new) : i # j => new[i] \cap new[j] = {}
      <4>1. \A i, j \in 1..m : i # j => old[i] \cap old[j] = {}
        BY <2>2
      <4>. QED  BY <2>4, <3>1, <3>2, <4>1
    <3>. QED  BY <2>0, <3>1, <3>3, <3>4, <3>5 DEF new
  <2>. QED  BY <2>1, <2>5, <2>6 DEF PartsWith
<1>6. n \in Good
  <2>1. \A k \in 0..(n - 1) : k \in Good => k + 1 \in Good
    BY <1>5
  <2>2. \A k \in 0..n : k \in Good
    <3>. HIDE DEF Good
    <3>. QED  BY <1>2, <1>4, <2>1, NumberInduction
  <2>3. n \in 0..n
    BY <1>2
  <2>. HIDE DEF Good
  <2>. QED  BY <2>2, <2>3
<1>7. Fine(Parts(s), n)
  BY <1>3, <1>6
<1>8. \A k \in 1..Len(Parts(s)) : Parts(s)[k] \subseteq T
  BY <1>2, <1>7
<1>9. \A c \in T : \E k \in 1..Len(Parts(s)) : c \in Parts(s)[k]
  BY <1>2, <1>7
<1>. QED  BY <1>7, <1>8, <1>9

-----------------------------------------------------------------------------
(*                    Messages, replicas and the truth                     *)

Paintable == {x \in Cells : Weight[x] # 0}

DeltaMsgs ==
  {d \in [kind : {"delta"}, round : Nat, from : Nat, to : Nat, base : Bases, cells : CellNews] :
     d.to = d.from + 1 /\ DOMAIN d.cells \subseteq Paintable}
Snapshots == [kind : {"snapshot"}, round : Nat, seq : Nat, owner : Owners, version : Versions]
Loadings == [kind : {"loading"}, round : Nat]
PaintMsgs == DeltaMsgs \cup Snapshots
Messages == PaintMsgs \cup Loadings

Replicas ==
  {r \in [state : Painting, status : {"awaiting", "synced"}, buffer : Seq(DeltaMsgs), expected : Nat] :
     ~ r.state.tracking /\ r.state.pending = {} /\ r.state.units = Area(r.state.owner)}

(* The numbers a message begins and ends at.                               *)
Lo(m) == IF m.kind = "delta" THEN m.from ELSE m.seq
Hi(m) == IF m.kind = "delta" THEN m.to ELSE m.seq
Ahead(m, S) == \A x \in S : x \in PaintMsgs /\ x.round = m.round => Hi(m) <= Lo(x)

(* What a painting p has told from number n on, of some messages S.        *)
Since(p, S, n) == {d \in S : d \in DeltaMsgs /\ d.round = p.round /\ d.from >= n}
Complete(p, L, n) == \A k \in n..(p.seq - 1) : \E d \in L : d.from = k

(* Owners and versions that become those of p with the deltas of L and     *)
(* what p has not told.                                                    *)
Faithful(p, L, owner, version) ==
  /\ \A x \in DOMAIN owner :
       x \notin p.pending /\ (\A d \in L : x \notin DOMAIN d.cells) => owner[x] = p.owner[x]
  /\ \A c \in DOMAIN version :
       (\A d \in L : c \notin DOMAIN d.base) => version[c] = p.version[c]
  /\ \A c \in DOMAIN version : \A d \in L :
       c \in DOMAIN d.base /\ (\A e \in L : e.from < d.from => c \notin DOMAIN e.base)
         => d.base[c] = version[c]
Bumped(base) == [c \in DOMAIN base |-> base[c] + 1]

TrueAt(p, S, n, owner, version) ==
  Complete(p, Since(p, S, n), n) => Faithful(p, Since(p, S, n), owner, version)

(* Each message, and a replica in step, tells the truth of its number.     *)
Truth(p, S) ==
  /\ \A m \in S : m \in Snapshots /\ m.round = p.round => TrueAt(p, S, m.seq, m.owner, m.version)
  /\ \A m \in S : m \in DeltaMsgs /\ m.round = p.round => TrueAt(p, S, m.to, m.cells, Bumped(m.base))
ReplicaTruth(p, S, r) ==
  r.status = "synced" /\ r.expected = p.round
    => TrueAt(p, S, r.state.seq, r.state.owner, r.state.version)

(* A replica is behind the painting and ahead of what is on its way.       *)
ReplicaOrder(p, S, r) ==
  /\ r.expected <= p.round
  /\ r.status = "synced" =>
       /\ r.state.round = r.expected
       /\ r.expected = p.round => r.state.seq <= p.seq
       /\ \A m \in S : m \in PaintMsgs /\ m.round = r.expected => r.state.seq <= Lo(m)
  /\ \A d \in Range(r.buffer) :
       /\ d.round <= p.round /\ (d.round = p.round => d.to <= p.seq)
       /\ \A m \in S : m \in PaintMsgs /\ m.round = d.round => d.to <= Lo(m)
ReplicaOk(p, S, r) == r \in Replicas /\ ReplicaOrder(p, S, r) /\ ReplicaTruth(p, S, r)

InStep(p, S, r) ==
  r.status = "synced" /\ r.expected = p.round /\ Complete(p, Since(p, S, r.state.seq), r.state.seq)
Known(p, S) ==
  \E m \in S : m \in Snapshots /\ m.round = p.round /\ Complete(p, Since(p, S, m.seq), m.seq)

-----------------------------------------------------------------------------
(* What applyDelta makes of a painting s.                                  *)
Applied(s, d, r) ==
  /\ r \in Painting
  /\ r.round = s.round /\ r.seq = d.to /\ r.tracking = s.tracking /\ r.pending = s.pending
  /\ r.owner = Repainted(s.owner, d.cells, DOMAIN d.cells)
  /\ r.version = [c \in Chunks |-> IF c \in DOMAIN d.base THEN d.base[c] + 1 ELSE s.version[c]]
  /\ r.units = Area(r.owner)

(* applyDelta does that.                                                   *)
LEMMA DeltaApplies ==
  ASSUME NEW s \in Painting, ~ s.tracking, s.units = Area(s.owner), NEW d \in DeltaMsgs
  PROVE  Applied(s, d, ApplyDelta(s, d))
<1>. DEFINE w == WithNews(s, d.cells, DOMAIN d.cells)
            v == [c \in Chunks |-> IF c \in DOMAIN d.base THEN d.base[c] + 1 ELSE s.version[c]]
<1>1. d.cells \in CellNews /\ d.base \in Bases /\ d.to \in Nat
  BY DEF DeltaMsgs
<1>2. w \in Painting
  BY <1>1, RepaintedType
<1>3. /\ w.round = s.round /\ w.version = s.version /\ w.tracking = s.tracking
      /\ w.pending = s.pending /\ w.owner = Repainted(s.owner, d.cells, DOMAIN d.cells)
      /\ w.units = Area(w.owner)
  BY DEF WithNews, Painting
<1>4. v \in Versions
  <2>1. \A c \in DOMAIN d.base : d.base[c] + 1 \in Nat
    BY <1>1 DEF Bases
  <2>2. \A c \in Chunks : s.version[c] \in Nat
    BY DEF Painting, Versions
  <2>. QED  BY <2>1, <2>2 DEF Versions
<1>5. ApplyDelta(s, d) =
        [w EXCEPT !.version = [c \in Chunks |-> IF c \in DOMAIN d.base THEN d.base[c] + 1 ELSE @[c]],
                  !.seq = d.to]
  BY <1>1, ApplyDeltaPaints
<1>. HIDE DEF w
<1>6. ApplyDelta(s, d) = [w EXCEPT !.version = v, !.seq = d.to]
  BY <1>2, <1>3, <1>5 DEF Painting
<1>. HIDE DEF v
<1>7. ApplyDelta(s, d) \in Painting
  BY <1>1, <1>2, <1>4, <1>6, Zenon DEF Painting
<1>8. /\ ApplyDelta(s, d).round = w.round /\ ApplyDelta(s, d).seq = d.to
      /\ ApplyDelta(s, d).tracking = w.tracking /\ ApplyDelta(s, d).pending = w.pending
      /\ ApplyDelta(s, d).owner = w.owner /\ ApplyDelta(s, d).units = w.units
      /\ ApplyDelta(s, d).version = v
  BY <1>2, <1>6 DEF Painting
<1>. QED  BY <1>3, <1>7, <1>8 DEF Applied, v

(* What a snapshot makes of a painting.                                    *)
LEMMA SnapshotApplies ==
  ASSUME NEW s \in Painting, NEW m \in Snapshots
  PROVE  /\ ApplySnapshot(s, m) \in Painting
         /\ ApplySnapshot(s, m).round = m.round /\ ApplySnapshot(s, m).seq = m.seq
         /\ ApplySnapshot(s, m).owner = m.owner /\ ApplySnapshot(s, m).version = m.version
         /\ ApplySnapshot(s, m).tracking = s.tracking /\ ApplySnapshot(s, m).pending = s.pending
         /\ ApplySnapshot(s, m).units = Area(ApplySnapshot(s, m).owner)
<1>1. Area(m.owner) \in [Teams -> Int]
  BY AreaType
<1>2. m.round \in Nat /\ m.seq \in Nat /\ m.owner \in Owners /\ m.version \in Versions
  BY DEF Snapshots
<1>. QED  BY <1>1, <1>2 DEF ApplySnapshot, Painting

-----------------------------------------------------------------------------
(* What comes after does not depend on what was before it.                 *)
LEMMA SinceOfRest ==
  ASSUME NEW p, NEW S, NEW m, NEW n,
         m \in DeltaMsgs /\ m.round = p.round => ~ (m.from >= n)
  PROVE  Since(p, S \cup {m}, n) = Since(p, S, n)
BY DEF Since

(* From a delta on: it and what comes after it.                            *)
LEMMA SinceDelta ==
  ASSUME NEW p, NEW S, NEW m \in DeltaMsgs, m.round = p.round, Ahead(m, S)
  PROVE  /\ Since(p, S \cup {m}, m.from) = Since(p, S, m.to) \cup {m}
         /\ Since(p, S \cup {m}, m.to) = Since(p, S, m.to)
         /\ \A e \in Since(p, S, m.to) : m.from < e.from
<1>1. m.from \in Nat /\ m.to = m.from + 1 /\ m.kind = "delta"
  BY DEF DeltaMsgs
<1>2. \A e \in S : e \in DeltaMsgs /\ e.round = p.round => e.from \in Nat /\ m.to <= e.from
  BY DEF Ahead, PaintMsgs, DeltaMsgs, Hi, Lo
<1>3. Since(p, S \cup {m}, m.to) = Since(p, S, m.to)
  BY <1>1, SinceOfRest
<1>4. Since(p, S \cup {m}, m.from) = Since(p, S, m.to) \cup {m}
  BY <1>1, <1>2 DEF Since
<1>5. \A e \in Since(p, S, m.to) : m.from < e.from
  BY <1>1, <1>2 DEF Since
<1>. QED  BY <1>3, <1>4, <1>5

(* A copy that is faithful up to a delta is faithful after it.             *)
LEMMA FaithfulAfter ==
  ASSUME NEW p, NEW L, NEW m \in DeltaMsgs, \A e \in L : m.from < e.from,
         NEW owner \in Owners, NEW version \in Versions,
         \A e \in L : e.from \in Nat,
         Faithful(p, L \cup {m}, owner, version),
         Faithful(p, L, m.cells, Bumped(m.base))
  PROVE  Faithful(p, L, Repainted(owner, m.cells, DOMAIN m.cells),
                  [c \in Chunks |-> IF c \in DOMAIN m.base THEN m.base[c] + 1 ELSE version[c]])
<1>. DEFINE own == Repainted(owner, m.cells, DOMAIN m.cells)
            ver == [c \in Chunks |-> IF c \in DOMAIN m.base THEN m.base[c] + 1 ELSE version[c]]
<1>1. DOMAIN owner = Cells /\ DOMAIN version = Chunks /\ DOMAIN own = Cells /\ DOMAIN ver = Chunks
      /\ m.from \in Nat /\ \A x \in DOMAIN m.cells : Weight[x] # 0
  BY DEF Owners, Versions, Repainted, DeltaMsgs, Paintable
<1>2. ASSUME NEW x \in Cells, x \notin p.pending, \A d \in L : x \notin DOMAIN d.cells
      PROVE  own[x] = p.owner[x]
  <2>1. CASE x \in DOMAIN m.cells
    <3>1. m.cells[x] = p.owner[x]
      BY <1>2, <2>1 DEF Faithful
    <3>. QED  BY <1>1, <2>1, <3>1 DEF Repainted
  <2>2. CASE x \notin DOMAIN m.cells
    <3>1. \A d \in L \cup {m} : x \notin DOMAIN d.cells
      BY <1>2, <2>2
    <3>2. owner[x] = p.owner[x]
      BY <1>1, <1>2, <3>1 DEF Faithful
    <3>. QED  BY <2>2, <3>2 DEF Repainted
  <2>. QED  BY <2>1, <2>2
<1>3. ASSUME NEW c \in Chunks, \A d \in L : c \notin DOMAIN d.base
      PROVE  ver[c] = p.version[c]
  <2>1. CASE c \in DOMAIN m.base
    <3>1. Bumped(m.base)[c] = p.version[c]
      <4>1. c \in DOMAIN Bumped(m.base)
        BY <2>1 DEF Bumped
      <4>. QED  BY <1>3, <4>1 DEF Faithful
    <3>. QED  BY <2>1, <3>1 DEF Bumped
  <2>2. CASE c \notin DOMAIN m.base
    <3>1. \A d \in L \cup {m} : c \notin DOMAIN d.base
      BY <1>3, <2>2
    <3>2. version[c] = p.version[c]
      BY <1>1, <1>3, <3>1 DEF Faithful
    <3>. QED  BY <2>2, <3>2
  <2>. QED  BY <2>1, <2>2
<1>4. ASSUME NEW c \in Chunks, NEW d \in L, c \in DOMAIN d.base,
             \A e \in L : e.from < d.from => c \notin DOMAIN e.base
      PROVE  d.base[c] = ver[c]
  <2>1. CASE c \in DOMAIN m.base
    <3>1. c \in DOMAIN Bumped(m.base)
      BY <2>1 DEF Bumped
    <3>2. d.base[c] = Bumped(m.base)[c]
      BY <1>4, <3>1 DEF Faithful
    <3>. QED  BY <2>1, <3>2 DEF Bumped
  <2>2. CASE c \notin DOMAIN m.base
    <3>1. \A e \in L \cup {m} : e.from < d.from => c \notin DOMAIN e.base
      BY <1>4, <2>2
    <3>2. d.base[c] = version[c]
      BY <1>1, <1>4, <3>1 DEF Faithful
    <3>. QED  BY <2>2, <3>2
  <2>. QED  BY <2>1, <2>2
<1>. HIDE DEF own, ver
<1>5. Faithful(p, L, own, ver)
  BY <1>1, <1>2, <1>3, <1>4 DEF Faithful
<1>. QED  BY <1>5 DEF own, ver

(* A message m reaches a replica r ahead of the messages S, and makes q    *)
(* of it.                                                                  *)
Arrives(p, S, m, r) ==
  /\ p \in Painting /\ m \in PaintMsgs /\ Ahead(m, S)
  /\ Truth(p, S \cup {m}) /\ ReplicaOk(p, S \cup {m}, r)
  /\ m.round <= p.round /\ (m.round = p.round => Hi(m) <= p.seq)
Handled(p, S, m, r, q) ==
  /\ ReplicaOk(p, S, q) /\ q.expected = r.expected
  /\ r.expected = p.round /\ (Known(p, S \cup {m}) \/ InStep(p, S \cup {m}, r))
       => Known(p, S) \/ InStep(p, S, q)

(* A message is of one kind, and its numbers are of that kind.             *)
LEMMA KindsDiffer ==
  /\ \A m \in DeltaMsgs : m.kind = "delta" /\ m \notin Snapshots /\ m.round \in Nat /\ m.from \in Nat
                          /\ m.to = m.from + 1 /\ m.to \in Nat /\ Lo(m) = m.from /\ Hi(m) = m.to
  /\ \A m \in Snapshots : m.kind = "snapshot" /\ m \notin DeltaMsgs /\ m.round \in Nat /\ m.seq \in Nat
                          /\ m.owner \in Owners /\ m.version \in Versions /\ Lo(m) = m.seq /\ Hi(m) = m.seq
BY DEF DeltaMsgs, Snapshots, Lo, Hi

(* A snapshot that is still to come does not depend on what is before it.  *)
LEMMA SnapshotSince ==
  ASSUME NEW p, NEW S, NEW m \in PaintMsgs, Ahead(m, S), NEW x \in S, x \in Snapshots, x.round = p.round
  PROVE  Since(p, S \cup {m}, x.seq) = Since(p, S, x.seq)
<1>1. m \in DeltaMsgs /\ m.round = p.round => m.to <= x.seq
  BY KindsDiffer DEF Ahead, PaintMsgs
<1>2. m \in DeltaMsgs /\ m.round = p.round => ~ (m.from >= x.seq)
  BY <1>1, KindsDiffer
<1>. QED  BY <1>2, SinceOfRest

(* A message that changes nothing in the replica but its buffer or status. *)
LEMMA StillOrdered ==
  ASSUME NEW p, NEW S, NEW m, NEW r, ReplicaOk(p, S \cup {m}, r),
         r.status = "synced" /\ r.expected = p.round => ~ (m \in DeltaMsgs /\ m.round = p.round)
  PROVE  ReplicaOk(p, S, r)
<1>1. r \in Replicas /\ ReplicaOrder(p, S, r)
  BY DEF ReplicaOk, ReplicaOrder
<1>2. ASSUME r.status = "synced", r.expected = p.round
      PROVE  TrueAt(p, S, r.state.seq, r.state.owner, r.state.version)
  <2>1. Since(p, S \cup {m}, r.state.seq) = Since(p, S, r.state.seq)
    BY <1>2, SinceOfRest
  <2>. QED  BY <1>2, <2>1 DEF ReplicaOk, ReplicaTruth, TrueAt
<1>. QED  BY <1>1, <1>2 DEF ReplicaOk, ReplicaTruth

(* A replica that misses deltas only knows what is in the messages.        *)
LEMMA DeltaLeavesKnown ==
  ASSUME NEW p, NEW S, NEW m \in DeltaMsgs, Ahead(m, S), Known(p, S \cup {m})
  PROVE  Known(p, S)
<1>1. PICK x \in S \cup {m} :
        x \in Snapshots /\ x.round = p.round /\ Complete(p, Since(p, S \cup {m}, x.seq), x.seq)
  BY DEF Known
<1>2. x \in S
  BY <1>1, KindsDiffer
<1>3. Since(p, S \cup {m}, x.seq) = Since(p, S, x.seq)
  BY <1>1, <1>2, SnapshotSince DEF PaintMsgs
<1>. QED  BY <1>1, <1>2, <1>3 DEF Known

(* A replica in step meets no gap and no other version.                    *)
LEMMA InStepMatches ==
  ASSUME NEW p, NEW S, NEW m \in DeltaMsgs, NEW r, Arrives(p, S, m, r),
         InStep(p, S \cup {m}, r), m.round = r.expected
  PROVE  ~ Mismatch(r.state, m)
<1>. DEFINE n == r.state.seq
            L == Since(p, S \cup {m}, n)
<1>1. /\ r \in Replicas /\ r.state \in Painting /\ p \in Painting /\ n \in Nat /\ p.seq \in Nat
      /\ r.state.version \in Versions
  BY DEF Arrives, ReplicaOk, Replicas, Painting
<1>2. r.status = "synced" /\ r.expected = p.round /\ r.state.round = r.expected /\ Complete(p, L, n)
  BY DEF InStep, Arrives, ReplicaOk, ReplicaOrder
<1>3. n <= m.from
  BY <1>2, KindsDiffer DEF Arrives, ReplicaOk, ReplicaOrder
<1>4. m.to <= p.seq /\ m.from \in Nat /\ m.to = m.from + 1
  BY <1>2, KindsDiffer DEF Arrives
<1>. HIDE DEF n
<1>5. PICK e \in L : e.from = n
  <2>1. n \in n..(p.seq - 1)
    BY <1>1, <1>3, <1>4
  <2>. QED  BY <1>2, <2>1 DEF Complete
<1>6. e = m
  <2>1. e \in S \cup {m} /\ e \in DeltaMsgs /\ e.round = p.round
    BY <1>5 DEF Since
  <2>2. e \in S => m.to <= e.from
    BY <2>1, <1>2, KindsDiffer DEF Arrives, Ahead, PaintMsgs
  <2>. QED  BY <2>1, <2>2, <1>1, <1>3, <1>4, <1>5
<1>7. m.from = n /\ m \in L
  BY <1>5, <1>6
<1>8. \A e1 \in L : ~ (e1.from < m.from)
  BY <1>1, <1>7, KindsDiffer DEF Since
<1>9. Faithful(p, L, r.state.owner, r.state.version)
  BY <1>2 DEF Arrives, ReplicaOk, ReplicaTruth, TrueAt, n
<1>10. ASSUME NEW c \in DOMAIN m.base PROVE m.base[c] = r.state.version[c]
  <2>1. c \in DOMAIN r.state.version
    BY <1>1 DEF DeltaMsgs, Bases, Versions
  <2>. QED  BY <2>1, <1>7, <1>8, <1>9 DEF Faithful
<1>. QED  BY <1>2, <1>7, <1>10 DEF Mismatch, n

(* A delta is ignored, kept, refused or applied.                           *)
LEMMA DeltaHandled ==
  ASSUME NEW p, NEW S, NEW m \in DeltaMsgs, NEW r, Arrives(p, S, m, r)
  PROVE  Handled(p, S, m, r, ReceiveDelta(r, m))
<1>. DEFINE q == ReceiveDelta(r, m)
<1>1. /\ p \in Painting /\ p.seq \in Nat /\ Ahead(m, S) /\ Truth(p, S \cup {m})
      /\ ReplicaOk(p, S \cup {m}, r) /\ m.round <= p.round /\ (m.round = p.round => m.to <= p.seq)
      /\ m \in PaintMsgs /\ r \in Replicas
  BY KindsDiffer DEF Arrives, Painting, PaintMsgs, ReplicaOk
<1>2. /\ r.state \in Painting /\ r.status \in {"awaiting", "synced"} /\ r.buffer \in Seq(DeltaMsgs)
      /\ r.expected \in Nat /\ r.state.seq \in Nat
  BY <1>1 DEF Replicas, Painting
<1>3. \A x \in S : x \in PaintMsgs /\ x.round = m.round => m.to <= Lo(x)
  BY <1>1, KindsDiffer DEF Ahead
<1>4. CASE m.round # r.expected
  <2>1. q = r
    BY <1>4 DEF ReceiveDelta
  <2>2. ReplicaOk(p, S, r)
    BY <1>1, <1>4, StillOrdered
  <2>3. r.expected = p.round => Since(p, S \cup {m}, r.state.seq) = Since(p, S, r.state.seq)
    BY <1>4, SinceOfRest
  <2>4. r.expected = p.round /\ InStep(p, S \cup {m}, r) => InStep(p, S, r)
    BY <2>3 DEF InStep
  <2>5. Known(p, S \cup {m}) => Known(p, S)
    BY <1>1, DeltaLeavesKnown
  <2>. QED  BY <2>1, <2>2, <2>4, <2>5 DEF Handled
<1>5. CASE m.round = r.expected /\ r.status = "awaiting"
  <2>1. q = [r EXCEPT !.buffer = Buffered(@, m)]
    BY <1>5 DEF ReceiveDelta
  <2>2. /\ Buffered(r.buffer, m) \in Seq(DeltaMsgs)
        /\ Range(Buffered(r.buffer, m)) \subseteq Range(r.buffer) \cup {m}
    <3>. DEFINE b == IF Len(r.buffer) >= BufferMax THEN Tail(r.buffer) ELSE r.buffer
    <3>1. b \in Seq(DeltaMsgs) /\ Range(b) \subseteq Range(r.buffer)
      <4>1. CASE Len(r.buffer) >= BufferMax
        <5>1. r.buffer # <<>>
          BY <1>2, <4>1, PaintConstants
        <5>2. Tail(r.buffer) \in Seq(DeltaMsgs) /\ Len(Tail(r.buffer)) = Len(r.buffer) - 1
              /\ \A i \in 1..Len(Tail(r.buffer)) : Tail(r.buffer)[i] = r.buffer[i + 1]
          BY <1>2, <5>1
        <5>3. \A i \in 1..Len(Tail(r.buffer)) : i + 1 \in 1..Len(r.buffer)
          BY <1>2, <5>2
        <5>. QED  BY <1>2, <4>1, <5>2, <5>3 DEF Range
      <4>2. CASE ~ (Len(r.buffer) >= BufferMax)
        BY <1>2, <4>2
      <4>. QED  BY <4>1, <4>2
    <3>. HIDE DEF b
    <3>2. Append(b, m) \in Seq(DeltaMsgs) /\ Range(Append(b, m)) \subseteq Range(b) \cup {m}
      <4>1. Len(Append(b, m)) = Len(b) + 1 /\ Append(b, m) \in Seq(DeltaMsgs) /\ Len(b) \in Nat
            /\ Append(b, m)[Len(b) + 1] = m /\ \A i \in 1..Len(b) : Append(b, m)[i] = b[i]
        BY <3>1
      <4>2. \A i \in 1..(Len(b) + 1) : i \in 1..Len(b) \/ i = Len(b) + 1
        BY <4>1
      <4>. QED  BY <3>1, <4>1, <4>2 DEF Range
    <3>. QED  BY <3>1, <3>2 DEF Buffered, b
  <2>3. /\ q.state = r.state /\ q.status = "awaiting" /\ q.expected = r.expected
        /\ q.buffer = Buffered(r.buffer, m)
    BY <1>1, <1>5, <2>1 DEF Replicas
  <2>4. q \in Replicas
    <3>. HIDE DEF q
    <3>. QED  BY <1>1, <2>1, <2>2 DEF Replicas
  <2>. HIDE DEF q
  <2>5. ReplicaOrder(p, S, q)
    <3>1. \A d \in Range(q.buffer) :
            /\ d.round <= p.round /\ (d.round = p.round => d.to <= p.seq)
            /\ \A x \in S : x \in PaintMsgs /\ x.round = d.round => d.to <= Lo(x)
      BY <1>1, <1>3, <2>2, <2>3 DEF ReplicaOk, ReplicaOrder
    <3>. QED  BY <1>1, <2>3, <3>1 DEF ReplicaOk, ReplicaOrder
  <2>6. ReplicaOk(p, S, q)
    BY <2>3, <2>4, <2>5 DEF ReplicaOk, ReplicaTruth
  <2>. QED  BY <1>1, <1>5, <2>3, <2>6, DeltaLeavesKnown DEF Handled, InStep, q
<1>6. CASE m.round = r.expected /\ r.status = "synced" /\ m.to <= r.state.seq
  <2>1. r.state.seq <= m.from
    BY <1>1, <1>6, KindsDiffer DEF ReplicaOk, ReplicaOrder
  <2>. QED  BY <1>2, <1>6, <2>1, KindsDiffer
<1>7. CASE m.round = r.expected /\ r.status = "synced" /\ ~ (m.to <= r.state.seq) /\ Mismatch(r.state, m)
  <2>1. q = [r EXCEPT !.status = "awaiting", !.buffer = <<m>>]
    BY <1>7 DEF ReceiveDelta, Awaits
  <2>2. <<m>> \in Seq(DeltaMsgs) /\ Range(<<m>>) = {m}
    BY DEF Range
  <2>3. q.state = r.state /\ q.status = "awaiting" /\ q.expected = r.expected /\ q.buffer = <<m>>
    BY <1>1, <2>1 DEF Replicas
  <2>4. q \in Replicas
    <3>. HIDE DEF q
    <3>. QED  BY <1>1, <2>1, <2>2 DEF Replicas
  <2>. HIDE DEF q
  <2>5. ReplicaOrder(p, S, q)
    BY <1>1, <1>3, <2>2, <2>3 DEF ReplicaOk, ReplicaOrder
  <2>6. ReplicaOk(p, S, q)
    BY <2>3, <2>4, <2>5 DEF ReplicaOk, ReplicaTruth
  <2>7. ~ InStep(p, S \cup {m}, r)
    BY <1>7, InStepMatches
  <2>. QED  BY <1>1, <2>3, <2>6, <2>7, DeltaLeavesKnown DEF Handled, q
<1>8. CASE m.round = r.expected /\ r.status = "synced" /\ ~ (m.to <= r.state.seq) /\ ~ Mismatch(r.state, m)
  <2>. DEFINE new == ApplyDelta(r.state, m)
  <2>1. q = [r EXCEPT !.state = new]
    BY <1>8 DEF ReceiveDelta
  <2>2. Applied(r.state, m, new)
    BY <1>1, <1>2, DeltaApplies DEF Replicas
  <2>. HIDE DEF new
  <2>3. q.state = new /\ q.status = "synced" /\ q.expected = r.expected /\ q.buffer = r.buffer
    BY <1>1, <1>8, <2>1 DEF Replicas
  <2>4. q \in Replicas
    <3>1. new \in Painting /\ ~ new.tracking /\ new.pending = {} /\ new.units = Area(new.owner)
      BY <1>1, <2>2 DEF Applied, Replicas
    <3>. HIDE DEF q
    <3>. QED  BY <1>1, <2>1, <3>1 DEF Replicas
  <2>. HIDE DEF q
  <2>5. new.seq = m.to /\ new.round = r.state.round /\ r.state.seq = m.from
    BY <1>8, <2>2 DEF Applied, Mismatch
  <2>6. ReplicaOrder(p, S, q)
    BY <1>1, <1>3, <1>8, <2>3, <2>5 DEF ReplicaOk, ReplicaOrder
  <2>7. ASSUME r.expected = p.round, Complete(p, Since(p, S, m.to), m.to)
        PROVE  Faithful(p, Since(p, S, m.to), new.owner, new.version)
    <3>. DEFINE L == Since(p, S, m.to)
    <3>1. /\ Since(p, S \cup {m}, m.from) = L \cup {m} /\ Since(p, S \cup {m}, m.to) = L
          /\ \A e \in L : m.from < e.from
      BY <1>1, <1>8, <2>7, SinceDelta
    <3>2. Faithful(p, L, m.cells, Bumped(m.base))
      BY <1>1, <1>8, <2>7, <3>1 DEF Truth, TrueAt
    <3>3. Complete(p, L \cup {m}, m.from)
      <4>1. ASSUME NEW k \in m.from..(p.seq - 1) PROVE \E d \in L \cup {m} : d.from = k
        <5>1. k = m.from \/ k \in m.to..(p.seq - 1)
          BY <1>1, KindsDiffer
        <5>. QED  BY <5>1, <2>7 DEF Complete
      <4>. QED  BY <4>1 DEF Complete
    <3>4. Faithful(p, L \cup {m}, r.state.owner, r.state.version)
      BY <1>1, <1>8, <2>5, <2>7, <3>1, <3>3 DEF ReplicaOk, ReplicaTruth, TrueAt
    <3>5. r.state.owner \in Owners /\ r.state.version \in Versions
      BY <1>2 DEF Painting
    <3>6. \A e \in L : e.from \in Nat
      BY KindsDiffer DEF Since
    <3>. HIDE DEF L
    <3>7. Faithful(p, L, Repainted(r.state.owner, m.cells, DOMAIN m.cells),
             [c \in Chunks |-> IF c \in DOMAIN m.base THEN m.base[c] + 1 ELSE r.state.version[c]])
      BY <3>1, <3>2, <3>4, <3>5, <3>6, FaithfulAfter
    <3>. QED  BY <2>2, <3>7 DEF Applied, L
  <2>8. ReplicaTruth(p, S, q)
    BY <2>3, <2>5, <2>7 DEF ReplicaTruth, TrueAt
  <2>9. ASSUME r.expected = p.round, InStep(p, S \cup {m}, r) PROVE InStep(p, S, q)
    <3>1. Since(p, S \cup {m}, m.from) = Since(p, S, m.to) \cup {m}
      BY <1>1, <1>8, <2>9, SinceDelta
    <3>2. Complete(p, Since(p, S, m.to) \cup {m}, m.from)
      BY <2>5, <2>9, <3>1 DEF InStep
    <3>3. ASSUME NEW k \in m.to..(p.seq - 1) PROVE \E d \in Since(p, S, m.to) : d.from = k
      <4>1. k \in m.from..(p.seq - 1) /\ k # m.from
        BY <1>1, KindsDiffer
      <4>. QED  BY <4>1, <3>2 DEF Complete
    <3>. QED  BY <2>3, <2>5, <2>9, <3>3 DEF InStep, Complete
  <2>. QED  BY <1>1, <2>3, <2>4, <2>6, <2>8, <2>9, DeltaLeavesKnown DEF Handled, ReplicaOk, q
<1>. QED  BY <1>2, <1>4, <1>5, <1>6, <1>7, <1>8

(* Nothing in the buffer is beyond the snapshot: it replaces everything.   *)
LEMMA SnapshotReplaces ==
  ASSUME NEW r, NEW m, m.round = r.expected,
         \A d \in Range(r.buffer) : d.round = m.round => ~ (d.to > m.seq)
  PROVE  ReceiveSnapshot(r, m) =
           [r EXCEPT !.state = ApplySnapshot(@, m), !.status = "synced", !.buffer = <<>>]
<1>. DEFINE rest == {d \in Range(r.buffer) : d.round = m.round /\ d.to > m.seq}
            sorted == Ascending(rest, [d \in rest |-> d.from])
            synced == [r EXCEPT !.state = ApplySnapshot(@, m), !.status = "synced", !.buffer = <<>>]
            next(q, d) == IF q.status = "awaiting" THEN q ELSE ReceiveDelta(q, d)
            D == DOMAIN sorted
            Runs(g) == g = [u \in SUBSET D |->
                              IF u = {} THEN synced ELSE next(g[u \ {Max(u)}], sorted[Max(u)])]
<1>1. rest = {}
  OBVIOUS
<1>2. D = {}
  <2>1. Cardinality(rest) = 0 /\ 1..0 = {}
    BY <1>1, FS_EmptySet
  <2>2. sorted = CHOOSE q \in [{} -> {}] : \A i, j \in DOMAIN q : i < j =>
                   [d \in rest |-> d.from][q[i]] < [d \in rest |-> d.from][q[j]]
    BY <1>1, <2>1 DEF Ascending
  <2>. DEFINE e == [i \in {} |-> i]
  <2>3. e \in [{} -> {}] /\ \A i, j \in DOMAIN e : i < j =>
                   [d \in rest |-> d.from][e[i]] < [d \in rest |-> d.from][e[j]]
    OBVIOUS
  <2>. HIDE DEF e
  <2>4. sorted \in [{} -> {}]
    <3>. HIDE DEF rest, sorted
    <3>. QED  BY <2>2, <2>3
  <2>. HIDE DEF sorted
  <2>. QED  BY <2>4
<1>3. ReceiveSnapshot(r, m) = FoldLeft(next, synced, sorted)
  BY Zenon DEF ReceiveSnapshot
<1>4. FoldLeft(next, synced, sorted) = (CHOOSE g : Runs(g))[D]
  BY Zenon DEF FoldLeft, MapThenFoldSet
<1>. HIDE DEF synced, sorted, next, D
<1>5. SUBSET D = {{}}
  BY <1>2
<1>6. Runs([u \in SUBSET D |-> synced])
  BY <1>5
<1>7. Runs(CHOOSE g : Runs(g))
  <2>. HIDE DEF Runs
  <2>. QED  BY <1>6
<1>8. ASSUME NEW g, Runs(g) PROVE g[D] = synced
  BY <1>2, <1>5, <1>8
<1>9. (CHOOSE g : Runs(g))[D] = synced
  <2>. HIDE DEF Runs
  <2>. QED  BY <1>7, <1>8
<1>. QED  BY <1>3, <1>4, <1>9 DEF synced

(* A snapshot of another round is ignored; any other replaces everything.  *)
LEMMA SnapshotHandled ==
  ASSUME NEW p, NEW S, NEW m \in Snapshots, NEW r, Arrives(p, S, m, r)
  PROVE  Handled(p, S, m, r, ReceiveSnapshot(r, m))
<1>. DEFINE q == ReceiveSnapshot(r, m)
<1>1. /\ p \in Painting /\ p.seq \in Nat /\ Ahead(m, S) /\ Truth(p, S \cup {m})
      /\ ReplicaOk(p, S \cup {m}, r) /\ m.round <= p.round /\ (m.round = p.round => m.seq <= p.seq)
      /\ m \in PaintMsgs /\ r \in Replicas /\ m \notin DeltaMsgs
  BY KindsDiffer DEF Arrives, Painting, PaintMsgs, ReplicaOk
<1>2. /\ r.state \in Painting /\ r.status \in {"awaiting", "synced"} /\ r.buffer \in Seq(DeltaMsgs)
      /\ r.expected \in Nat /\ r.state.seq \in Nat
  BY <1>1 DEF Replicas, Painting
<1>3. \A n : Since(p, S \cup {m}, n) = Since(p, S, n)
  BY <1>1, SinceOfRest
<1>4. CASE m.round # r.expected
  <2>1. q = r
    BY <1>4, Zenon DEF ReceiveSnapshot
  <2>. HIDE DEF q
  <2>2. ReplicaOk(p, S, r)
    BY <1>1, StillOrdered
  <2>3. InStep(p, S \cup {m}, r) => InStep(p, S, r)
    BY <1>3 DEF InStep
  <2>4. r.expected = p.round /\ Known(p, S \cup {m}) => Known(p, S)
    BY <1>3, <1>4 DEF Known
  <2>. QED  BY <2>1, <2>2, <2>3, <2>4 DEF Handled, q
<1>5. CASE m.round = r.expected
  <2>. DEFINE new == ApplySnapshot(r.state, m)
  <2>1. \A d \in Range(r.buffer) : d.round = m.round => ~ (d.to > m.seq)
    <3>1. \A d \in Range(r.buffer) : d \in DeltaMsgs
      BY <1>2 DEF Range
    <3>2. \A d \in Range(r.buffer) : d.round = m.round => d.to <= m.seq
      BY <1>1, KindsDiffer DEF ReplicaOk, ReplicaOrder
    <3>. QED  BY <3>1, <3>2, KindsDiffer
  <2>2. q = [r EXCEPT !.state = ApplySnapshot(@, m), !.status = "synced", !.buffer = <<>>]
    BY <1>5, <2>1, SnapshotReplaces
  <2>3. q = [r EXCEPT !.state = new, !.status = "synced", !.buffer = <<>>]
    BY <1>1, <2>2 DEF Replicas
  <2>4. /\ new \in Painting /\ new.round = m.round /\ new.seq = m.seq
        /\ new.owner = m.owner /\ new.version = m.version
        /\ new.tracking = r.state.tracking /\ new.pending = r.state.pending
        /\ new.units = Area(new.owner)
    BY <1>2, SnapshotApplies
  <2>. HIDE DEF new, q
  <2>5. q.state = new /\ q.status = "synced" /\ q.expected = r.expected /\ q.buffer = <<>>
    BY <1>1, <2>3 DEF Replicas
  <2>6. q \in Replicas
    <3>1. <<>> \in Seq(DeltaMsgs) /\ ~ new.tracking /\ new.pending = {}
      BY <1>1, <2>4 DEF Replicas
    <3>. QED  BY <1>1, <2>3, <2>4, <3>1 DEF Replicas
  <2>7. ReplicaOrder(p, S, q)
    <3>1. \A x \in S : x \in PaintMsgs /\ x.round = m.round => m.seq <= Lo(x)
      BY <1>1, KindsDiffer DEF Ahead
    <3>2. Range(<<>>) = {}
      BY DEF Range
    <3>. QED  BY <1>1, <1>5, <2>4, <2>5, <3>1, <3>2 DEF ReplicaOrder
  <2>8. ReplicaTruth(p, S, q)
    <3>. SUFFICES ASSUME r.expected = p.round
                  PROVE  TrueAt(p, S, m.seq, m.owner, m.version)
      BY <2>4, <2>5 DEF ReplicaTruth
    <3>1. TrueAt(p, S \cup {m}, m.seq, m.owner, m.version)
      BY <1>1, <1>5 DEF Truth
    <3>. QED  BY <1>3, <3>1 DEF TrueAt
  <2>9. ASSUME r.expected = p.round, Known(p, S \cup {m}) PROVE Known(p, S) \/ InStep(p, S, q)
    <3>1. PICK x \in S \cup {m} :
            x \in Snapshots /\ x.round = p.round /\ Complete(p, Since(p, S, x.seq), x.seq)
      BY <1>3, <2>9 DEF Known
    <3>2. x = m => InStep(p, S, q)
      BY <2>4, <2>5, <2>9, <3>1 DEF InStep
    <3>. QED  BY <3>1, <3>2 DEF Known
  <2>10. ASSUME r.expected = p.round, InStep(p, S \cup {m}, r) PROVE InStep(p, S, q)
    <3>1. r.state.seq <= m.seq
      BY <1>1, <1>5, <2>10, KindsDiffer DEF ReplicaOk, ReplicaOrder, InStep
    <3>2. Complete(p, Since(p, S, r.state.seq), r.state.seq)
      BY <1>3, <2>10 DEF InStep
    <3>3. ASSUME NEW k \in m.seq..(p.seq - 1) PROVE \E d \in Since(p, S, m.seq) : d.from = k
      <4>1. k \in r.state.seq..(p.seq - 1) /\ k >= m.seq
        BY <1>1, <1>2, <3>1, KindsDiffer
      <4>2. PICK d \in Since(p, S, r.state.seq) : d.from = k
        BY <3>2, <4>1 DEF Complete
      <4>. QED  BY <4>1, <4>2 DEF Since
    <3>. QED  BY <2>4, <2>5, <2>10, <3>3 DEF InStep, Complete
  <2>. QED  BY <2>5, <2>6, <2>7, <2>8, <2>9, <2>10 DEF Handled, ReplicaOk, q
<1>. QED  BY <1>4, <1>5

(* Whatever arrives first, the replica remains right.                      *)
LEMMA MessageHandled ==
  ASSUME NEW p, NEW S, NEW m, NEW r, Arrives(p, S, m, r)
  PROVE  Handled(p, S, m, r, Received(r, m))
<1>1. m \in DeltaMsgs \/ m \in Snapshots
  BY DEF Arrives, PaintMsgs
<1>2. CASE m \in DeltaMsgs
  BY <1>2, DeltaHandled, KindsDiffer DEF Received
<1>3. CASE m \in Snapshots
  BY <1>3, SnapshotHandled, KindsDiffer DEF Received
<1>. QED  BY <1>1, <1>2, <1>3

-----------------------------------------------------------------------------
(*                        Messages in a queue                              *)

(* Every message of a queue stands in relation R to those after it.        *)
Sorted(q, R) == \A i, j \in 1..Len(q) : i < j => <<q[i], q[j]>> \in R

(* Paint comes in the order of its numbers; in one connection rounds come  *)
(* in order, and each is announced first.                                  *)
ByNumber == {ab \in Messages \X Messages :
  ab[1] \in PaintMsgs /\ ab[2] \in PaintMsgs /\ ab[1].round = ab[2].round => Hi(ab[1]) <= Lo(ab[2])}
ByRound == {ab \in Messages \X Messages :
  ab[1].round <= ab[2].round /\ (ab[2] \in Loadings => ab[1].round < ab[2].round)}

(* What is in a queue that grows, or that loses its head.                  *)
LEMMA RangeOfConcat ==
  ASSUME NEW T, NEW s \in Seq(T), NEW t \in Seq(T)
  PROVE  s \o t \in Seq(T) /\ Range(s \o t) = Range(s) \cup Range(t)
<1>1. /\ s \o t \in Seq(T) /\ Len(s \o t) = Len(s) + Len(t) /\ Len(s) \in Nat /\ Len(t) \in Nat
      /\ DOMAIN s = 1..Len(s) /\ DOMAIN t = 1..Len(t) /\ DOMAIN (s \o t) = 1..(Len(s) + Len(t))
  OBVIOUS
<1>2. /\ \A i \in 1..Len(s) : i \in 1..(Len(s) + Len(t)) /\ (s \o t)[i] = s[i]
      /\ \A i \in 1..Len(t) : Len(s) + i \in 1..(Len(s) + Len(t)) /\ (s \o t)[Len(s) + i] = t[i]
  BY <1>1
<1>3. \A i \in 1..(Len(s) + Len(t)) : i \in 1..Len(s) \/ \E j \in 1..Len(t) : i = Len(s) + j
  <2>. SUFFICES ASSUME NEW i \in 1..(Len(s) + Len(t)), i \notin 1..Len(s)
                PROVE  \E j \in 1..Len(t) : i = Len(s) + j
    OBVIOUS
  <2>1. i - Len(s) \in 1..Len(t) /\ i = Len(s) + (i - Len(s))
    BY <1>1
  <2>. QED  BY <2>1
<1>4. Range(s \o t) \subseteq Range(s) \cup Range(t)
  <2>. SUFFICES ASSUME NEW i \in 1..(Len(s) + Len(t)) PROVE (s \o t)[i] \in Range(s) \cup Range(t)
    BY <1>1 DEF Range
  <2>1. CASE i \in 1..Len(s)
    BY <1>1, <1>2, <2>1 DEF Range
  <2>2. CASE \E j \in 1..Len(t) : i = Len(s) + j
    BY <1>1, <1>2, <2>2 DEF Range
  <2>. QED  BY <1>3, <2>1, <2>2
<1>5. Range(s) \subseteq Range(s \o t)
  BY <1>1, <1>2 DEF Range
<1>6. Range(t) \subseteq Range(s \o t)
  BY <1>1, <1>2 DEF Range
<1>. QED  BY <1>1, <1>4, <1>5, <1>6

(* One message more.                                                       *)
LEMMA RangeOfAppend ==
  ASSUME NEW T, NEW s \in Seq(T), NEW m \in T
  PROVE  Append(s, m) \in Seq(T) /\ Range(Append(s, m)) = Range(s) \cup {m}
<1>1. Append(s, m) = s \o <<m>> /\ <<m>> \in Seq(T)
  OBVIOUS
<1>2. Range(<<m>>) = {m}
  BY DEF Range
<1>3. s \o <<m>> \in Seq(T) /\ Range(s \o <<m>>) = Range(s) \cup Range(<<m>>)
  BY <1>1, RangeOfConcat
<1>. QED  BY <1>1, <1>2, <1>3

(* One message less.                                                       *)
LEMMA RangeOfTail ==
  ASSUME NEW T, NEW s \in Seq(T), s # <<>>
  PROVE  /\ Tail(s) \in Seq(T) /\ Head(s) \in T /\ Range(s) = Range(Tail(s)) \cup {Head(s)}
         /\ Len(Tail(s)) = Len(s) - 1 /\ \A i \in 1..Len(Tail(s)) : Tail(s)[i] = s[i + 1]
<1>1. /\ Tail(s) \in Seq(T) /\ Len(Tail(s)) = Len(s) - 1 /\ Len(s) \in Nat /\ Len(s) # 0
      /\ Head(s) = s[1] /\ \A i \in 1..(Len(s) - 1) : Tail(s)[i] = s[i + 1]
  BY EmptySeq
<1>2. 1 \in 1..Len(s) /\ s[1] \in T
  BY <1>1
<1>3. \A i \in 1..(Len(s) - 1) : i + 1 \in 1..Len(s)
  BY <1>1
<1>4. \A i \in 1..Len(s) : i = 1 \/ (i - 1 \in 1..(Len(s) - 1) /\ s[i] = Tail(s)[i - 1])
  BY <1>1
<1>5. DOMAIN s = 1..Len(s) /\ DOMAIN Tail(s) = 1..(Len(s) - 1)
  BY <1>1
<1>6. \A i \in 1..Len(s) : s[i] \in Range(Tail(s)) \cup {Head(s)}
  BY <1>1, <1>4, <1>5 DEF Range
<1>7. \A i \in 1..(Len(s) - 1) : Tail(s)[i] \in Range(s)
  BY <1>1, <1>3, <1>5 DEF Range
<1>8. Head(s) \in Range(s)
  BY <1>1, <1>2, <1>5 DEF Range
<1>9. Range(s) \subseteq Range(Tail(s)) \cup {Head(s)}
  BY <1>5, <1>6 DEF Range
<1>10. Range(Tail(s)) \subseteq Range(s)
  BY <1>5, <1>7 DEF Range
<1>. QED  BY <1>1, <1>2, <1>8, <1>9, <1>10

(* The head stands in the relation to all the rest.                        *)
LEMMA SortedTail ==
  ASSUME NEW T, NEW s \in Seq(T), s # <<>>, NEW R, Sorted(s, R)
  PROVE  Sorted(Tail(s), R) /\ \A m \in Range(Tail(s)) : <<Head(s), m>> \in R
<1>1. /\ Tail(s) \in Seq(T) /\ Len(Tail(s)) = Len(s) - 1 /\ Len(s) \in Nat
      /\ \A i \in 1..(Len(s) - 1) : Tail(s)[i] = s[i + 1] /\ i + 1 \in 1..Len(s) /\ 1 < i + 1
      /\ Head(s) = s[1]
  BY RangeOfTail
<1>2. Sorted(Tail(s), R)
  <2>. SUFFICES ASSUME NEW i \in 1..(Len(s) - 1), NEW j \in 1..(Len(s) - 1), i < j
                PROVE  <<s[i + 1], s[j + 1]>> \in R
    BY <1>1 DEF Sorted
  <2>1. i + 1 < j + 1
    OBVIOUS
  <2>. QED  BY <2>1, <1>1 DEF Sorted
<1>3. ASSUME NEW i \in 1..(Len(s) - 1) PROVE <<s[1], s[i + 1]>> \in R
  <2>1. 1 \in 1..Len(s)
    BY <1>1
  <2>. QED  BY <2>1, <1>1 DEF Sorted
<1>. QED  BY <1>1, <1>2, <1>3 DEF Range

(* Two sorted queues, one behind the other.                                *)
LEMMA SortedConcat ==
  ASSUME NEW T, NEW s \in Seq(T), NEW t \in Seq(T), NEW R, Sorted(s, R), Sorted(t, R),
         \A a \in Range(s), b \in Range(t) : <<a, b>> \in R
  PROVE  Sorted(s \o t, R)
<1>1. /\ s \o t \in Seq(T) /\ Len(s \o t) = Len(s) + Len(t) /\ Len(s) \in Nat /\ Len(t) \in Nat
      /\ DOMAIN s = 1..Len(s) /\ DOMAIN t = 1..Len(t)
  OBVIOUS
<1>. SUFFICES ASSUME NEW i \in 1..(Len(s) + Len(t)), NEW j \in 1..(Len(s) + Len(t)), i < j
              PROVE  <<(s \o t)[i], (s \o t)[j]>> \in R
  BY <1>1 DEF Sorted
<1>2. i \in 1..Len(s) => (s \o t)[i] = s[i]
  BY <1>1
<1>3. i \notin 1..Len(s) => i - Len(s) \in 1..Len(t) /\ (s \o t)[i] = t[i - Len(s)]
  BY <1>1
<1>4. j \in 1..Len(s) => (s \o t)[j] = s[j]
  BY <1>1
<1>5. j \notin 1..Len(s) => j - Len(s) \in 1..Len(t) /\ (s \o t)[j] = t[j - Len(s)]
  BY <1>1
<1>6. CASE j \in 1..Len(s)
  <2>1. i \in 1..Len(s)
    BY <1>1, <1>6
  <2>. QED  BY <2>1, <1>2, <1>4, <1>6 DEF Sorted
<1>7. CASE i \in 1..Len(s) /\ j \notin 1..Len(s)
  BY <1>1, <1>2, <1>5, <1>7 DEF Range
<1>8. CASE i \notin 1..Len(s) /\ j \notin 1..Len(s)
  <2>1. i - Len(s) < j - Len(s)
    BY <1>1
  <2>. QED  BY <2>1, <1>3, <1>5, <1>8 DEF Sorted
<1>. QED  BY <1>6, <1>7, <1>8

(* Short queues are sorted.                                                *)
LEMMA SortedShort == ASSUME NEW R, NEW m PROVE Sorted(<<>>, R) /\ Sorted(<<m>>, R)
<1>1. Len(<<>>) = 0 /\ Len(<<m>>) = 1
  OBVIOUS
<1>. QED  BY <1>1 DEF Sorted

-----------------------------------------------------------------------------
(*                What is on its way and what the room does                *)

Arena(p) == p \in Painting /\ p.tracking /\ p.pending \subseteq Paintable /\ p.units = Area(p.owner)

(* Nothing on its way is ahead of the room.                                *)
Bounded(p, S) ==
  \A m \in S : /\ m \in Messages /\ m.round <= p.round
               /\ m \in PaintMsgs /\ m.round = p.round => Hi(m) <= p.seq
Unique(S) ==
  \A d, e \in S : d \in DeltaMsgs /\ e \in DeltaMsgs /\ d.round = e.round /\ d.from = e.from => d = e
Content(p, S, r) == Bounded(p, S) /\ Truth(p, S) /\ ReplicaOk(p, S, r)

(* What messages have in common.                                           *)
LEMMA MessageTypes ==
  /\ \A m \in Messages : m.round \in Nat
  /\ \A m \in Loadings : m \notin PaintMsgs
  /\ \A m \in PaintMsgs : m \in Messages /\ Lo(m) \in Nat /\ Hi(m) \in Nat
BY KindsDiffer DEF Messages, PaintMsgs, Loadings, DeltaMsgs, Snapshots

(* A painting and its snapshot.                                            *)
LEMMA ArenaTypes ==
  ASSUME NEW p \in Painting
  PROVE  /\ p.seq \in Nat /\ p.round \in Nat /\ p.owner \in Owners /\ p.version \in Versions
         /\ SnapshotOf(p) \in Snapshots /\ SnapshotOf(p) \in PaintMsgs
         /\ SnapshotOf(p).round = p.round /\ SnapshotOf(p).seq = p.seq
         /\ SnapshotOf(p).owner = p.owner /\ SnapshotOf(p).version = p.version
BY DEF Painting, SnapshotOf, Snapshots, PaintMsgs

(* Deltas are in the past of the room.                                     *)
LEMMA SinceNow ==
  ASSUME NEW p \in Painting, NEW S, Bounded(p, S)
  PROVE  /\ Since(p, S, p.seq) = {}
         /\ \A n : \A d \in Since(p, S, n) : d.from \in Nat /\ d.from < p.seq
<1>1. \A d \in S : d \in DeltaMsgs /\ d.round = p.round => d.from \in Nat /\ d.from < p.seq
  BY ArenaTypes, KindsDiffer DEF Bounded, PaintMsgs
<1>. QED  BY <1>1, ArenaTypes DEF Since

(* What is lost leaves a gap, or was not needed.                           *)
LEMMA SinceOfFewer ==
  ASSUME NEW p \in Painting, NEW S, NEW W, W \subseteq S, Unique(S), Bounded(p, S), NEW n \in Nat,
         Complete(p, Since(p, W, n), n)
  PROVE  Since(p, W, n) = Since(p, S, n)
<1>1. Since(p, W, n) \subseteq Since(p, S, n)
  BY DEF Since
<1>2. ASSUME NEW d \in Since(p, S, n) PROVE d \in Since(p, W, n)
  <2>1. d.from \in Nat /\ d.from < p.seq /\ d.from >= n /\ p.seq \in Nat
    BY SinceNow, ArenaTypes DEF Since
  <2>2. d.from \in n..(p.seq - 1)
    BY <2>1
  <2>3. PICK e \in Since(p, W, n) : e.from = d.from
    BY <2>2 DEF Complete
  <2>4. e = d
    BY <1>1, <2>3 DEF Since, Unique
  <2>. QED  BY <2>3, <2>4
<1>. QED  BY <1>1, <1>2

(* What is lost makes nothing wrong.                                       *)
LEMMA FewerMessages ==
  ASSUME NEW p \in Painting, NEW S, NEW W, W \subseteq S, Unique(S), NEW r, Content(p, S, r)
  PROVE  Content(p, W, r)
<1>1. Bounded(p, S) /\ Truth(p, S) /\ ReplicaOk(p, S, r)
  BY DEF Content
<1>2. ASSUME NEW n \in Nat, NEW owner, NEW version, TrueAt(p, S, n, owner, version)
      PROVE  TrueAt(p, W, n, owner, version)
  <2>. SUFFICES ASSUME Complete(p, Since(p, W, n), n)
                PROVE  Faithful(p, Since(p, W, n), owner, version)
    BY DEF TrueAt
  <2>1. Since(p, W, n) = Since(p, S, n)
    BY <1>1, SinceOfFewer
  <2>. QED  BY <1>2, <2>1 DEF TrueAt
<1>3. Bounded(p, W)
  BY <1>1 DEF Bounded
<1>4. Truth(p, W)
  BY <1>1, <1>2, KindsDiffer DEF Truth
<1>5. ReplicaOrder(p, W, r)
  BY <1>1 DEF ReplicaOk, ReplicaOrder
<1>6. r \in Replicas /\ r.state.seq \in Nat
  BY <1>1 DEF ReplicaOk, Replicas, Painting
<1>7. ReplicaTruth(p, W, r)
  BY <1>1, <1>2, <1>6 DEF ReplicaOk, ReplicaTruth
<1>. QED  BY <1>3, <1>4, <1>5, <1>6, <1>7 DEF Content, ReplicaOk

(* A replica that begins a round.                                          *)
LEMMA BlankIsPainting ==
  ASSUME NEW n \in Nat, NEW b \in BOOLEAN
  PROVE  /\ Blank(n, b) \in Painting /\ Blank(n, b).round = n /\ Blank(n, b).seq = 0
         /\ Blank(n, b).tracking = b /\ Blank(n, b).pending = {}
         /\ Blank(n, b).units = Area(Blank(n, b).owner)
<1>1. [x \in Cells |-> Neutral] \in Owners /\ [c \in Chunks |-> 0] \in Versions
      /\ [t \in Teams |-> 0] \in [Teams -> Int]
  BY DEF Owners, Versions
<1>2. [t \in Teams |-> 0] = Area([x \in Cells |-> Neutral])
  BY AreaOfBlank
<1>. QED  BY <1>1, <1>2 DEF Blank, Painting

(* It knows nothing and so nothing wrong.                                  *)
LEMMA BeginsRound ==
  ASSUME NEW p, NEW S, NEW r, Content(p, S, r), NEW n \in Nat, n <= p.round
  PROVE  Content(p, S, Expecting(n)) /\ Expecting(n).expected = n /\ Expecting(n).status = "awaiting"
<1>1. /\ Blank(n, FALSE) \in Painting /\ ~ Blank(n, FALSE).tracking /\ Blank(n, FALSE).pending = {}
      /\ Blank(n, FALSE).units = Area(Blank(n, FALSE).owner)
  BY BlankIsPainting
<1>2. <<>> \in Seq(DeltaMsgs) /\ Range(<<>>) = {}
  BY DEF Range
<1>3. Expecting(n) \in Replicas
  BY <1>1, <1>2 DEF Expecting, Replicas
<1>4. ReplicaOrder(p, S, Expecting(n)) /\ ReplicaTruth(p, S, Expecting(n))
  BY <1>2 DEF Expecting, ReplicaOrder, ReplicaTruth
<1>. QED  BY <1>3, <1>4 DEF Content, ReplicaOk, Expecting

(* A new page begins the round before the first.                           *)
LEMMA NewReplicaBegins == NewReplica = Expecting(0)
BY DEF NewReplica, Expecting, NoRound

(* A snapshot tells all there is.                                          *)
LEMMA SnapshotAdded ==
  ASSUME NEW p, Arena(p), NEW S, NEW r, Content(p, S, r)
  PROVE  /\ Content(p, S \cup {SnapshotOf(p)}, r)
         /\ \A n : Since(p, S \cup {SnapshotOf(p)}, n) = Since(p, S, n)
         /\ Complete(p, Since(p, S \cup {SnapshotOf(p)}, p.seq), p.seq)
<1>. DEFINE m == SnapshotOf(p)
            W == S \cup {m}
<1>1. /\ p \in Painting /\ m \in Snapshots /\ m.round = p.round /\ m.seq = p.seq /\ m.owner = p.owner
      /\ m.version = p.version /\ p.seq \in Nat /\ p.round \in Nat
      /\ p.owner \in Owners /\ p.version \in Versions
  BY ArenaTypes DEF Arena
<1>2. Bounded(p, S) /\ Truth(p, S) /\ ReplicaOk(p, S, r)
  BY DEF Content
<1>. HIDE DEF m
<1>3. \A n : Since(p, W, n) = Since(p, S, n)
  <2>1. m \notin DeltaMsgs
    BY <1>1, KindsDiffer
  <2>. QED  BY <2>1, SinceOfRest
<1>4. Since(p, W, p.seq) = {}
  BY <1>1, <1>2, <1>3, SinceNow
<1>5. Complete(p, Since(p, W, p.seq), p.seq)
  <2>1. p.seq..(p.seq - 1) = {}
    BY <1>1
  <2>. QED  BY <2>1 DEF Complete
<1>6. Bounded(p, W)
  BY <1>1, <1>2, KindsDiffer DEF Bounded, Messages, PaintMsgs
<1>7. TrueAt(p, W, m.seq, m.owner, m.version)
  BY <1>1, <1>4 DEF TrueAt, Faithful
<1>8. Truth(p, W)
  <2>1. m \notin DeltaMsgs
    BY <1>1, KindsDiffer
  <2>2. \A n, owner, version : TrueAt(p, S, n, owner, version) => TrueAt(p, W, n, owner, version)
    BY <1>3 DEF TrueAt
  <2>. QED  BY <1>1, <1>2, <1>7, <2>1, <2>2 DEF Truth
<1>9. ReplicaOrder(p, W, r)
  BY <1>1, <1>2, KindsDiffer DEF ReplicaOk, ReplicaOrder
<1>10. ReplicaTruth(p, W, r)
  BY <1>2, <1>3 DEF ReplicaOk, ReplicaTruth, TrueAt
<1>. QED  BY <1>2, <1>3, <1>5, <1>6, <1>8, <1>9, <1>10 DEF Content, ReplicaOk, m

(* The announcement of the round tells nothing of its paint.               *)
LEMMA LoadingAdded ==
  ASSUME NEW p \in Painting, NEW S, NEW r, Content(p, S, r)
  PROVE  /\ Content(p, S \cup {Loading(p.round)}, r)
         /\ \A n : Since(p, S \cup {Loading(p.round)}, n) = Since(p, S, n)
<1>. DEFINE m == Loading(p.round)
            W == S \cup {m}
<1>1. m \in Loadings /\ m \notin PaintMsgs /\ m \notin Snapshots /\ m \notin DeltaMsgs
      /\ m \in Messages /\ m.round = p.round /\ p.round \in Nat
  BY ArenaTypes, MessageTypes DEF Loading, Loadings, Messages, PaintMsgs
<1>. HIDE DEF m
<1>3. \A n : Since(p, W, n) = Since(p, S, n)
  BY <1>1, SinceOfRest
<1>4. Bounded(p, W) /\ Truth(p, W) /\ ReplicaOrder(p, W, r) /\ ReplicaTruth(p, W, r)
  <2>1. \A n, owner, version : TrueAt(p, S, n, owner, version) => TrueAt(p, W, n, owner, version)
    BY <1>3 DEF TrueAt
  <2>2. Bounded(p, W)
    BY <1>1 DEF Content, Bounded
  <2>3. Truth(p, W)
    BY <1>1, <2>1 DEF Content, Truth
  <2>4. ReplicaOrder(p, W, r)
    BY <1>1 DEF Content, ReplicaOk, ReplicaOrder
  <2>5. ReplicaTruth(p, W, r)
    BY <2>1 DEF Content, ReplicaOk, ReplicaTruth
  <2>. QED  BY <2>2, <2>3, <2>4, <2>5
<1>. QED  BY <1>3, <1>4 DEF Content, ReplicaOk, m

(* A new round makes what is on its way old.                               *)
LEMMA NewRoundStarts ==
  ASSUME NEW p \in Painting, NEW S, NEW r, Content(p, S, r)
  PROVE  Content(Blank(p.round + 1, TRUE), S, r) /\ Arena(Blank(p.round + 1, TRUE))
<1>. DEFINE q == Blank(p.round + 1, TRUE)
<1>1. p.round \in Nat /\ q \in Painting /\ q.round = p.round + 1 /\ q.tracking /\ q.pending = {}
      /\ q.units = Area(q.owner)
  <2>1. p.round \in Nat /\ p.round + 1 \in Nat /\ TRUE \in BOOLEAN
    BY ArenaTypes
  <2>. QED  BY <2>1, BlankIsPainting
<1>. HIDE DEF q
<1>2. \A m \in S : m \in Messages /\ m.round \in Nat /\ m.round <= p.round
  BY MessageTypes DEF Content, Bounded
<1>3. Bounded(q, S) /\ Truth(q, S)
  BY <1>1, <1>2 DEF Bounded, Truth
<1>4. r \in Replicas /\ r.expected \in Nat /\ r.expected <= p.round
      /\ r.buffer \in Seq(DeltaMsgs)
  BY DEF Content, ReplicaOk, ReplicaOrder, Replicas
<1>5. \A d \in Range(r.buffer) : d.round \in Nat /\ d.round <= p.round
  BY <1>4, KindsDiffer DEF Content, ReplicaOk, ReplicaOrder, Range
<1>6. ReplicaOrder(q, S, r) /\ ReplicaTruth(q, S, r)
  BY <1>1, <1>4, <1>5 DEF Content, ReplicaOk, ReplicaOrder, ReplicaTruth
<1>. QED  BY <1>1, <1>3, <1>4, <1>6 DEF Content, ReplicaOk, Arena, q

(* Where the room's numbers do not change, the truth only has to hold for  *)
(* its new owners.                                                         *)
LEMMA SamePlace ==
  ASSUME NEW p, NEW q, q.round = p.round, q.seq = p.seq,
         \A L, owner, version : Faithful(p, L, owner, version) => Faithful(q, L, owner, version),
         NEW S, NEW r, Content(p, S, r)
  PROVE  Content(q, S, r) /\ \A n : Since(q, S, n) = Since(p, S, n)
<1>1. \A n : Since(q, S, n) = Since(p, S, n)
  BY DEF Since
<1>2. \A n, owner, version : TrueAt(p, S, n, owner, version) => TrueAt(q, S, n, owner, version)
  <2>1. \A L, n : Complete(q, L, n) <=> Complete(p, L, n)
    BY DEF Complete
  <2>. QED  BY <1>1, <2>1 DEF TrueAt
<1>3. Bounded(q, S) /\ ReplicaOrder(q, S, r)
  BY DEF Content, Bounded, ReplicaOk, ReplicaOrder
<1>4. Truth(q, S)
  BY <1>2 DEF Content, Truth
<1>5. ReplicaTruth(q, S, r)
  BY <1>2 DEF Content, ReplicaOk, ReplicaTruth
<1>. QED  BY <1>1, <1>3, <1>4, <1>5 DEF Content, ReplicaOk

(* A cell changes hands in the room.                                       *)
LEMMA PaintedInRoom ==
  ASSUME NEW p, Arena(p), NEW S, NEW r, Content(p, S, r), NEW x \in Cells, NEW t \in Teams
  PROVE  /\ Arena(SetOwner(p, x, t)) /\ Content(SetOwner(p, x, t), S, r)
         /\ SetOwner(p, x, t).round = p.round /\ SetOwner(p, x, t).seq = p.seq
<1>. DEFINE q == SetOwner(p, x, t)
<1>1. p \in Painting /\ p.owner \in Owners
  BY DEF Arena, Painting
<1>2. Changes(p, x, t, q)
  BY <1>1, SetOwnerChanges
<1>. HIDE DEF q
<1>3. q \in Painting /\ q.round = p.round /\ q.seq = p.seq /\ q.version = p.version /\ q.tracking = p.tracking
  BY <1>2 DEF Changes
<1>4. Arena(q)
  <2>1. q.pending \subseteq Paintable
    BY <1>2 DEF Changes, Arena, Paintable
  <2>. QED  BY <1>2, <1>3, <2>1 DEF Arena, Changes
<1>5. ASSUME NEW y, y \notin q.pending PROVE y \notin p.pending /\ q.owner[y] = p.owner[y]
  <2>1. CASE p.owner[x] # t /\ Weight[x] # 0
    <3>1. q.pending = p.pending \cup {x}
      BY <1>2, <2>1 DEF Changes, Arena
    <3>2. y # x /\ q.owner = [p.owner EXCEPT ![x] = t]
      BY <1>2, <1>5, <2>1, <3>1 DEF Changes
    <3>. QED  BY <1>1, <1>5, <3>1, <3>2 DEF Owners
  <2>2. CASE ~ (p.owner[x] # t /\ Weight[x] # 0)
    <3>1. q.pending = p.pending
      BY <1>2, <2>2 DEF Changes
    <3>2. q.owner = p.owner
      BY <1>1, <1>2, <2>2 DEF Changes, Owners
    <3>. QED  BY <1>5, <3>1, <3>2
  <2>. QED  BY <2>1, <2>2
<1>6. \A L, owner, version : Faithful(p, L, owner, version) => Faithful(q, L, owner, version)
  BY <1>3, <1>5 DEF Faithful
<1>7. Content(q, S, r)
  BY <1>3, <1>6, SamePlace
<1>. QED  BY <1>3, <1>4, <1>7 DEF q

-----------------------------------------------------------------------------
(*                               A flush                                   *)

(* What a flush of p leaves in q and what it sends.                        *)
Flushes(p, q, ds) ==
  /\ ds \in Seq(DeltaMsgs)
  /\ \A k \in 1..Len(ds) :
       /\ ds[k].round = p.round /\ ds[k].from = p.seq + k - 1 /\ ds[k].to = p.seq + k
       /\ DOMAIN ds[k].cells \subseteq p.pending
       /\ \A x \in DOMAIN ds[k].cells : ds[k].cells[x] = p.owner[x]
       /\ DOMAIN ds[k].base \subseteq Touched(p)
       /\ \A c \in DOMAIN ds[k].base : ds[k].base[c] = p.version[c]
  /\ \A x \in p.pending : \E k \in 1..Len(ds) : x \in DOMAIN ds[k].cells
  /\ \A c \in Touched(p) : \E k \in 1..Len(ds) : c \in DOMAIN ds[k].base
  /\ \A k, l \in 1..Len(ds) : k # l => DOMAIN ds[k].base \cap DOMAIN ds[l].base = {}
  /\ q \in Painting /\ q.round = p.round /\ q.seq = p.seq + Len(ds) /\ q.owner = p.owner
  /\ q.units = p.units /\ q.tracking = p.tracking /\ q.pending = {}
  /\ \A c \in Chunks : q.version[c] = IF c \in Touched(p) THEN p.version[c] + 1 ELSE p.version[c]

(* flushDeltas leaves and sends that.                                      *)
LEMMA FlushIsRight ==
  ASSUME NEW p, Arena(p)
  PROVE  Flushes(p, Flushed(p), Deltas(p))
<1>. DEFINE P == Parts(p)
            ds == Deltas(p)
            q == Flushed(p)
<1>1. /\ p \in Painting /\ p.owner \in Owners /\ p.version \in Versions /\ p.seq \in Nat /\ p.round \in Nat
      /\ p.pending \subseteq Cells /\ p.pending \subseteq Paintable
  BY DEF Arena, Painting
<1>2. /\ P \in Seq(SUBSET Chunks) /\ Len(P) \in Nat
      /\ \A k \in 1..Len(P) : P[k] \subseteq Touched(p) /\ P[k] \in SUBSET Chunks
      /\ \A c \in Touched(p) : \E k \in 1..Len(P) : c \in P[k]
      /\ \A k, l \in 1..Len(P) : k # l => P[k] \cap P[l] = {}
  BY <1>1, PartsAreAPartition
<1>. HIDE DEF P
<1>3. ds = [k \in 1..Len(P) |->
             [kind |-> "delta", round |-> p.round, from |-> p.seq + k - 1, to |-> p.seq + k,
              base |-> [c \in P[k] |-> p.version[c]],
              cells |-> [x \in PendingIn(p, P[k]) |-> p.owner[x]]]]
  BY Zenon DEF Deltas, P
<1>. HIDE DEF ds
<1>4. ASSUME NEW k \in 1..Len(P)
      PROVE  /\ ds[k] \in DeltaMsgs
             /\ ds[k].round = p.round /\ ds[k].from = p.seq + k - 1 /\ ds[k].to = p.seq + k
             /\ DOMAIN ds[k].cells = PendingIn(p, P[k])
             /\ \A x \in DOMAIN ds[k].cells : ds[k].cells[x] = p.owner[x]
             /\ DOMAIN ds[k].base = P[k]
             /\ \A c \in DOMAIN ds[k].base : ds[k].base[c] = p.version[c]
  <2>. DEFINE base == [c \in P[k] |-> p.version[c]]
              cells == [x \in PendingIn(p, P[k]) |-> p.owner[x]]
  <2>1. ds[k] = [kind |-> "delta", round |-> p.round, from |-> p.seq + k - 1, to |-> p.seq + k,
                 base |-> base, cells |-> cells]
    BY <1>3
  <2>2. PendingIn(p, P[k]) \subseteq p.pending
    BY DEF PendingIn
  <2>3. base \in [P[k] -> Nat] /\ base \in Bases
    <3>1. base \in [P[k] -> Nat]
      BY <1>1, <1>2 DEF Versions
    <3>. HIDE DEF base
    <3>. QED  BY <1>2, <3>1 DEF Bases
  <2>4. cells \in [PendingIn(p, P[k]) -> Teams \cup {Neutral}] /\ cells \in CellNews
    <3>1. cells \in [PendingIn(p, P[k]) -> Teams \cup {Neutral}]
      BY <1>1, <2>2 DEF Owners
    <3>2. PendingIn(p, P[k]) \in SUBSET Cells
      BY <1>1, <2>2
    <3>. HIDE DEF cells
    <3>. QED  BY <3>1, <3>2 DEF CellNews
  <2>5. p.seq + k - 1 \in Nat /\ p.seq + k \in Nat /\ p.seq + k = (p.seq + k - 1) + 1
    BY <1>1
  <2>6. /\ \A x \in PendingIn(p, P[k]) : cells[x] = p.owner[x]
        /\ \A c \in P[k] : base[c] = p.version[c]
    OBVIOUS
  <2>. HIDE DEF base, cells
  <2>7. DOMAIN cells = PendingIn(p, P[k]) /\ DOMAIN base = P[k]
    BY <2>3, <2>4
  <2>8. ds[k] \in DeltaMsgs
    <3>1. ds[k] \in [kind : {"delta"}, round : Nat, from : Nat, to : Nat, base : Bases, cells : CellNews]
      BY <1>1, <2>1, <2>3, <2>4, <2>5
    <3>2. ds[k].to = ds[k].from + 1 /\ DOMAIN ds[k].cells \subseteq Paintable
      BY <1>1, <2>1, <2>2, <2>5, <2>7
    <3>. QED  BY <3>1, <3>2 DEF DeltaMsgs
  <2>. QED  BY <2>1, <2>6, <2>7, <2>8
<1>5. ds \in Seq(DeltaMsgs) /\ Len(ds) = Len(P)
  <2>1. ds \in [1..Len(P) -> DeltaMsgs]
    BY <1>3, <1>4
  <2>. QED  BY <1>2, <2>1
<1>6. ASSUME NEW x \in p.pending PROVE \E k \in 1..Len(P) : x \in DOMAIN ds[k].cells
  <2>1. ChunkOf[x] \in Touched(p)
    BY DEF Touched
  <2>2. PICK k \in 1..Len(P) : ChunkOf[x] \in P[k]
    BY <1>2, <2>1
  <2>3. x \in PendingIn(p, P[k])
    BY <2>2 DEF PendingIn
  <2>. QED  BY <1>4, <2>3
<1>7. /\ q \in Painting /\ q.round = p.round /\ q.seq = p.seq + Len(P) /\ q.owner = p.owner
      /\ q.units = p.units /\ q.tracking = p.tracking /\ q.pending = {}
      /\ \A c \in Chunks : q.version[c] = IF c \in Touched(p) THEN p.version[c] + 1 ELSE p.version[c]
  <2>. DEFINE ver == [c \in Chunks |-> IF c \in Touched(p) THEN p.version[c] + 1 ELSE p.version[c]]
  <2>1. ver \in Versions
    BY <1>1 DEF Versions
  <2>2. q = [p EXCEPT !.seq = p.seq + Len(P), !.version = ver, !.pending = {}]
    BY <1>1 DEF Flushed, P, Painting
  <2>3. p.seq + Len(P) \in Nat /\ {} \in SUBSET Cells
    BY <1>1, <1>2
  <2>. HIDE DEF ver, q
  <2>4. q \in Painting
    BY <1>1, <2>1, <2>2, <2>3, Zenon DEF Painting
  <2>5. q.version = ver
    BY <1>1, <2>2 DEF Painting
  <2>. QED  BY <1>1, <2>2, <2>4, <2>5 DEF Painting, ver
<1>. HIDE DEF q
<1>8. \A k \in 1..Len(ds) :
       /\ ds[k].round = p.round /\ ds[k].from = p.seq + k - 1 /\ ds[k].to = p.seq + k
       /\ DOMAIN ds[k].cells \subseteq p.pending
       /\ \A x \in DOMAIN ds[k].cells : ds[k].cells[x] = p.owner[x]
       /\ DOMAIN ds[k].base \subseteq Touched(p)
       /\ \A c \in DOMAIN ds[k].base : ds[k].base[c] = p.version[c]
  BY <1>2, <1>4, <1>5 DEF PendingIn
<1>9. /\ \A c \in Touched(p) : \E k \in 1..Len(ds) : c \in DOMAIN ds[k].base
      /\ \A k, l \in 1..Len(ds) : k # l => DOMAIN ds[k].base \cap DOMAIN ds[l].base = {}
  BY <1>2, <1>4, <1>5
<1>. QED  BY <1>5, <1>6, <1>7, <1>8, <1>9 DEF Flushes, ds, q

(* The deltas of a flush are the newest of all.                            *)
LEMMA FlushedSince ==
  ASSUME NEW p, NEW q, NEW ds, Flushes(p, q, ds), p \in Painting,
         NEW S, Bounded(p, S), NEW n \in Nat, n <= p.seq
  PROVE  /\ Since(q, S \cup Range(ds), n) = Since(p, S, n) \cup Range(ds)
         /\ \A d \in Range(ds) : d.from >= p.seq /\ d.from \in Nat
         /\ Complete(q, Since(q, S \cup Range(ds), n), n) <=> Complete(p, Since(p, S, n), n)
<1>. DEFINE L == Since(p, S, n)
            M == Since(q, S \cup Range(ds), n)
<1>1. /\ p.seq \in Nat /\ Len(ds) \in Nat /\ q.seq = p.seq + Len(ds) /\ q.round = p.round
      /\ DOMAIN ds = 1..Len(ds) /\ \A k \in 1..Len(ds) : ds[k] \in DeltaMsgs
  BY ArenaTypes DEF Flushes
<1>2. \A d \in Range(ds) : \E k \in 1..Len(ds) : d = ds[k]
  BY <1>1 DEF Range
<1>3. \A k \in 1..Len(ds) : ds[k] \in Range(ds) /\ ds[k].round = p.round
                            /\ ds[k].from = p.seq + (k - 1) /\ ds[k].from \in Nat /\ ds[k].from >= p.seq
  <2>. SUFFICES ASSUME NEW k \in 1..Len(ds)
                PROVE  ds[k] \in Range(ds) /\ ds[k].round = p.round
                       /\ ds[k].from = p.seq + (k - 1) /\ ds[k].from \in Nat /\ ds[k].from >= p.seq
    OBVIOUS
  <2>1. ds[k].round = p.round /\ ds[k].from = p.seq + k - 1
    BY DEF Flushes
  <2>2. ds[k] \in Range(ds)
    BY <1>1 DEF Range
  <2>. QED  BY <1>1, <2>1, <2>2
<1>4. \A d \in Range(ds) : d \in DeltaMsgs /\ d.round = p.round /\ d.from >= n /\ d.from >= p.seq /\ d.from \in Nat
  BY <1>1, <1>2, <1>3
<1>5. M = L \cup Range(ds)
  BY <1>1, <1>4 DEF Since
<1>6. \A d \in L : d.from < p.seq /\ d.from \in Nat
  BY SinceNow
<1>7. ASSUME Complete(q, M, n) PROVE Complete(p, L, n)
  <2>. SUFFICES ASSUME NEW k \in n..(p.seq - 1) PROVE \E d \in L : d.from = k
    BY DEF Complete
  <2>1. k \in n..(q.seq - 1) /\ k < p.seq
    BY <1>1
  <2>2. PICK d \in M : d.from = k
    BY <1>7, <2>1 DEF Complete
  <2>3. d \notin Range(ds)
    BY <1>1, <1>4, <2>1, <2>2
  <2>. QED  BY <1>5, <2>2, <2>3
<1>8. ASSUME Complete(p, L, n) PROVE Complete(q, M, n)
  <2>. SUFFICES ASSUME NEW k \in n..(q.seq - 1) PROVE \E d \in M : d.from = k
    BY DEF Complete
  <2>1. CASE k < p.seq
    <3>1. k \in n..(p.seq - 1)
      BY <1>1, <2>1
    <3>. QED  BY <1>5, <1>8, <3>1 DEF Complete
  <2>2. CASE ~ (k < p.seq)
    <3>1. k - p.seq + 1 \in 1..Len(ds) /\ p.seq + ((k - p.seq + 1) - 1) = k
      BY <1>1, <2>2
    <3>. QED  BY <1>3, <1>5, <3>1
  <2>. QED  BY <2>1, <2>2
<1>. QED  BY <1>4, <1>5, <1>7, <1>8

(* Who was faithful with what it had not heard is so with the new deltas.  *)
LEMMA FlushedFaithful ==
  ASSUME NEW p, NEW q, NEW ds, Flushes(p, q, ds), NEW L,
         \A d \in L : d.from \in Nat /\ d.from < p.seq, p.seq \in Nat,
         NEW owner, NEW version, DOMAIN version \subseteq Chunks, Faithful(p, L, owner, version)
  PROVE  Faithful(q, L \cup Range(ds), owner, version)
<1>1. DOMAIN ds = 1..Len(ds) /\ Len(ds) \in Nat
  BY DEF Flushes
<1>2. \A k \in 1..Len(ds) : ds[k] \in Range(ds)
  BY <1>1 DEF Range
<1>3. \A d \in Range(ds) : \E k \in 1..Len(ds) : d = ds[k]
  BY <1>1 DEF Range
<1>4. ASSUME NEW x \in DOMAIN owner, \A d \in L \cup Range(ds) : x \notin DOMAIN d.cells
      PROVE  owner[x] = q.owner[x]
  <2>1. x \notin p.pending
    BY <1>2, <1>4 DEF Flushes
  <2>. QED  BY <1>4, <2>1 DEF Faithful, Flushes
<1>5. ASSUME NEW c \in DOMAIN version, \A d \in L \cup Range(ds) : c \notin DOMAIN d.base
      PROVE  version[c] = q.version[c]
  <2>1. c \notin Touched(p)
    BY <1>2, <1>5 DEF Flushes
  <2>2. q.version[c] = p.version[c]
    BY <2>1 DEF Flushes
  <2>. QED  BY <1>5, <2>2 DEF Faithful
<1>6. ASSUME NEW c \in DOMAIN version, NEW d \in L \cup Range(ds), c \in DOMAIN d.base,
             \A e \in L \cup Range(ds) : e.from < d.from => c \notin DOMAIN e.base
      PROVE  d.base[c] = version[c]
  <2>1. CASE d \in L
    BY <1>6, <2>1 DEF Faithful
  <2>2. CASE d \in Range(ds)
    <3>1. PICK k \in 1..Len(ds) : d = ds[k]
      BY <1>3, <2>2
    <3>2. d.from = p.seq + k - 1 /\ d.base[c] = p.version[c]
      BY <1>6, <3>1 DEF Flushes
    <3>3. \A e \in L : e.from < d.from
      BY <1>1, <3>2
    <3>4. version[c] = p.version[c]
      BY <1>6, <3>3 DEF Faithful
    <3>. QED  BY <3>2, <3>4
  <2>. QED  BY <2>1, <2>2
<1>. QED  BY <1>4, <1>5, <1>6 DEF Faithful

(* The deltas themselves are faithful.                                     *)
LEMMA FlushedDelta ==
  ASSUME NEW p, p \in Painting, NEW q, NEW ds, Flushes(p, q, ds), NEW S, Bounded(p, S),
         NEW k \in 1..Len(ds)
  PROVE  TrueAt(q, S \cup Range(ds), ds[k].to, ds[k].cells, Bumped(ds[k].base))
<1>. DEFINE d == ds[k]
            L == Since(q, S \cup Range(ds), d.to)
<1>1. DOMAIN ds = 1..Len(ds) /\ Len(ds) \in Nat /\ p.seq \in Nat /\ q.round = p.round
  BY ArenaTypes DEF Flushes
<1>2. d.to = p.seq + k /\ d.from = p.seq + k - 1
  BY DEF Flushes
<1>3. \A e \in L : \E l \in 1..Len(ds) : e = ds[l] /\ l # k
  <2>. SUFFICES ASSUME NEW e \in L PROVE \E l \in 1..Len(ds) : e = ds[l] /\ l # k
    OBVIOUS
  <2>1. e \in S \cup Range(ds) /\ e \in DeltaMsgs /\ e.round = p.round /\ e.from >= d.to
    BY <1>1 DEF Since
  <2>2. e \notin S
    <3>1. ASSUME e \in S PROVE e.from < p.seq /\ e.from \in Nat
      <4>1. e.to <= p.seq
        BY <2>1, <3>1, KindsDiffer DEF Bounded, PaintMsgs
      <4>. QED  BY <1>1, <2>1, <4>1, KindsDiffer
    <3>. QED  BY <1>1, <1>2, <2>1, <3>1
  <2>3. PICK l \in 1..Len(ds) : e = ds[l]
    BY <1>1, <2>1, <2>2 DEF Range
  <2>4. e.from = p.seq + l - 1
    BY <2>3 DEF Flushes
  <2>5. l # k
    BY <1>1, <1>2, <2>1, <2>4
  <2>. QED  BY <2>3, <2>5
<1>4. \A x \in DOMAIN d.cells : d.cells[x] = q.owner[x]
  BY DEF Flushes
<1>5. ASSUME NEW c \in DOMAIN d.base PROVE Bumped(d.base)[c] = q.version[c]
  <2>1. c \in Touched(p) /\ d.base[c] = p.version[c] /\ c \in Chunks
    BY <1>5 DEF Flushes, DeltaMsgs, Bases
  <2>. QED  BY <2>1 DEF Bumped, Flushes
<1>6. \A e \in L : DOMAIN e.base \cap DOMAIN d.base = {}
  BY <1>3 DEF Flushes
<1>7. DOMAIN Bumped(d.base) = DOMAIN d.base
  BY DEF Bumped
<1>. HIDE DEF L, d
<1>8. Faithful(q, L, d.cells, Bumped(d.base))
  BY <1>4, <1>5, <1>6, <1>7 DEF Faithful
<1>. QED  BY <1>8 DEF TrueAt, L, d

(* A flush that is sent.                                                   *)
LEMMA FlushSent ==
  ASSUME NEW p, Arena(p), NEW q, NEW ds, Flushes(p, q, ds), NEW S, NEW r, Content(p, S, r)
  PROVE  Content(q, S \cup Range(ds), r)
<1>. DEFINE W == S \cup Range(ds)
<1>0. p \in Painting /\ Bounded(p, S) /\ Truth(p, S) /\ ReplicaOk(p, S, r)
  BY DEF Arena, Content
<1>1. /\ p.seq \in Nat /\ Len(ds) \in Nat /\ q.seq = p.seq + Len(ds) /\ q.round = p.round
      /\ p.round \in Nat /\ q.seq \in Nat
      /\ DOMAIN ds = 1..Len(ds) /\ \A k \in 1..Len(ds) : ds[k] \in DeltaMsgs
  BY <1>0, ArenaTypes DEF Flushes
<1>2. \A d \in Range(ds) : \E k \in 1..Len(ds) : d = ds[k]
  BY <1>1 DEF Range
<1>3. ASSUME NEW k \in 1..Len(ds)
      PROVE  ds[k].round = p.round /\ ds[k].to <= q.seq /\ ds[k].from >= p.seq
             /\ Lo(ds[k]) = ds[k].from /\ Hi(ds[k]) = ds[k].to /\ ds[k] \in PaintMsgs
             /\ ds[k] \in Messages /\ ds[k] \notin Snapshots
  <2>1. ds[k].round = p.round /\ ds[k].from = p.seq + k - 1 /\ ds[k].to = p.seq + k
    BY DEF Flushes
  <2>. QED  BY <1>1, <2>1, KindsDiffer DEF PaintMsgs, Messages
<1>4. Bounded(q, W)
  <2>1. ASSUME NEW m \in S PROVE m \in PaintMsgs /\ m.round = p.round => Hi(m) <= q.seq
    <3>1. m \in PaintMsgs /\ m.round = p.round => Hi(m) <= p.seq /\ Hi(m) \in Nat
      BY <1>0, MessageTypes DEF Bounded
    <3>. QED  BY <1>1, <3>1
  <2>2. \A m \in S : m \in Messages /\ m.round <= q.round
    BY <1>0, <1>1 DEF Bounded
  <2>3. \A m \in Range(ds) : m \in Messages /\ m.round = q.round /\ Hi(m) <= q.seq
    BY <1>1, <1>2, <1>3
  <2>4. q.round <= q.round
    BY <1>1
  <2>. QED  BY <1>1, <2>1, <2>2, <2>3, <2>4 DEF Bounded
<1>5. ASSUME NEW n \in Nat, n <= p.seq, NEW owner, NEW version, DOMAIN version \subseteq Chunks,
             TrueAt(p, S, n, owner, version)
      PROVE  TrueAt(q, W, n, owner, version)
  <2>. SUFFICES ASSUME Complete(q, Since(q, W, n), n)
                PROVE  Faithful(q, Since(q, W, n), owner, version)
    BY DEF TrueAt
  <2>1. Since(q, W, n) = Since(p, S, n) \cup Range(ds) /\ Complete(p, Since(p, S, n), n)
    BY <1>0, <1>5, FlushedSince
  <2>2. Faithful(p, Since(p, S, n), owner, version)
    BY <1>5, <2>1 DEF TrueAt
  <2>. DEFINE L == Since(p, S, n)
  <2>3. \A d \in L : d.from \in Nat /\ d.from < p.seq
    BY <1>0, SinceNow
  <2>4. p.seq \in Nat /\ DOMAIN version \subseteq Chunks /\ Faithful(p, L, owner, version)
    BY <1>1, <1>5, <2>2
  <2>. HIDE DEF L
  <2>5. Faithful(q, L \cup Range(ds), owner, version)
    BY <2>3, <2>4, FlushedFaithful
  <2>. QED  BY <2>1, <2>5 DEF L
<1>6. ASSUME NEW m \in W, m \in Snapshots, m.round = q.round
      PROVE  TrueAt(q, W, m.seq, m.owner, m.version)
  <2>1. m \in S
    BY <1>2, <1>3, <1>6
  <2>2. m.seq \in Nat /\ m.seq <= p.seq /\ DOMAIN m.version \subseteq Chunks
    BY <1>0, <1>1, <1>6, <2>1, KindsDiffer DEF Bounded, PaintMsgs, Versions
  <2>3. TrueAt(p, S, m.seq, m.owner, m.version)
    BY <1>0, <1>1, <1>6, <2>1 DEF Truth
  <2>. QED  BY <1>5, <2>2, <2>3
<1>7. ASSUME NEW m \in W, m \in DeltaMsgs, m.round = q.round
      PROVE  TrueAt(q, W, m.to, m.cells, Bumped(m.base))
  <2>1. CASE m \in S
    <3>1. m.to \in Nat /\ m.to <= p.seq
      BY <1>0, <1>1, <1>7, <2>1, KindsDiffer DEF Bounded, PaintMsgs
    <3>2. DOMAIN Bumped(m.base) \subseteq Chunks
      BY <1>7 DEF Bumped, DeltaMsgs, Bases
    <3>3. TrueAt(p, S, m.to, m.cells, Bumped(m.base))
      BY <1>0, <1>1, <1>7, <2>1 DEF Truth
    <3>. QED  BY <1>5, <3>1, <3>2, <3>3
  <2>2. CASE m \in Range(ds)
    <3>1. PICK k \in 1..Len(ds) : m = ds[k]
      BY <1>2, <2>2
    <3>. QED  BY <1>0, <3>1, FlushedDelta
  <2>. QED  BY <2>1, <2>2
<1>8. Truth(q, W)
  BY <1>6, <1>7 DEF Truth
<1>9. r \in Replicas /\ r.state.seq \in Nat /\ r.state.version \in Versions /\ r.buffer \in Seq(DeltaMsgs)
  BY <1>0 DEF ReplicaOk, Replicas, Painting
<1>10. ReplicaTruth(q, W, r)
  <2>. SUFFICES ASSUME r.status = "synced", r.expected = p.round
                PROVE  TrueAt(q, W, r.state.seq, r.state.owner, r.state.version)
    BY <1>1 DEF ReplicaTruth
  <2>1. r.state.seq <= p.seq /\ TrueAt(p, S, r.state.seq, r.state.owner, r.state.version)
    BY <1>0 DEF ReplicaOk, ReplicaOrder, ReplicaTruth
  <2>2. DOMAIN r.state.version \subseteq Chunks
    BY <1>9 DEF Versions
  <2>. QED  BY <1>5, <1>9, <2>1, <2>2
<1>11. ReplicaOrder(q, W, r)
  <2>1. r.status = "synced" /\ r.expected = q.round => r.state.seq <= p.seq
    BY <1>0, <1>1 DEF ReplicaOk, ReplicaOrder
  <2>2. \A d \in Range(r.buffer) : d \in DeltaMsgs
    BY <1>9 DEF Range
  <2>3. \A d \in Range(r.buffer) : d.round = q.round => d.to <= p.seq
    BY <1>0, <1>1 DEF ReplicaOk, ReplicaOrder
  <2>4. \A d \in Range(r.buffer) : d.to \in Nat
    BY <2>2, KindsDiffer
  <2>5. r.status = "synced" => \A m \in W : m \in PaintMsgs /\ m.round = r.expected => r.state.seq <= Lo(m)
    <3>. SUFFICES ASSUME r.status = "synced", NEW m \in W, m \in PaintMsgs, m.round = r.expected
                  PROVE  r.state.seq <= Lo(m)
      OBVIOUS
    <3>1. CASE m \in S
      BY <1>0, <3>1 DEF ReplicaOk, ReplicaOrder
    <3>2. CASE m \in Range(ds)
      <4>1. PICK k \in 1..Len(ds) : m = ds[k]
        BY <1>2, <3>2
      <4>2. Lo(m) >= p.seq /\ m.round = p.round /\ Lo(m) \in Nat
        BY <1>1, <1>3, <4>1, KindsDiffer
      <4>. QED  BY <1>1, <1>9, <2>1, <4>2
    <3>. QED  BY <3>1, <3>2
  <2>6. \A d \in Range(r.buffer) : \A m \in W : m \in PaintMsgs /\ m.round = d.round => d.to <= Lo(m)
    <3>. SUFFICES ASSUME NEW d \in Range(r.buffer), NEW m \in W, m \in PaintMsgs, m.round = d.round
                  PROVE  d.to <= Lo(m)
      OBVIOUS
    <3>1. CASE m \in S
      BY <1>0, <3>1 DEF ReplicaOk, ReplicaOrder
    <3>2. CASE m \in Range(ds)
      <4>1. PICK k \in 1..Len(ds) : m = ds[k]
        BY <1>2, <3>2
      <4>2. Lo(m) >= p.seq /\ m.round = p.round /\ Lo(m) \in Nat
        BY <1>1, <1>3, <4>1, KindsDiffer
      <4>3. d.to \in Nat /\ d.to <= p.seq
        BY <1>1, <2>3, <2>4, <4>2
      <4>. QED  BY <1>1, <4>2, <4>3
    <3>. QED  BY <3>1, <3>2
  <2>7. r.status = "synced" /\ r.expected = q.round => r.state.seq <= q.seq
    BY <1>1, <1>9, <2>1
  <2>8. \A d \in Range(r.buffer) : d.round <= q.round /\ (d.round = q.round => d.to <= q.seq)
    <3>1. \A d \in Range(r.buffer) : d.round <= q.round
      BY <1>0, <1>1 DEF ReplicaOk, ReplicaOrder
    <3>. QED  BY <1>1, <2>3, <2>4, <3>1
  <2>9. r.expected <= q.round /\ (r.status = "synced" => r.state.round = r.expected)
    BY <1>0, <1>1 DEF ReplicaOk, ReplicaOrder
  <2>. QED  BY <2>5, <2>6, <2>7, <2>8, <2>9 DEF ReplicaOrder
<1>. QED  BY <1>0, <1>4, <1>8, <1>10, <1>11 DEF Content, ReplicaOk

(* A flush nobody hears.                                                   *)
LEMMA FlushUnheard ==
  ASSUME NEW p, Arena(p), NEW q, NEW ds, Flushes(p, q, ds), NEW S, NEW r, Content(p, S, r)
  PROVE  Content(q, S, r)
<1>0. p \in Painting /\ Bounded(p, S) /\ Truth(p, S) /\ ReplicaOk(p, S, r)
  BY DEF Arena, Content
<1>1. /\ p.seq \in Nat /\ Len(ds) \in Nat /\ q.seq = p.seq + Len(ds) /\ q.round = p.round
      /\ q.owner = p.owner /\ q.pending = {}
  BY <1>0, ArenaTypes DEF Flushes
<1>2. CASE Len(ds) = 0
  <2>1. p.pending = {} /\ Touched(p) = {}
    BY <1>2 DEF Flushes
  <2>2. q.seq = p.seq /\ \A c \in Chunks : q.version[c] = p.version[c]
    BY <1>1, <1>2, <2>1 DEF Flushes
  <2>3. q.version = p.version
    BY <1>0, <2>2 DEF Flushes, Painting, Versions
  <2>4. \A L, owner, version : Faithful(p, L, owner, version) => Faithful(q, L, owner, version)
    BY <1>1, <2>1, <2>3 DEF Faithful
  <2>. QED  BY <1>1, <2>2, <2>4, SamePlace
<1>3. CASE Len(ds) # 0
  <2>1. ASSUME NEW n \in Nat, n <= p.seq PROVE ~ Complete(q, Since(q, S, n), n)
    <3>1. p.seq \in n..(q.seq - 1)
      BY <1>1, <1>3, <2>1
    <3>2. \A d \in Since(q, S, n) : d.from < p.seq /\ d.from \in Nat
      <4>1. Since(q, S, n) = Since(p, S, n)
        BY <1>1 DEF Since
      <4>. QED  BY <1>0, <4>1, SinceNow
    <3>. QED  BY <1>1, <3>1, <3>2 DEF Complete
  <2>2. Bounded(q, S)
    <3>1. \A m \in S : m \in PaintMsgs /\ m.round = p.round => Hi(m) <= p.seq /\ Hi(m) \in Nat
      BY <1>0, MessageTypes DEF Bounded
    <3>. QED  BY <1>0, <1>1, <3>1 DEF Bounded
  <2>3. \A m \in S : m \in Snapshots /\ m.round = p.round => m.seq \in Nat /\ m.seq <= p.seq
    BY <1>0, KindsDiffer DEF Bounded, PaintMsgs
  <2>4. \A m \in S : m \in DeltaMsgs /\ m.round = p.round => m.to \in Nat /\ m.to <= p.seq
    BY <1>0, KindsDiffer DEF Bounded, PaintMsgs
  <2>5. Truth(q, S)
    BY <1>1, <2>1, <2>3, <2>4 DEF Truth, TrueAt
  <2>6. r \in Replicas /\ r.state.seq \in Nat /\ r.buffer \in Seq(DeltaMsgs)
    BY <1>0 DEF ReplicaOk, Replicas, Painting
  <2>7. ReplicaTruth(q, S, r)
    BY <1>0, <1>1, <2>1, <2>6 DEF ReplicaOk, ReplicaOrder, ReplicaTruth, TrueAt
  <2>8. \A d \in Range(r.buffer) : d.to \in Nat
    BY <2>6, KindsDiffer DEF Range
  <2>9. ReplicaOrder(q, S, r)
    <3>1. \A d \in Range(r.buffer) : d.round <= q.round /\ (d.round = q.round => d.to <= q.seq)
      <4>1. \A d \in Range(r.buffer) : d.round <= q.round /\ (d.round = q.round => d.to <= p.seq)
        BY <1>0, <1>1 DEF ReplicaOk, ReplicaOrder
      <4>. QED  BY <1>1, <2>8, <4>1
    <3>2. r.status = "synced" /\ r.expected = q.round => r.state.seq <= q.seq
      <4>1. r.status = "synced" /\ r.expected = q.round => r.state.seq <= p.seq
        BY <1>0, <1>1 DEF ReplicaOk, ReplicaOrder
      <4>. QED  BY <1>1, <2>6, <4>1
    <3>. QED  BY <1>0, <1>1, <3>1, <3>2 DEF ReplicaOk, ReplicaOrder
  <2>. QED  BY <2>2, <2>5, <2>6, <2>7, <2>9 DEF Content, ReplicaOk
<1>. QED  BY <1>1, <1>2, <1>3

-----------------------------------------------------------------------------
(*                   What waits and what is on its way                     *)

Asks == [kind : {"loaded", "resync"}, round : Nat]

(* What was kept comes before what is still on its way.                    *)
Ordered(la, dn) ==
  /\ Sorted(la, ByNumber) /\ Sorted(dn, ByNumber) /\ Sorted(dn, ByRound)
  /\ \A a \in Range(la), b \in Range(dn) : <<a, b>> \in ByNumber

(* A delta of a number comes once.                                         *)
LEMMA SortedIsUnique ==
  ASSUME NEW s \in Seq(Messages), Sorted(s, ByNumber)
  PROVE  Unique(Range(s))
<1>. SUFFICES ASSUME NEW i \in 1..Len(s), NEW j \in 1..Len(s), s[i] \in DeltaMsgs, s[j] \in DeltaMsgs,
                     s[i].round = s[j].round, s[i].from = s[j].from, i < j
              PROVE  FALSE
  <2>1. DOMAIN s = 1..Len(s) /\ Len(s) \in Nat
    OBVIOUS
  <2>2. \A i, j \in 1..Len(s) : i < j \/ i = j \/ j < i
    BY <2>1
  <2>. QED  BY <2>1, <2>2 DEF Unique, Range
<1>1. Hi(s[i]) <= Lo(s[j])
  BY DEF Sorted, ByNumber, PaintMsgs
<1>. QED  BY <1>1, KindsDiffer

(* The same, with what was kept.                                           *)
LEMMA OrderedIsUnique ==
  ASSUME NEW la \in Seq(PaintMsgs), NEW dn \in Seq(Messages), Ordered(la, dn)
  PROVE  Unique(Range(la) \cup Range(dn))
<1>1. la \in Seq(Messages)
  <2>1. PaintMsgs \subseteq Messages
    BY DEF Messages
  <2>. QED  BY <2>1
<1>2. la \o dn \in Seq(Messages) /\ Range(la \o dn) = Range(la) \cup Range(dn)
  BY <1>1, RangeOfConcat
<1>3. Sorted(la \o dn, ByNumber)
  BY <1>1, SortedConcat DEF Ordered
<1>. QED  BY <1>2, <1>3, SortedIsUnique

(* The first message of all is handled.                                    *)
LEMMA FirstHandled ==
  ASSUME NEW p \in Painting, NEW S, NEW m \in PaintMsgs, NEW r,
         Content(p, S \cup {m}, r), Unique(S \cup {m}), Ahead(m, S)
  PROVE  Handled(p, S, m, r, Received(r, m)) /\ Content(p, S, Received(r, m))
<1>1. Arrives(p, S, m, r)
  <2>1. Bounded(p, S \cup {m}) /\ Truth(p, S \cup {m}) /\ ReplicaOk(p, S \cup {m}, r)
    BY DEF Content
  <2>2. m.round <= p.round /\ (m.round = p.round => Hi(m) <= p.seq)
    BY <2>1 DEF Bounded
  <2>. QED  BY <2>1, <2>2 DEF Arrives
<1>2. Handled(p, S, m, r, Received(r, m))
  BY <1>1, MessageHandled
<1>3. Content(p, S, r)
  BY FewerMessages
<1>. QED  BY <1>2, <1>3 DEF Content, Handled

(* The room's messages S0 became S while a0 became a.                      *)
Through(p, S0, a0, S, a) ==
  /\ Content(p, S, a.replica) /\ a.replica.expected = a0.replica.expected
  /\ a0.replica.expected = p.round /\ (Known(p, S0) \/ InStep(p, S0, a0.replica))
       => Known(p, S) \/ InStep(p, S, a.replica)
  /\ a.out \in Seq(Asks) /\ Range(a0.out) \subseteq Range(a.out)

(* One message more of those that were kept.                               *)
LEMMA HandleGoesOn ==
  ASSUME NEW p \in Painting, NEW S, NEW m \in PaintMsgs, Unique(S \cup {m}), Ahead(m, S),
         NEW S0, NEW a0, NEW a, Through(p, S0, a0, S \cup {m}, a)
  PROVE  Through(p, S0, a0, S, Handle(a, m))
<1>. DEFINE r == a.replica
            q == Received(r, m)
            ask == Resync(r.expected)
            out == IF AsksFor(r, m) THEN Append(a.out, ask) ELSE a.out
<1>1. Content(p, S \cup {m}, r)
  BY DEF Through
<1>2. Handled(p, S, m, r, q) /\ Content(p, S, q)
  BY <1>1, FirstHandled
<1>3. Handle(a, m).replica = q /\ Handle(a, m).out = out
  BY DEF Handle
<1>4. out \in Seq(Asks) /\ Range(a.out) \subseteq Range(out)
  <2>1. a.out \in Seq(Asks)
    BY DEF Through
  <2>2. ask \in Asks
    BY <1>1 DEF Content, ReplicaOk, Replicas, Resync, Asks
  <2>. HIDE DEF ask
  <2>3. \A s \in Seq(Asks) : \A x \in Asks :
          Append(s, x) \in Seq(Asks) /\ Range(Append(s, x)) = Range(s) \cup {x}
    BY RangeOfAppend
  <2>4. Append(a.out, ask) \in Seq(Asks) /\ Range(Append(a.out, ask)) = Range(a.out) \cup {ask}
    BY <2>1, <2>2, <2>3
  <2>. QED  BY <2>1, <2>4
<1>. HIDE DEF q, out, r
<1>5. q.expected = r.expected /\ r.expected = a0.replica.expected
  BY <1>2 DEF Handled, Through, r
<1>6. a0.replica.expected = p.round /\ (Known(p, S0) \/ InStep(p, S0, a0.replica))
        => Known(p, S) \/ InStep(p, S, q)
  BY <1>2, <1>5 DEF Handled, Through, r
<1>7. Range(a0.out) \subseteq Range(out)
  BY <1>4 DEF Through
<1>. QED  BY <1>2, <1>3, <1>4, <1>5, <1>6, <1>7 DEF Through

(* All that was kept is applied at once.                                   *)
LEMMA AllHandled ==
  ASSUME NEW p \in Painting, NEW la \in Seq(PaintMsgs), NEW dn \in Seq(Messages), Ordered(la, dn),
         NEW a0, Content(p, Range(la) \cup Range(dn), a0.replica), a0.out \in Seq(Asks)
  PROVE  Through(p, Range(la) \cup Range(dn), a0, Range(dn), HandleAll(a0, la))
<1>. DEFINE n == Len(la)
            D == Range(dn)
            Rest(k) == {la[i] : i \in (k + 1)..n} \cup D
            S0 == Range(la) \cup D
<1>1. n \in Nat /\ DOMAIN la = 1..n /\ \A i \in 1..n : la[i] \in PaintMsgs
  OBVIOUS
<1>2. Unique(S0)
  BY OrderedIsUnique
<1>3. Rest(0) = S0 /\ Rest(n) = D
  <2>1. 0 + 1 = 1 /\ (n + 1)..n = {}
    BY <1>1
  <2>2. Range(la) = {la[i] : i \in 1..n}
    BY <1>1 DEF Range
  <2>. QED  BY <2>1, <2>2
<1>4. PICK h : OneByOne(a0, n, la, h)
  <2>. HIDE DEF n
  <2>1. n \in Nat /\ DOMAIN la = 1..n
    BY <1>1
  <2>. QED  BY <2>1, HandleOneByOne
<1>5. ASSUME NEW k \in 1..n
      PROVE  /\ Rest(k - 1) = Rest(k) \cup {la[k]} /\ la[k] \in PaintMsgs
             /\ Unique(Rest(k) \cup {la[k]}) /\ Ahead(la[k], Rest(k))
  <2>1. (k - 1) + 1 = k /\ k..n = {k} \cup ((k + 1)..n)
    BY <1>1
  <2>2. Rest(k - 1) = Rest(k) \cup {la[k]}
    <3>1. {la[i] : i \in k..n} = {la[k]} \cup {la[i] : i \in (k + 1)..n}
      BY <2>1
    <3>. QED  BY <2>1, <3>1
  <2>3. Rest(k) \cup {la[k]} \subseteq S0
    <3>1. \A i \in k..n : i \in 1..n
      BY <1>1
    <3>2. \A i \in k..n : la[i] \in Range(la)
      BY <1>1, <3>1 DEF Range
    <3>. QED  BY <2>1, <2>2, <3>2
  <2>4. Unique(Rest(k) \cup {la[k]})
    BY <1>2, <2>3 DEF Unique
  <2>5. ASSUME NEW x \in Rest(k) PROVE <<la[k], x>> \in ByNumber
    <3>1. CASE x \in D
      BY <1>1, <3>1 DEF Ordered, Range
    <3>2. CASE x \notin D
      <4>1. PICK i \in (k + 1)..n : x = la[i]
        BY <3>2
      <4>2. i \in 1..n /\ k < i
        BY <1>1
      <4>. QED  BY <4>1, <4>2 DEF Ordered, Sorted
    <3>. QED  BY <3>1, <3>2
  <2>6. Ahead(la[k], Rest(k))
    BY <1>1, <2>5 DEF Ahead, ByNumber
  <2>. QED  BY <1>1, <2>2, <2>4, <2>6
<1>. HIDE DEF Rest, S0, D
<1>6. DEFINE Good == {k \in Nat : k <= n => Through(p, S0, a0, Rest(k), h[k])}
<1>7. 0 \in Good
  <2>1. Range(a0.out) \subseteq Range(a0.out)
    OBVIOUS
  <2>2. Content(p, S0, a0.replica)
    BY DEF S0, D
  <2>. QED  BY <1>3, <1>4, <2>2 DEF Through, OneByOne
<1>8. ASSUME NEW k \in 0..(n - 1), k \in Good PROVE k + 1 \in Good
  <2>. SUFFICES Through(p, S0, a0, Rest(k + 1), h[k + 1])
    BY <1>1
  <2>1. k \in Nat /\ k + 1 \in Nat /\ k + 1 \in 1..n /\ (k + 1) - 1 = k /\ k <= n
    BY <1>1
  <2>2. Through(p, S0, a0, Rest(k), h[k])
    BY <1>8, <2>1
  <2>3. /\ Rest(k) = Rest(k + 1) \cup {la[k + 1]} /\ la[k + 1] \in PaintMsgs
        /\ Unique(Rest(k + 1) \cup {la[k + 1]}) /\ Ahead(la[k + 1], Rest(k + 1))
    BY <1>5, <2>1
  <2>4. h[k + 1] = Handle(h[k], la[k + 1])
    BY <1>4, <2>1 DEF OneByOne
  <2>5. Through(p, S0, a0, Rest(k + 1) \cup {la[k + 1]}, h[k])
    BY <2>2, <2>3
  <2>. HIDE DEF Good
  <2>. QED  BY <2>3, <2>4, <2>5, HandleGoesOn
<1>9. n \in Good
  <2>1. \A k \in 0..(n - 1) : k \in Good => k + 1 \in Good
    BY <1>8
  <2>. HIDE DEF Good, n
  <2>2. \A k \in 0..n : k \in Good
    BY <1>1, <1>7, <2>1, NumberInduction
  <2>. QED  BY <1>1, <2>2
<1>10. Through(p, S0, a0, Rest(n), h[n])
  BY <1>1, <1>9
<1>. QED  BY <1>3, <1>4, <1>10 DEF S0, D, OneByOne

-----------------------------------------------------------------------------
(*                        What the room sends                              *)

OnTheWay(la, dn) == Range(la) \cup Range(dn)
Coming(p, dn) == Loading(p.round) \in Range(dn)

(* The paint of the round is at hand: a snapshot is on its way with all    *)
(* that came after it, and the announcement of the round will not void it, *)
(* or the replica is in step.                                              *)
Base(p, la, dn, ld, r) ==
  \/ \E m \in OnTheWay(la, dn) :
       /\ m \in Snapshots /\ m.round = p.round
       /\ Complete(p, Since(p, OnTheWay(la, dn), m.seq), m.seq)
       /\ Coming(p, dn) => m \in Range(dn)
  \/ ~ Coming(p, dn) /\ ld = <<>> /\ InStep(p, OnTheWay(la, dn), r)

(* What is right of the queues.                                            *)
Carried(p, la, dn, r) ==
  /\ la \in Seq(PaintMsgs) /\ dn \in Seq(Messages)
  /\ Ordered(la, dn) /\ Content(p, OnTheWay(la, dn), r)

(* Messages that come after all others are added.                          *)
LEMMA QueueGrows ==
  ASSUME NEW la, NEW dn \in Seq(Messages), Ordered(la, dn), NEW ms \in Seq(Messages),
         Sorted(ms, ByNumber), Sorted(ms, ByRound),
         \A a \in OnTheWay(la, dn), b \in Range(ms) : <<a, b>> \in ByNumber,
         \A a \in Range(dn), b \in Range(ms) : <<a, b>> \in ByRound
  PROVE  /\ dn \o ms \in Seq(Messages) /\ Ordered(la, dn \o ms)
         /\ Range(dn \o ms) = Range(dn) \cup Range(ms)
         /\ OnTheWay(la, dn \o ms) = OnTheWay(la, dn) \cup Range(ms)
<1>1. dn \o ms \in Seq(Messages) /\ Range(dn \o ms) = Range(dn) \cup Range(ms)
  BY RangeOfConcat
<1>2. Sorted(dn \o ms, ByNumber)
  <2>1. \A a \in Range(dn), b \in Range(ms) : <<a, b>> \in ByNumber
    BY DEF OnTheWay
  <2>. QED  BY <2>1, SortedConcat DEF Ordered
<1>3. Sorted(dn \o ms, ByRound)
  BY SortedConcat DEF Ordered
<1>4. \A a \in Range(la), b \in Range(dn \o ms) : <<a, b>> \in ByNumber
  BY <1>1 DEF Ordered, OnTheWay
<1>. HIDE DEF Sorted
<1>5. Ordered(la, dn \o ms)
  BY <1>2, <1>3, <1>4 DEF Ordered
<1>. QED  BY <1>1, <1>5 DEF OnTheWay

(* What the room tells now comes after all it told before.                 *)
LEMMA NewsComesLast ==
  ASSUME NEW p, NEW S, Bounded(p, S), NEW b \in PaintMsgs, b.round = p.round, Lo(b) >= p.seq, p.seq \in Nat
  PROVE  \A a \in S : <<a, b>> \in ByNumber /\ <<a, b>> \in ByRound
<1>. SUFFICES ASSUME NEW a \in S PROVE <<a, b>> \in ByNumber /\ <<a, b>> \in ByRound
  OBVIOUS
<1>1. a \in Messages /\ b \in Messages /\ b \notin Loadings /\ a.round <= p.round
  BY MessageTypes DEF Bounded
<1>2. a \in PaintMsgs /\ a.round = b.round => Hi(a) <= Lo(b)
  <2>1. a \in PaintMsgs /\ a.round = b.round => Hi(a) <= p.seq /\ Hi(a) \in Nat /\ Lo(b) \in Nat
    BY MessageTypes DEF Bounded
  <2>. QED  BY <2>1
<1>. QED  BY <1>1, <1>2 DEF ByNumber, ByRound

(* The room sends its paint.                                               *)
LEMMA SnapshotSent ==
  ASSUME NEW p, Arena(p), NEW la, NEW dn, NEW r, Carried(p, la, dn, r), NEW ld
  PROVE  /\ Carried(p, la, dn \o <<SnapshotOf(p)>>, r)
         /\ Base(p, la, dn \o <<SnapshotOf(p)>>, ld, r)
         /\ Coming(p, dn \o <<SnapshotOf(p)>>) <=> Coming(p, dn)
         /\ Range(dn \o <<SnapshotOf(p)>>) = Range(dn) \cup {SnapshotOf(p)}
<1>. DEFINE m == SnapshotOf(p)
            dn2 == dn \o <<m>>
            S == OnTheWay(la, dn)
<1>1. /\ p \in Painting /\ p.seq \in Nat /\ m \in Snapshots /\ m \in PaintMsgs
      /\ m.round = p.round /\ m.seq = p.seq
  BY ArenaTypes DEF Arena
<1>2. Content(p, S, r) /\ Bounded(p, S)
  BY DEF Carried, Content
<1>3. /\ Content(p, S \cup {m}, r) /\ Complete(p, Since(p, S \cup {m}, p.seq), p.seq)
  BY <1>2, SnapshotAdded
<1>. HIDE DEF m
<1>4. Lo(m) >= p.seq /\ m \in Messages /\ m \notin Loadings
  BY <1>1, KindsDiffer, MessageTypes
<1>5. Range(<<m>>) = {m} /\ <<m>> \in Seq(Messages)
  BY <1>4 DEF Range
<1>6. \A a \in S : <<a, m>> \in ByNumber /\ <<a, m>> \in ByRound
  BY <1>1, <1>2, <1>4, NewsComesLast
<1>7. Sorted(<<m>>, ByNumber) /\ Sorted(<<m>>, ByRound)
  BY SortedShort
<1>8. /\ dn2 \in Seq(Messages) /\ Ordered(la, dn2) /\ OnTheWay(la, dn2) = S \cup {m}
      /\ Range(dn2) = Range(dn) \cup {m}
  <2>1. \A a \in S, b \in Range(<<m>>) : <<a, b>> \in ByNumber
    BY <1>5, <1>6
  <2>2. \A a \in Range(dn), b \in Range(<<m>>) : <<a, b>> \in ByRound
    BY <1>5, <1>6 DEF OnTheWay
  <2>3. dn \in Seq(Messages) /\ Ordered(la, dn)
    BY DEF Carried
  <2>. DEFINE ms == <<m>>
  <2>4. /\ ms \in Seq(Messages) /\ Sorted(ms, ByNumber) /\ Sorted(ms, ByRound)
        /\ \A a \in OnTheWay(la, dn), b \in Range(ms) : <<a, b>> \in ByNumber
        /\ \A a \in Range(dn), b \in Range(ms) : <<a, b>> \in ByRound
    BY <1>5, <1>7, <2>1, <2>2, <2>3
  <2>. HIDE DEF ms
  <2>5. /\ dn \o ms \in Seq(Messages) /\ Ordered(la, dn \o ms)
        /\ Range(dn \o ms) = Range(dn) \cup Range(ms)
        /\ OnTheWay(la, dn \o ms) = OnTheWay(la, dn) \cup Range(ms)
    BY <2>3, <2>4, QueueGrows
  <2>. QED  BY <1>5, <2>5 DEF ms
<1>9. Carried(p, la, dn2, r)
  BY <1>3, <1>8 DEF Carried
<1>10. Base(p, la, dn2, ld, r)
  BY <1>1, <1>3, <1>8 DEF Base
<1>11. Coming(p, dn2) <=> Coming(p, dn)
  <2>1. Loading(p.round) \in Loadings
    BY <1>1, ArenaTypes DEF Loading, Loadings
  <2>. QED  BY <1>4, <1>8, <2>1 DEF Coming
<1>. QED  BY <1>8, <1>9, <1>10, <1>11 DEF m

(* The room announces a round.                                             *)
LEMMA RoundAnnounced ==
  ASSUME NEW p, p \in Painting, NEW la, NEW dn, NEW r, Carried(p, la, dn, r)
  PROVE  LET q == Blank(p.round + 1, TRUE)
             dn2 == dn \o <<Loading(q.round)>>
         IN  /\ Arena(q) /\ q.round = p.round + 1 /\ p.round \in Nat
             /\ Carried(q, la, dn, r) /\ Carried(q, la, dn2, r)
             /\ Range(dn2) = Range(dn) \cup {Loading(q.round)}
<1>. DEFINE q == Blank(p.round + 1, TRUE)
            m == Loading(q.round)
            dn2 == dn \o <<m>>
            S == OnTheWay(la, dn)
<1>1. p.round \in Nat /\ q.round = p.round + 1
  BY ArenaTypes DEF Blank
<1>2. Content(p, S, r) /\ la \in Seq(PaintMsgs) /\ dn \in Seq(Messages) /\ Ordered(la, dn)
  BY DEF Carried
<1>3. Content(q, S, r) /\ Arena(q)
  BY <1>2, NewRoundStarts
<1>. HIDE DEF q
<1>4. Content(q, S \cup {m}, r)
  BY <1>3, LoadingAdded DEF Arena
<1>5. m \in Loadings /\ m \in Messages /\ m.round = q.round /\ m \notin PaintMsgs
  BY <1>1, MessageTypes DEF Loading, Loadings, Messages
<1>. HIDE DEF m
<1>6. \A a \in S : <<a, m>> \in ByNumber /\ <<a, m>> \in ByRound
  <2>. SUFFICES ASSUME NEW a \in S PROVE <<a, m>> \in ByNumber /\ <<a, m>> \in ByRound
    OBVIOUS
  <2>1. a \in Messages /\ a.round \in Nat /\ a.round <= p.round
    BY <1>2, MessageTypes DEF Content, Bounded
  <2>. QED  BY <1>1, <1>5, <2>1 DEF ByNumber, ByRound
<1>7. Range(<<m>>) = {m} /\ <<m>> \in Seq(Messages)
  BY <1>5 DEF Range
<1>8. Sorted(<<m>>, ByNumber) /\ Sorted(<<m>>, ByRound)
  BY SortedShort
<1>9. /\ dn2 \in Seq(Messages) /\ Ordered(la, dn2) /\ OnTheWay(la, dn2) = S \cup {m}
      /\ Range(dn2) = Range(dn) \cup {m}
  <2>1. \A a \in S, b \in Range(<<m>>) : <<a, b>> \in ByNumber
    BY <1>6, <1>7
  <2>2. \A a \in Range(dn), b \in Range(<<m>>) : <<a, b>> \in ByRound
    BY <1>6, <1>7 DEF OnTheWay
  <2>. DEFINE ms == <<m>>
  <2>4. /\ ms \in Seq(Messages) /\ Sorted(ms, ByNumber) /\ Sorted(ms, ByRound)
        /\ \A a \in OnTheWay(la, dn), b \in Range(ms) : <<a, b>> \in ByNumber
        /\ \A a \in Range(dn), b \in Range(ms) : <<a, b>> \in ByRound
    BY <1>2, <1>7, <1>8, <2>1, <2>2
  <2>. HIDE DEF ms
  <2>5. /\ dn \o ms \in Seq(Messages) /\ Ordered(la, dn \o ms)
        /\ Range(dn \o ms) = Range(dn) \cup Range(ms)
        /\ OnTheWay(la, dn \o ms) = OnTheWay(la, dn) \cup Range(ms)
    BY <1>2, <2>4, QueueGrows
  <2>. QED  BY <1>7, <2>5 DEF ms
<1>10. Carried(q, la, dn2, r) /\ Carried(q, la, dn, r)
  BY <1>2, <1>3, <1>4, <1>9 DEF Carried
<1>11. /\ Arena(q) /\ q.round = p.round + 1 /\ p.round \in Nat
       /\ Carried(q, la, dn, r) /\ Carried(q, la, dn2, r)
       /\ Range(dn2) = Range(dn) \cup {Loading(q.round)}
  BY <1>1, <1>3, <1>9, <1>10 DEF m
<1>. QED  BY <1>11, Zenon DEF q, m

(* The deltas of a flush come last and in order.                           *)
LEMMA DeltasInOrder ==
  ASSUME NEW p, Arena(p), NEW q, NEW ds, Flushes(p, q, ds), NEW S, Bounded(p, S)
  PROVE  /\ ds \in Seq(Messages) /\ Sorted(ds, ByNumber) /\ Sorted(ds, ByRound)
         /\ \A a \in S, b \in Range(ds) : <<a, b>> \in ByNumber /\ <<a, b>> \in ByRound
         /\ \A b \in Range(ds) : b \in PaintMsgs /\ b.round = p.round
<1>1. p.seq \in Nat /\ ds \in Seq(DeltaMsgs) /\ DOMAIN ds = 1..Len(ds) /\ Len(ds) \in Nat /\ p.round \in Nat
      /\ \A k \in 1..Len(ds) : ds[k] \in DeltaMsgs
  BY ArenaTypes DEF Arena, Flushes
<1>2. ASSUME NEW k \in 1..Len(ds)
      PROVE  /\ ds[k] \in PaintMsgs /\ ds[k] \in Messages /\ ds[k] \notin Loadings /\ ds[k].round = p.round
             /\ Lo(ds[k]) = p.seq + k - 1 /\ Hi(ds[k]) = p.seq + k /\ Lo(ds[k]) >= p.seq
  <2>1. ds[k].round = p.round /\ ds[k].from = p.seq + k - 1 /\ ds[k].to = p.seq + k
    BY DEF Flushes
  <2>2. ds[k] \in PaintMsgs
    BY <1>1 DEF PaintMsgs
  <2>3. ds[k] \in Messages /\ ds[k] \notin Loadings
    BY <2>2, MessageTypes
  <2>4. Lo(ds[k]) = p.seq + k - 1 /\ Hi(ds[k]) = p.seq + k
    BY <1>1, <2>1, KindsDiffer
  <2>5. p.seq + k - 1 >= p.seq
    BY <1>1
  <2>. QED  BY <2>1, <2>2, <2>3, <2>4, <2>5
<1>3. ds \in Seq(Messages)
  BY <1>1, <1>2
<1>4. ASSUME NEW i \in 1..Len(ds), NEW j \in 1..Len(ds), i < j
      PROVE  <<ds[i], ds[j]>> \in ByNumber /\ <<ds[i], ds[j]>> \in ByRound
  <2>1. Hi(ds[i]) <= Lo(ds[j])
    <3>1. p.seq + i <= p.seq + j - 1
      BY <1>1, <1>4
    <3>. QED  BY <1>2, <3>1
  <2>2. ds[i].round <= ds[j].round
    BY <1>1, <1>2
  <2>. QED  BY <1>2, <2>1, <2>2 DEF ByNumber, ByRound
<1>5. \A b \in Range(ds) : b \in PaintMsgs /\ b.round = p.round /\ Lo(b) >= p.seq
  BY <1>1, <1>2 DEF Range
<1>6. \A a \in S, b \in Range(ds) : <<a, b>> \in ByNumber /\ <<a, b>> \in ByRound
  BY <1>1, <1>5, NewsComesLast
<1>. QED  BY <1>3, <1>4, <1>5, <1>6 DEF Sorted

(* What a flush changes, heard or not.                                     *)
GoesOut(p, q, la, dn, ds, ld, r) ==
  /\ Arena(q) /\ q.round = p.round
  /\ Carried(q, la, dn, r) /\ Carried(q, la, dn \o ds, r)
  /\ Base(p, la, dn, ld, r) => Base(q, la, dn \o ds, ld, r)
  /\ Coming(q, dn \o ds) <=> Coming(p, dn)
  /\ \A m \in Range(dn \o ds) : m \in Range(dn) \/ m.round = p.round

(* The deltas of a flush go out.                                           *)
LEMMA FlushGoesOut ==
  ASSUME NEW p, Arena(p), NEW la, NEW dn, NEW r, Carried(p, la, dn, r), NEW ld,
         NEW q, NEW ds, Flushes(p, q, ds)
  PROVE  GoesOut(p, q, la, dn, ds, ld, r)
<1>. DEFINE S == OnTheWay(la, dn)
            dn2 == dn \o ds
<1>1. /\ p \in Painting /\ p.seq \in Nat /\ q \in Painting /\ q.round = p.round /\ Arena(q)
  BY ArenaTypes DEF Arena, Flushes
<1>2. la \in Seq(PaintMsgs) /\ dn \in Seq(Messages) /\ Ordered(la, dn) /\ Content(p, S, r) /\ Bounded(p, S)
  BY DEF Carried, Content
<1>3. Content(q, S, r)
  BY <1>2, FlushUnheard
<1>4. Content(q, S \cup Range(ds), r)
  BY <1>2, FlushSent
<1>. HIDE DEF S
<1>5. /\ ds \in Seq(Messages) /\ Sorted(ds, ByNumber) /\ Sorted(ds, ByRound)
      /\ \A a \in S, b \in Range(ds) : <<a, b>> \in ByNumber /\ <<a, b>> \in ByRound
      /\ \A b \in Range(ds) : b \in PaintMsgs /\ b.round = p.round
  BY <1>2, DeltasInOrder
<1>6. dn2 \in Seq(Messages) /\ Ordered(la, dn2) /\ OnTheWay(la, dn2) = S \cup Range(ds)
      /\ Range(dn2) = Range(dn) \cup Range(ds)
  <2>1. \A a \in OnTheWay(la, dn), b \in Range(ds) : <<a, b>> \in ByNumber
    BY <1>5 DEF S
  <2>2. \A a \in Range(dn), b \in Range(ds) : <<a, b>> \in ByRound
    BY <1>5 DEF S, OnTheWay
  <2>. QED  BY <1>2, <1>5, <2>1, <2>2, QueueGrows DEF S
<1>. HIDE DEF dn2
<1>7. Carried(q, la, dn, r) /\ Carried(q, la, dn2, r)
  BY <1>2, <1>3, <1>4, <1>6 DEF Carried, S
<1>8. Coming(q, dn2) <=> Coming(p, dn)
  <2>1. Loading(p.round) \in Loadings
    BY <1>1, ArenaTypes DEF Loading, Loadings
  <2>2. Loading(p.round) \notin Range(ds)
    BY <1>5, <2>1, MessageTypes
  <2>. QED  BY <1>1, <1>6, <2>2 DEF Coming
<1>9. ASSUME NEW n \in Nat, n <= p.seq, Complete(p, Since(p, S, n), n)
      PROVE  Complete(q, Since(q, OnTheWay(la, dn2), n), n)
  <2>1. p \in Painting /\ Bounded(p, S)
    BY <1>1, <1>2
  <2>2. Complete(q, Since(q, S \cup Range(ds), n), n)
    BY <1>9, <2>1, FlushedSince
  <2>. QED  BY <1>6, <2>2
<1>10. ASSUME Base(p, la, dn, ld, r) PROVE Base(q, la, dn2, ld, r)
  <2>1. CASE \E m \in S : /\ m \in Snapshots /\ m.round = p.round
                          /\ Complete(p, Since(p, S, m.seq), m.seq)
                          /\ Coming(p, dn) => m \in Range(dn)
    <3>1. PICK m \in S : /\ m \in Snapshots /\ m.round = p.round
                         /\ Complete(p, Since(p, S, m.seq), m.seq)
                         /\ Coming(p, dn) => m \in Range(dn)
      BY <2>1
    <3>2. m.seq \in Nat /\ m.seq <= p.seq
      BY <1>2, <3>1, KindsDiffer DEF Bounded, PaintMsgs
    <3>3. Complete(q, Since(q, OnTheWay(la, dn2), m.seq), m.seq)
      BY <1>9, <3>1, <3>2
    <3>4. m \in OnTheWay(la, dn2) /\ (Coming(q, dn2) => m \in Range(dn2)) /\ m.round = q.round
      BY <1>1, <1>6, <1>8, <3>1
    <3>. QED  BY <3>1, <3>3, <3>4 DEF Base
  <2>2. CASE ~ Coming(p, dn) /\ ld = <<>> /\ InStep(p, S, r)
    <3>1. r.state.seq \in Nat
      BY <1>2 DEF Content, ReplicaOk, Replicas, Painting
    <3>2. r.state.seq <= p.seq /\ r.status = "synced" /\ r.expected = q.round
          /\ Complete(p, Since(p, S, r.state.seq), r.state.seq)
      BY <1>1, <1>2, <2>2 DEF Content, ReplicaOk, ReplicaOrder, InStep
    <3>3. Complete(q, Since(q, OnTheWay(la, dn2), r.state.seq), r.state.seq)
      BY <1>9, <3>1, <3>2
    <3>. QED  BY <1>8, <2>2, <3>2, <3>3 DEF Base, InStep
  <2>. QED  BY <1>10, <2>1, <2>2 DEF Base, S
<1>. QED  BY <1>1, <1>5, <1>6, <1>7, <1>8, <1>10 DEF dn2, GoesOut

(* The connection is new: only what was kept is left, and the round is     *)
(* announced.                                                              *)
LEMMA ConnectionBegins ==
  ASSUME NEW p, Arena(p), NEW la \in Seq(PaintMsgs), Sorted(la, ByNumber), NEW r,
         Content(p, Range(la), r)
  PROVE  /\ Carried(p, la, <<>>, r) /\ Carried(p, la, <<Loading(p.round)>>, r)
         /\ Range(<<Loading(p.round)>>) = {Loading(p.round)} /\ Range(<<>>) = {}
<1>. DEFINE m == Loading(p.round)
<1>1. p \in Painting /\ m \in Loadings /\ m \in Messages /\ m \notin PaintMsgs
  BY ArenaTypes, MessageTypes DEF Arena, Loading, Loadings, Messages
<1>2. Content(p, Range(la) \cup {m}, r)
  BY <1>1, LoadingAdded
<1>. HIDE DEF m
<1>3. Range(<<m>>) = {m} /\ Range(<<>>) = {}
  BY DEF Range
<1>4. Sorted(<<m>>, ByNumber) /\ Sorted(<<m>>, ByRound) /\ Sorted(<<>>, ByNumber) /\ Sorted(<<>>, ByRound)
  BY SortedShort
<1>5. \A a \in Range(la) : <<a, m>> \in ByNumber
  <2>1. \A a \in Range(la) : a \in Messages
    BY MessageTypes DEF Range
  <2>. QED  BY <1>1, <2>1 DEF ByNumber
<1>6. Ordered(la, <<>>) /\ Ordered(la, <<m>>)
  BY <1>3, <1>4, <1>5 DEF Ordered
<1>7. <<>> \in Seq(Messages) /\ <<m>> \in Seq(Messages)
  BY <1>1
<1>8. OnTheWay(la, <<>>) = Range(la) /\ OnTheWay(la, <<m>>) = Range(la) \cup {m}
  BY <1>3 DEF OnTheWay
<1>9. Carried(p, la, <<>>, r)
  BY <1>6, <1>7, <1>8 DEF Carried
<1>10. Carried(p, la, <<m>>, r)
  BY <1>2, <1>6, <1>7, <1>8 DEF Carried
<1>. QED  BY <1>3, <1>9, <1>10 DEF m

-----------------------------------------------------------------------------
(*                       What reaches the client                           *)

(* The oldest message is taken off the queue.                              *)
LEMMA HeadIsFirst ==
  ASSUME NEW p, p \in Painting, NEW la, NEW dn, NEW r, Carried(p, la, dn, r), dn # <<>>
  PROVE  /\ Tail(dn) \in Seq(Messages) /\ Head(dn) \in Messages /\ Head(dn) \in Range(dn)
         /\ Range(dn) = Range(Tail(dn)) \cup {Head(dn)} /\ Head(dn).round <= p.round
         /\ Sorted(Tail(dn), ByNumber) /\ Sorted(Tail(dn), ByRound)
         /\ \A m \in Range(Tail(dn)) : <<Head(dn), m>> \in ByNumber /\ <<Head(dn), m>> \in ByRound
         /\ \A a \in Range(la) : <<a, Head(dn)>> \in ByNumber
         /\ \A a \in Range(la), b \in Range(Tail(dn)) : <<a, b>> \in ByNumber
         /\ Carried(p, la, Tail(dn), r) /\ Unique(OnTheWay(la, dn))
         /\ Coming(p, Tail(dn)) => Coming(p, dn) /\ Head(dn).round < p.round
         /\ Head(dn) \notin Loadings => (Coming(p, Tail(dn)) <=> Coming(p, dn))
<1>1. la \in Seq(PaintMsgs) /\ dn \in Seq(Messages) /\ Ordered(la, dn) /\ Content(p, OnTheWay(la, dn), r)
  BY DEF Carried
<1>2. Sorted(dn, ByNumber) /\ Sorted(dn, ByRound)
  BY <1>1 DEF Ordered
<1>3. /\ Tail(dn) \in Seq(Messages) /\ Head(dn) \in Messages
      /\ Range(dn) = Range(Tail(dn)) \cup {Head(dn)}
  BY <1>1, RangeOfTail
<1>4. Sorted(Tail(dn), ByNumber) /\ \A m \in Range(Tail(dn)) : <<Head(dn), m>> \in ByNumber
  BY <1>1, <1>2, SortedTail
<1>5. Sorted(Tail(dn), ByRound) /\ \A m \in Range(Tail(dn)) : <<Head(dn), m>> \in ByRound
  BY <1>1, <1>2, SortedTail
<1>6. /\ \A a \in Range(la) : <<a, Head(dn)>> \in ByNumber
      /\ \A a \in Range(la), b \in Range(Tail(dn)) : <<a, b>> \in ByNumber
  BY <1>1, <1>3 DEF Ordered
<1>7. Unique(OnTheWay(la, dn))
  BY <1>1, OrderedIsUnique DEF OnTheWay
<1>8. Content(p, OnTheWay(la, Tail(dn)), r)
  <2>1. OnTheWay(la, Tail(dn)) \subseteq OnTheWay(la, dn)
    BY <1>3 DEF OnTheWay
  <2>. QED  BY <1>1, <1>7, <2>1, FewerMessages
<1>9. Carried(p, la, Tail(dn), r)
  BY <1>1, <1>3, <1>4, <1>5, <1>6, <1>8 DEF Carried, Ordered
<1>10. Head(dn).round <= p.round
  BY <1>1, <1>3 DEF Content, Bounded, OnTheWay
<1>11. Loading(p.round) \in Loadings /\ Loading(p.round).round = p.round
  BY ArenaTypes DEF Loading, Loadings
<1>12. ASSUME Coming(p, Tail(dn)) PROVE Coming(p, dn) /\ Head(dn).round < p.round
  BY <1>3, <1>5, <1>11, <1>12 DEF Coming, ByRound
<1>13. ASSUME Head(dn) \notin Loadings PROVE Coming(p, Tail(dn)) <=> Coming(p, dn)
  BY <1>3, <1>11, <1>13 DEF Coming
<1>14. Head(dn) \in Range(dn)
  BY <1>3
<1>. QED  BY <1>3, <1>4, <1>5, <1>6, <1>7, <1>9, <1>10, <1>12, <1>13, <1>14

(* A client that loads a map keeps the paint.                              *)
LEMMA PaintIsKept ==
  ASSUME NEW p, p \in Painting, NEW la, NEW dn, NEW r, Carried(p, la, dn, r), dn # <<>>,
         Head(dn) \in PaintMsgs, NEW ld, ld # <<>>
  PROVE  /\ Carried(p, Append(la, Head(dn)), Tail(dn), r)
         /\ Base(p, la, dn, ld, r) => Base(p, Append(la, Head(dn)), Tail(dn), ld, r)
<1>. DEFINE m == Head(dn)
            la2 == Append(la, m)
            dn2 == Tail(dn)
<1>1. la \in Seq(PaintMsgs) /\ Ordered(la, dn) /\ Content(p, OnTheWay(la, dn), r) /\ Sorted(la, ByNumber)
  BY DEF Carried, Ordered
<1>2. /\ dn2 \in Seq(Messages) /\ Range(dn) = Range(dn2) \cup {m}
      /\ Sorted(dn2, ByNumber) /\ Sorted(dn2, ByRound)
      /\ \A x \in Range(dn2) : <<m, x>> \in ByNumber
      /\ \A a \in Range(la) : <<a, m>> \in ByNumber
      /\ \A a \in Range(la), b \in Range(dn2) : <<a, b>> \in ByNumber
      /\ Coming(p, dn2) => m.round < p.round
  BY HeadIsFirst
<1>3. Coming(p, dn2) <=> Coming(p, dn)
  <2>1. m \notin Loadings
    BY MessageTypes
  <2>. QED  BY <2>1, HeadIsFirst
<1>. HIDE DEF m, dn2
<1>4. la2 \in Seq(PaintMsgs) /\ Range(la2) = Range(la) \cup {m} /\ m \in PaintMsgs
  <2>1. m \in PaintMsgs
    BY DEF m
  <2>. QED  BY <1>1, <2>1, RangeOfAppend
<1>5. Sorted(la2, ByNumber)
  <2>. DEFINE ms == <<m>>
  <2>1. Sorted(ms, ByNumber) /\ ms \in Seq(PaintMsgs) /\ Range(ms) = {m} /\ la2 = la \o ms
    BY <1>1, <1>4, SortedShort DEF Range
  <2>. HIDE DEF ms
  <2>2. \A a \in Range(la), b \in Range(ms) : <<a, b>> \in ByNumber
    BY <1>2, <2>1
  <2>3. Sorted(la \o ms, ByNumber)
    BY <1>1, <2>1, <2>2, SortedConcat
  <2>. QED  BY <2>1, <2>3
<1>. HIDE DEF la2
<1>6. OnTheWay(la2, dn2) = OnTheWay(la, dn)
  BY <1>2, <1>4 DEF OnTheWay
<1>7. Ordered(la2, dn2)
  BY <1>2, <1>4, <1>5 DEF Ordered
<1>8. Carried(p, la2, dn2, r)
  BY <1>1, <1>2, <1>4, <1>6, <1>7 DEF Carried
<1>9. ASSUME Base(p, la, dn, ld, r) PROVE Base(p, la2, dn2, ld, r)
  <2>1. PICK x \in OnTheWay(la, dn) :
          /\ x \in Snapshots /\ x.round = p.round
          /\ Complete(p, Since(p, OnTheWay(la, dn), x.seq), x.seq)
          /\ Coming(p, dn) => x \in Range(dn)
    BY <1>9 DEF Base
  <2>2. Coming(p, dn2) => x \in Range(dn2)
    <3>. SUFFICES ASSUME Coming(p, dn2) PROVE x # m
      BY <1>2, <1>3, <2>1
    <3>1. m.round < p.round /\ p.round \in Nat /\ m.round \in Nat
      BY <1>2, <1>4, ArenaTypes, MessageTypes
    <3>. QED  BY <2>1, <3>1
  <2>. QED  BY <1>6, <2>1, <2>2 DEF Base
<1>. QED  BY <1>8, <1>9 DEF m, la2, dn2

(* A client whose map is there takes it at once.                           *)
LEMMA PaintIsTaken ==
  ASSUME NEW p, p \in Painting, NEW dn, NEW r, Carried(p, <<>>, dn, r), dn # <<>>, Head(dn) \in PaintMsgs
  PROVE  LET q == Received(r, Head(dn))
         IN  /\ Carried(p, <<>>, Tail(dn), q) /\ q.expected = r.expected
             /\ Base(p, <<>>, dn, <<>>, r) /\ (~ Coming(p, dn) => r.expected = p.round)
                  => Base(p, <<>>, Tail(dn), <<>>, q)
<1>. DEFINE m == Head(dn)
            dn2 == Tail(dn)
            q == Received(r, m)
            S == Range(dn2)
<1>1. /\ dn2 \in Seq(Messages) /\ Range(dn) = S \cup {m}
      /\ \A x \in S : <<m, x>> \in ByNumber
      /\ Unique(OnTheWay(<<>>, dn)) /\ (Coming(p, dn2) => m.round < p.round)
  BY HeadIsFirst
<1>2. Carried(p, <<>>, dn2, r)
  BY HeadIsFirst
<1>3. Coming(p, dn2) <=> Coming(p, dn)
  <2>1. m \notin Loadings
    BY MessageTypes
  <2>. QED  BY <2>1, HeadIsFirst
<1>4. OnTheWay(<<>>, dn) = S \cup {m} /\ OnTheWay(<<>>, dn2) = S
  <2>1. Range(<<>>) = {}
    BY DEF Range
  <2>. QED  BY <1>1, <2>1 DEF OnTheWay
<1>5. m \in PaintMsgs /\ Content(p, S \cup {m}, r)
  BY <1>4 DEF Carried
<1>. HIDE DEF m, dn2, S, q
<1>6. Ahead(m, S)
  BY <1>1, <1>5 DEF Ahead, ByNumber
<1>7. Handled(p, S, m, r, q) /\ Content(p, S, q)
  BY <1>1, <1>4, <1>5, <1>6, FirstHandled DEF q
<1>8. Carried(p, <<>>, dn2, q)
  BY <1>2, <1>4, <1>7 DEF Carried
<1>9. ASSUME Base(p, <<>>, dn, <<>>, r), ~ Coming(p, dn) => r.expected = p.round
      PROVE  Base(p, <<>>, dn2, <<>>, q)
  <2>1. CASE Coming(p, dn)
    <3>1. PICK x \in S \cup {m} :
            /\ x \in Snapshots /\ x.round = p.round
            /\ Complete(p, Since(p, S \cup {m}, x.seq), x.seq)
      BY <1>4, <1>9, <2>1 DEF Base
    <3>2. m.round < p.round /\ p.round \in Nat /\ m.round \in Nat
      BY <1>1, <1>3, <1>5, <2>1, ArenaTypes, MessageTypes
    <3>3. x \in S
      BY <3>1, <3>2
    <3>4. Since(p, S \cup {m}, x.seq) = Since(p, S, x.seq)
      BY <1>5, <1>6, <3>1, <3>3, SnapshotSince
    <3>. QED  BY <1>4, <3>1, <3>3, <3>4 DEF Base, S
  <2>2. CASE ~ Coming(p, dn)
    <3>1. Known(p, S \cup {m}) \/ InStep(p, S \cup {m}, r)
      BY <1>4, <1>9 DEF Base, Known
    <3>2. Known(p, S) \/ InStep(p, S, q)
      BY <1>7, <1>9, <2>2, <3>1 DEF Handled
    <3>. QED  BY <1>3, <1>4, <2>2, <3>2 DEF Base, Known
  <2>. QED  BY <2>1, <2>2
<1>10. q.expected = r.expected
  BY <1>7 DEF Handled
<1>. QED  BY <1>8, <1>9, <1>10 DEF m, dn2, q

(* The map is ready and what was kept is applied.                          *)
LEMMA KeptIsTaken ==
  ASSUME NEW p, p \in Painting, NEW la, NEW dn, NEW r, Carried(p, la, dn, r),
         NEW a0, Content(p, OnTheWay(la, dn), a0.replica), a0.out \in Seq(Asks), NEW ld, ld # <<>>
  PROVE  LET a == HandleAll(a0, la)
         IN  /\ Carried(p, <<>>, dn, a.replica) /\ a.replica.expected = a0.replica.expected
             /\ a.out \in Seq(Asks) /\ Range(a0.out) \subseteq Range(a.out)
             /\ Base(p, la, dn, ld, r) /\ (~ Coming(p, dn) => a0.replica.expected = p.round)
                  => Base(p, <<>>, dn, <<>>, a.replica)
<1>. DEFINE a == HandleAll(a0, la)
            S == Range(dn)
            W == OnTheWay(la, dn)
<1>1. la \in Seq(PaintMsgs) /\ dn \in Seq(Messages) /\ Ordered(la, dn)
  BY DEF Carried
<1>2. Through(p, W, a0, S, a)
  BY <1>1, AllHandled DEF OnTheWay
<1>3. OnTheWay(<<>>, dn) = S
  BY DEF OnTheWay, Range
<1>4. Ordered(<<>>, dn) /\ <<>> \in Seq(PaintMsgs)
  <2>1. Range(<<>>) = {}
    BY DEF Range
  <2>2. Sorted(<<>>, ByNumber)
    BY SortedShort
  <2>3. <<>> \in Seq(PaintMsgs)
    OBVIOUS
  <2>. QED  BY <1>1, <2>1, <2>2, <2>3 DEF Ordered
<1>. HIDE DEF a, W
<1>5. Carried(p, <<>>, dn, a.replica)
  BY <1>1, <1>2, <1>3, <1>4 DEF Carried, Through
<1>6. ASSUME Base(p, la, dn, ld, r), ~ Coming(p, dn) => a0.replica.expected = p.round
      PROVE  Base(p, <<>>, dn, <<>>, a.replica)
  <2>1. PICK x \in W :
          /\ x \in Snapshots /\ x.round = p.round
          /\ Complete(p, Since(p, W, x.seq), x.seq)
          /\ Coming(p, dn) => x \in S
    BY <1>6 DEF Base, W
  <2>2. CASE Coming(p, dn)
    <3>1. x \in S /\ x \in PaintMsgs
      BY <2>1, <2>2 DEF PaintMsgs
    <3>2. Since(p, W, x.seq) = Since(p, S, x.seq)
      <4>1. ASSUME NEW e \in Range(la), e \in DeltaMsgs, e.round = p.round PROVE ~ (e.from >= x.seq)
        <5>1. <<e, x>> \in ByNumber
          BY <1>1, <3>1 DEF Ordered
        <5>2. e.to <= x.seq
          BY <2>1, <3>1, <4>1, <5>1, KindsDiffer DEF ByNumber, PaintMsgs
        <5>. QED  BY <2>1, <4>1, <5>2, KindsDiffer
      <4>. QED  BY <4>1 DEF Since, W, OnTheWay
    <3>. QED  BY <1>3, <2>1, <3>1, <3>2 DEF Base
  <2>3. CASE ~ Coming(p, dn)
    <3>1. Known(p, W)
      BY <2>1 DEF Known
    <3>2. Known(p, S) \/ InStep(p, S, a.replica)
      BY <1>2, <1>6, <2>3, <3>1 DEF Through
    <3>. QED  BY <1>3, <2>3, <3>2 DEF Base, Known
  <2>. QED  BY <2>2, <2>3
<1>7. /\ a.replica.expected = a0.replica.expected
      /\ a.out \in Seq(Asks) /\ Range(a0.out) \subseteq Range(a.out)
  BY <1>2 DEF Through
<1>. QED  BY <1>5, <1>6, <1>7 DEF a

-----------------------------------------------------------------------------
(*                        The inductive invariant                          *)

TypeInv ==
  /\ phase \in {"lobby", "loading", "playing", "over"} /\ Arena(paint)
  /\ loaded \in BOOLEAN /\ recent \in BOOLEAN /\ inRound \in BOOLEAN
  /\ net \in {"up", "down"} /\ up \in Seq(Asks) /\ loads \in Seq(Nat)
  /\ known \in Nat /\ told \in Nat

(* Rounds go up everywhere, and a client that was told of the round and    *)
(* has prepared its map shows it.                                          *)
RoundInv ==
  /\ known <= paint.round /\ \A m \in Range(down) : known <= m.round
  /\ loads # <<>> => loads[Len(loads)] = known
  /\ loads = <<>> => later = <<>>
  /\ phase # "lobby" => paint.round > 0
  /\ net = "up" /\ told = paint.round /\ phase # "lobby" /\ ~ Coming(paint, down) =>
       known = paint.round /\ (loads = <<>> => replica.expected = paint.round)

(* Whoever is told of the round gets its paint.                            *)
Scope == net = "up" /\ told = paint.round /\ phase \in {"playing", "over"}
HelpInv ==
  Scope =>
    /\ loaded /\ recent => Base(paint, later, down, loads, replica)
    /\ \/ Base(paint, later, down, loads, replica) \/ Coming(paint, down)
       \/ loads # <<>> \/ Loaded(paint.round) \in Range(up)

PaintInv ==
  TypeInv /\ Carried(paint, later, down, replica) /\ RoundInv /\ HelpInv

(* It holds at first.                                                      *)
LEMMA PaintInit == Init => PaintInv
<1>. SUFFICES ASSUME Init PROVE PaintInv
  OBVIOUS
<1>1. /\ Blank(0, TRUE) \in Painting /\ Blank(0, TRUE).round = 0 /\ Blank(0, TRUE).tracking
      /\ Blank(0, TRUE).pending = {} /\ Blank(0, TRUE).units = Area(Blank(0, TRUE).owner)
  <2>1. 0 \in Nat /\ TRUE \in BOOLEAN
    OBVIOUS
  <2>. QED  BY <2>1, BlankIsPainting
<1>2. Arena(paint) /\ paint.round = 0
  BY <1>1 DEF Init, Arena
<1>3. TypeInv
  <2>1. <<>> \in Seq(Asks) /\ <<>> \in Seq(Nat)
    OBVIOUS
  <2>. QED  BY <1>2, <2>1 DEF Init, TypeInv
<1>4. Range(<<>>) = {}
  BY DEF Range
<1>5. Content(paint, {}, NewReplica) /\ NewReplica.expected = 0
  <2>1. /\ Blank(0, FALSE) \in Painting /\ ~ Blank(0, FALSE).tracking
        /\ Blank(0, FALSE).pending = {} /\ Blank(0, FALSE).units = Area(Blank(0, FALSE).owner)
    <3>1. 0 \in Nat /\ FALSE \in BOOLEAN
      OBVIOUS
    <3>. QED  BY <3>1, BlankIsPainting
  <2>2. <<>> \in Seq(DeltaMsgs)
    OBVIOUS
  <2>3. NewReplica \in Replicas
    BY <2>1, <2>2 DEF NewReplica, NoRound, Replicas
  <2>4. NewReplica.status = "awaiting" /\ NewReplica.expected = 0 /\ NewReplica.buffer = <<>>
    BY DEF NewReplica, NoRound
  <2>5. ReplicaOrder(paint, {}, NewReplica) /\ ReplicaTruth(paint, {}, NewReplica)
    BY <1>2, <1>4, <2>4 DEF ReplicaOrder, ReplicaTruth
  <2>. QED  BY <2>3, <2>4, <2>5 DEF Content, Bounded, Truth, ReplicaOk
<1>6. Carried(paint, later, down, replica)
  <2>1. later = <<>> /\ down = <<>> /\ replica = NewReplica
    BY DEF Init
  <2>2. Sorted(<<>>, ByNumber)
    BY SortedShort
  <2>3. Content(paint, Range(<<>>), NewReplica)
    BY <1>4, <1>5
  <2>4. <<>> \in Seq(PaintMsgs)
    OBVIOUS
  <2>. QED  BY <1>2, <2>1, <2>2, <2>3, <2>4, ConnectionBegins
<1>7. RoundInv
  <2>1. Range(down) = {} /\ loads = <<>> /\ later = <<>> /\ known = 0 /\ phase = "lobby"
    BY <1>4 DEF Init
  <2>. QED  BY <1>2, <2>1 DEF RoundInv
<1>8. HelpInv
  BY DEF Init, HelpInv, Scope
<1>. QED  BY <1>3, <1>6, <1>7, <1>8 DEF PaintInv

-----------------------------------------------------------------------------
(*                       Steps of the room                                 *)

(* startRound keeps it.                                                    *)
LEMMA StartRoundKeeps == PaintInv /\ StartRound => PaintInv'
<1>. SUFFICES ASSUME PaintInv, StartRound PROVE PaintInv'
  OBVIOUS
<1>. DEFINE q == Blank(paint.round + 1, TRUE)
            dn2 == down \o <<Loading(q.round)>>
<1>1. TypeInv /\ Carried(paint, later, down, replica) /\ RoundInv /\ paint \in Painting
  BY DEF PaintInv, TypeInv, Arena
<1>2. /\ Arena(q) /\ q.round = paint.round + 1 /\ paint.round \in Nat
      /\ Carried(q, later, down, replica) /\ Carried(q, later, dn2, replica)
      /\ Range(dn2) = Range(down) \cup {Loading(q.round)}
  BY <1>1, RoundAnnounced, Zenon
<1>. HIDE DEF q, dn2
<1>3. /\ paint' = q /\ phase' = "loading" /\ loaded' = FALSE /\ recent' = recent /\ net' = net
      /\ up' = up /\ replica' = replica /\ known' = known /\ loads' = loads /\ later' = later
      /\ (net = "up" => down' = dn2 /\ told' = q.round) /\ (net # "up" => down' = down /\ told' = told)
      /\ inRound' \in BOOLEAN
  BY DEF StartRound, Send, clientVars, q, dn2
<1>4. TypeInv'
  <2>1. told' \in Nat
    BY <1>1, <1>2, <1>3 DEF TypeInv
  <2>. QED  BY <1>1, <1>2, <1>3, <2>1 DEF TypeInv
<1>5. Carried(q, later, down', replica)
  BY <1>2, <1>3
<1>6. RoundInv'
  <2>1. known \in Nat /\ known <= q.round
    BY <1>1, <1>2 DEF TypeInv, RoundInv
  <2>2. Loading(q.round).round = q.round
    BY DEF Loading
  <2>3. \A m \in Range(down') : known <= m.round
    BY <1>1, <1>2, <1>3, <2>1, <2>2 DEF RoundInv
  <2>4. net = "up" => Coming(q, down')
    BY <1>2, <1>3 DEF Coming
  <2>5. q.round > 0
    BY <1>2
  <2>. QED  BY <1>1, <1>3, <2>1, <2>3, <2>4, <2>5 DEF RoundInv
<1>7. HelpInv'
  BY <1>3 DEF HelpInv, Scope
<1>. QED  BY <1>3, <1>4, <1>5, <1>6, <1>7 DEF PaintInv

(* beginCountdown keeps it.                                                *)
LEMMA BeginCountdownKeeps == PaintInv /\ BeginCountdown => PaintInv'
<1>. SUFFICES ASSUME PaintInv, BeginCountdown PROVE PaintInv'
  OBVIOUS
<1>. DEFINE m == SnapshotOf(paint)
            dn2 == down \o <<m>>
<1>1. TypeInv /\ Carried(paint, later, down, replica) /\ RoundInv /\ paint \in Painting /\ Arena(paint)
  BY DEF PaintInv, TypeInv, Arena
<1>2. /\ Carried(paint, later, dn2, replica) /\ Base(paint, later, dn2, loads, replica)
      /\ (Coming(paint, dn2) <=> Coming(paint, down)) /\ Range(dn2) = Range(down) \cup {m}
  BY <1>1, SnapshotSent
<1>3. m.round = paint.round /\ known <= paint.round
  BY <1>1, ArenaTypes DEF RoundInv
<1>. HIDE DEF m, dn2
<1>4. /\ paint' = paint /\ phase = "loading" /\ phase' = "playing" /\ loaded' = loaded /\ recent' = recent
      /\ net' = net /\ up' = up /\ replica' = replica /\ known' = known /\ loads' = loads
      /\ later' = later /\ (net = "up" => down' = dn2) /\ (net # "up" => down' = down)
      /\ inRound' = inRound /\ told' = told
  BY DEF BeginCountdown, Send, clientVars, m, dn2
<1>5. TypeInv'
  BY <1>1, <1>4 DEF TypeInv
<1>6. Carried(paint, later, down', replica)
  BY <1>1, <1>2, <1>4
<1>7. RoundInv'
  BY <1>1, <1>2, <1>3, <1>4 DEF RoundInv
<1>8. HelpInv'
  BY <1>2, <1>4 DEF HelpInv, Scope
<1>. QED  BY <1>4, <1>5, <1>6, <1>7, <1>8 DEF PaintInv

(* A cell that is painted keeps it.                                        *)
LEMMA PaintKeeps == PaintInv /\ Paint => PaintInv'
<1>. SUFFICES ASSUME PaintInv, Paint PROVE PaintInv'
  OBVIOUS
<1>1. TypeInv /\ Carried(paint, later, down, replica) /\ RoundInv /\ HelpInv /\ Arena(paint)
  BY DEF PaintInv, TypeInv
<1>2. PICK x \in Cells, t \in Teams : paint' = SetOwner(paint, x, t)
  BY DEF Paint
<1>3. /\ phase' = phase /\ loaded' = loaded /\ recent' = recent /\ inRound' = inRound
      /\ net' = net /\ up' = up /\ down' = down /\ replica' = replica /\ known' = known
      /\ loads' = loads /\ later' = later /\ told' = told
  BY DEF Paint, clientVars
<1>4. /\ Arena(paint') /\ Content(paint', OnTheWay(later, down), replica)
      /\ paint'.round = paint.round /\ paint'.seq = paint.seq
  BY <1>1, <1>2, PaintedInRoom DEF Carried
<1>5. Carried(paint', later, down, replica)
  BY <1>1, <1>4 DEF Carried
<1>6. TypeInv'
  BY <1>1, <1>3, <1>4 DEF TypeInv
<1>7. Coming(paint', down) <=> Coming(paint, down)
  BY <1>4 DEF Coming
<1>8. Base(paint, later, down, loads, replica) => Base(paint', later, down, loads, replica)
  BY <1>4, <1>7 DEF Base, InStep, Complete, Since
<1>9. RoundInv'
  BY <1>1, <1>3, <1>4, <1>7 DEF RoundInv
<1>10. HelpInv'
  BY <1>1, <1>3, <1>4, <1>7, <1>8 DEF HelpInv, Scope
<1>. QED  BY <1>3, <1>5, <1>6, <1>9, <1>10 DEF PaintInv

(* flushPaint keeps it.                                                    *)
LEMMA FlushPaintKeeps == PaintInv /\ FlushPaint => PaintInv'
<1>. SUFFICES ASSUME PaintInv, FlushPaint PROVE PaintInv'
  OBVIOUS
<1>. DEFINE q == Flushed(paint)
            ds == Deltas(paint)
            dn2 == down \o ds
<1>1. TypeInv /\ Carried(paint, later, down, replica) /\ RoundInv /\ HelpInv /\ Arena(paint)
  BY DEF PaintInv, TypeInv
<1>2. Flushes(paint, q, ds)
  BY <1>1, FlushIsRight
<1>. HIDE DEF q, ds
<1>3. /\ Arena(q) /\ q.round = paint.round
      /\ Carried(q, later, down, replica) /\ Carried(q, later, dn2, replica)
      /\ Base(paint, later, down, loads, replica) => Base(q, later, dn2, loads, replica)
      /\ Coming(q, dn2) <=> Coming(paint, down)
      /\ \A m \in Range(dn2) : m \in Range(down) \/ m.round = paint.round
  <2>1. GoesOut(paint, q, later, down, ds, loads, replica)
    BY <1>1, <1>2, FlushGoesOut
  <2>. QED  BY <2>1 DEF GoesOut
<1>. HIDE DEF dn2
<1>4. /\ paint' = q /\ phase = "playing" /\ phase' \in {"playing", "over"}
      /\ loaded' = loaded /\ recent' = recent /\ inRound' = inRound
      /\ net' = net /\ up' = up /\ replica' = replica /\ known' = known
      /\ loads' = loads /\ later' = later /\ told' = told
      /\ (net = "up" => down' = dn2) /\ (net # "up" => down' = down)
  BY DEF FlushPaint, Send, clientVars, q, ds, dn2
<1>5. TypeInv'
  BY <1>1, <1>3, <1>4 DEF TypeInv
<1>6. Carried(q, later, down', replica)
  BY <1>3, <1>4
<1>7. RoundInv'
  <2>1. \A m \in Range(down') : known <= m.round
    BY <1>1, <1>3, <1>4 DEF RoundInv
  <2>2. net = "up" => (Coming(q, down') <=> Coming(paint, down))
    BY <1>3, <1>4
  <2>. QED  BY <1>1, <1>3, <1>4, <2>1, <2>2 DEF RoundInv
<1>8. HelpInv'
  BY <1>1, <1>3, <1>4 DEF HelpInv, Scope
<1>. QED  BY <1>4, <1>5, <1>6, <1>7, <1>8 DEF PaintInv

(* returnToLobby keeps it.                                                 *)
LEMMA ReturnToLobbyKeeps == PaintInv /\ ReturnToLobby => PaintInv'
<1>. SUFFICES ASSUME PaintInv, ReturnToLobby PROVE PaintInv'
  OBVIOUS
<1>1. TypeInv /\ Carried(paint, later, down, replica) /\ RoundInv
  BY DEF PaintInv
<1>2. /\ paint' = paint /\ phase' = "lobby" /\ loaded' = FALSE /\ recent' = recent /\ inRound' = TRUE
      /\ net' = net /\ up' = up /\ down' = down /\ replica' = replica /\ known' = known
      /\ loads' = loads /\ later' = later /\ told' = told
  BY DEF ReturnToLobby, clientVars
<1>3. TypeInv'
  BY <1>1, <1>2 DEF TypeInv
<1>4. RoundInv'
  BY <1>1, <1>2 DEF RoundInv
<1>5. HelpInv'
  BY <1>2 DEF HelpInv, Scope
<1>. QED  BY <1>1, <1>2, <1>3, <1>4, <1>5 DEF PaintInv

(* The room answers with its paint or only notes what it was told.         *)
LEMMA AnswerKeeps ==
  ASSUME PaintInv, TypeInv', net' = net, net = "up", paint' = paint, phase' = phase, told' = told,
         replica' = replica, known' = known, loads' = loads, later' = later,
         \/ down' = down \o <<SnapshotOf(paint)>>
         \/ /\ down' = down
            /\ Scope => /\ loaded' /\ recent' => Base(paint, later, down, loads, replica)
                        /\ \/ Base(paint, later, down, loads, replica) \/ Coming(paint, down)
                           \/ loads # <<>> \/ Loaded(paint.round) \in Range(up')
  PROVE  PaintInv'
<1>. DEFINE m == SnapshotOf(paint)
            dn2 == down \o <<m>>
<1>1. TypeInv /\ Carried(paint, later, down, replica) /\ RoundInv /\ paint \in Painting /\ Arena(paint)
  BY DEF PaintInv, TypeInv, Arena
<1>2. /\ Carried(paint, later, dn2, replica) /\ Base(paint, later, dn2, loads, replica)
      /\ (Coming(paint, dn2) <=> Coming(paint, down)) /\ Range(dn2) = Range(down) \cup {m}
  BY <1>1, SnapshotSent
<1>3. m.round = paint.round /\ known <= paint.round
  BY <1>1, ArenaTypes DEF RoundInv
<1>. HIDE DEF m
<1>4. CASE down' = dn2
  <2>. HIDE DEF dn2
  <2>1. Carried(paint, later, down', replica)
    BY <1>2, <1>4
  <2>2. RoundInv'
    BY <1>1, <1>2, <1>3, <1>4 DEF RoundInv
  <2>3. HelpInv'
    BY <1>2, <1>4 DEF HelpInv
  <2>. QED  BY <2>1, <2>2, <2>3 DEF PaintInv
<1>5. CASE /\ down' = down
           /\ Scope => /\ loaded' /\ recent' => Base(paint, later, down, loads, replica)
                       /\ \/ Base(paint, later, down, loads, replica) \/ Coming(paint, down)
                          \/ loads # <<>> \/ Loaded(paint.round) \in Range(up')
  <2>1. RoundInv'
    BY <1>1, <1>5 DEF RoundInv
  <2>2. HelpInv'
    BY <1>5 DEF HelpInv, Scope
  <2>. QED  BY <1>1, <1>5, <2>1, <2>2 DEF PaintInv
<1>. QED  BY <1>4, <1>5 DEF m

(* What SendPaint does to the queue.                                       *)
LEMMA PaintIsSent ==
  ASSUME net = "up", down \in Seq(Messages), SendPaint
  PROVE  /\ phase = "lobby" => down' = down
         /\ phase # "lobby" => down' = down \o <<SnapshotOf(paint)>>
<1>1. down \o <<>> = down
  OBVIOUS
<1>. QED  BY <1>1 DEF SendPaint, Send

(* round.loaded keeps it.                                                  *)
LEMMA OnLoadedKeeps == PaintInv /\ OnLoaded => PaintInv'
<1>. SUFFICES ASSUME PaintInv, OnLoaded PROVE PaintInv'
  OBVIOUS
<1>1. TypeInv /\ HelpInv /\ up \in Seq(Asks) /\ down \in Seq(Messages)
  BY DEF PaintInv, TypeInv, Carried
<1>2. /\ up # <<>> /\ up' = Tail(up) /\ net = "up" /\ net' = net /\ paint' = paint /\ phase' = phase
      /\ told' = told /\ replica' = replica /\ known' = known /\ loads' = loads /\ later' = later
      /\ inRound' = inRound
  BY DEF OnLoaded, clientVars
<1>3. /\ Tail(up) \in Seq(Asks) /\ Range(up) = Range(Tail(up)) \cup {Head(up)}
  BY <1>1, <1>2, RangeOfTail
<1>4. loaded' \in BOOLEAN /\ recent' \in BOOLEAN
  BY <1>1 DEF OnLoaded, TypeInv
<1>5. TypeInv'
  BY <1>1, <1>2, <1>3, <1>4 DEF TypeInv
<1>6. CASE Confirms(Head(up))
  <2>1. phase = "loading" => down' = down
    BY <1>6 DEF OnLoaded
  <2>2. phase # "loading" => SendPaint
    BY <1>6 DEF OnLoaded
  <2>3. phase \in {"lobby", "loading"} => down' = down
    BY <1>1, <1>2, <2>1, <2>2, PaintIsSent
  <2>4. phase \notin {"lobby", "loading"} => down' = down \o <<SnapshotOf(paint)>>
    BY <1>1, <1>2, <2>2, PaintIsSent
  <2>5. phase \in {"lobby", "loading"} => ~ Scope
    BY DEF Scope
  <2>. QED  BY <1>2, <1>5, <2>3, <2>4, <2>5, AnswerKeeps
<1>7. CASE ~ Confirms(Head(up))
  <2>1. loaded' = loaded /\ recent' = recent /\ down' = down
    BY <1>7 DEF OnLoaded
  <2>2. Head(up) = Loaded(paint.round) => loaded /\ recent
    BY <1>7 DEF Confirms, Loaded
  <2>3. Scope => /\ loaded' /\ recent' => Base(paint, later, down, loads, replica)
                 /\ \/ Base(paint, later, down, loads, replica) \/ Coming(paint, down)
                    \/ loads # <<>> \/ Loaded(paint.round) \in Range(up')
    BY <1>1, <1>2, <1>3, <2>1, <2>2 DEF HelpInv
  <2>. QED  BY <1>2, <1>5, <2>1, <2>3, AnswerKeeps
<1>. QED  BY <1>6, <1>7

(* paint.resync keeps it.                                                  *)
LEMMA OnResyncKeeps == PaintInv /\ OnResync => PaintInv'
<1>. SUFFICES ASSUME PaintInv, OnResync PROVE PaintInv'
  OBVIOUS
<1>1. TypeInv /\ HelpInv /\ up \in Seq(Asks) /\ down \in Seq(Messages)
  BY DEF PaintInv, TypeInv, Carried
<1>2. /\ up # <<>> /\ up' = Tail(up) /\ net = "up" /\ net' = net /\ paint' = paint /\ phase' = phase
      /\ told' = told /\ replica' = replica /\ known' = known /\ loads' = loads /\ later' = later
      /\ inRound' = inRound /\ loaded' = loaded /\ Head(up).kind = "resync"
  BY DEF OnResync, clientVars
<1>3. /\ Tail(up) \in Seq(Asks) /\ Range(up) = Range(Tail(up)) \cup {Head(up)}
  BY <1>1, <1>2, RangeOfTail
<1>4. recent' \in BOOLEAN
  BY <1>1 DEF OnResync, TypeInv
<1>5. TypeInv'
  BY <1>1, <1>2, <1>3, <1>4 DEF TypeInv
<1>6. CASE Answers(Head(up))
  <2>1. SendPaint /\ phase # "lobby"
    BY <1>6 DEF OnResync, Answers
  <2>2. down' = down \o <<SnapshotOf(paint)>>
    BY <1>1, <1>2, <2>1, PaintIsSent
  <2>. QED  BY <1>2, <1>5, <2>2, AnswerKeeps
<1>7. CASE ~ Answers(Head(up))
  <2>1. recent' = recent /\ down' = down
    BY <1>7 DEF OnResync
  <2>2. Head(up) # Loaded(paint.round)
    BY <1>2 DEF Loaded
  <2>3. Scope => /\ loaded' /\ recent' => Base(paint, later, down, loads, replica)
                 /\ \/ Base(paint, later, down, loads, replica) \/ Coming(paint, down)
                    \/ loads # <<>> \/ Loaded(paint.round) \in Range(up')
    BY <1>1, <1>2, <1>3, <2>1, <2>2 DEF HelpInv
  <2>. QED  BY <1>2, <1>5, <2>1, <2>3, AnswerKeeps
<1>. QED  BY <1>6, <1>7

(* The time between two answers keeps it.                                  *)
LEMMA TimePassesKeeps == PaintInv /\ TimePasses => PaintInv'
<1>. SUFFICES ASSUME PaintInv, TimePasses PROVE PaintInv'
  OBVIOUS
<1>1. TypeInv /\ Carried(paint, later, down, replica) /\ RoundInv /\ HelpInv
  BY DEF PaintInv
<1>2. /\ paint' = paint /\ phase' = phase /\ loaded' = loaded /\ recent' = FALSE /\ inRound' = inRound
      /\ net' = net /\ up' = up /\ down' = down /\ replica' = replica /\ known' = known
      /\ loads' = loads /\ later' = later /\ told' = told
  BY DEF TimePasses, clientVars
<1>3. TypeInv'
  BY <1>1, <1>2 DEF TypeInv
<1>4. RoundInv'
  BY <1>1, <1>2 DEF RoundInv
<1>5. HelpInv'
  BY <1>1, <1>2 DEF HelpInv, Scope
<1>. QED  BY <1>1, <1>2, <1>3, <1>4, <1>5 DEF PaintInv

-----------------------------------------------------------------------------
(*                       Steps of the client                               *)

(* round.loading keeps it: what comes after is of that round.              *)
LEMMA ReceiveLoadingKeeps == PaintInv /\ ReceiveLoading => PaintInv'
<1>. SUFFICES ASSUME PaintInv, ReceiveLoading PROVE PaintInv'
  OBVIOUS
<1>. DEFINE m == Head(down)
            dn2 == Tail(down)
<1>1. TypeInv /\ Carried(paint, later, down, replica) /\ RoundInv /\ HelpInv /\ paint \in Painting
  BY DEF PaintInv, TypeInv, Arena
<1>2. /\ paint' = paint /\ phase' = phase /\ loaded' = loaded /\ recent' = recent /\ inRound' = inRound
      /\ net' = net /\ up' = up /\ replica' = replica /\ later' = later /\ told' = told
      /\ down # <<>> /\ m.kind = "loading" /\ down' = dn2 /\ known' = m.round
      /\ loads' = Append(loads, m.round)
  BY DEF ReceiveLoading, roomVars
<1>3. /\ dn2 \in Seq(Messages) /\ m \in Messages /\ m \in Range(down)
      /\ Range(down) = Range(dn2) \cup {m} /\ m.round <= paint.round
      /\ \A x \in Range(dn2) : <<m, x>> \in ByRound
      /\ Carried(paint, later, dn2, replica)
      /\ (Coming(paint, dn2) => Coming(paint, down) /\ m.round < paint.round)
  BY <1>1, <1>2, HeadIsFirst
<1>. HIDE DEF m, dn2
<1>4. m \in Loadings /\ m.round \in Nat /\ m = Loading(m.round) /\ m \notin DeltaMsgs /\ m \notin Snapshots
  <2>1. m \in Loadings
    BY <1>2, <1>3, KindsDiffer DEF Messages, PaintMsgs
  <2>. QED  BY <2>1, MessageTypes DEF Loadings, Loading, PaintMsgs
<1>5. loads \in Seq(Nat) /\ loads' \in Seq(Nat) /\ loads' # <<>> /\ loads'[Len(loads')] = m.round
  <2>1. loads \in Seq(Nat)
    BY <1>1 DEF TypeInv
  <2>. QED  BY <1>2, <1>4, <2>1
<1>6. TypeInv'
  BY <1>1, <1>2, <1>4, <1>5 DEF TypeInv
<1>7. net = "up" /\ told = paint.round /\ phase # "lobby" => Coming(paint, down)
  <2>. SUFFICES ASSUME known = paint.round PROVE Coming(paint, down)
    BY <1>1 DEF RoundInv
  <2>1. known <= m.round
    BY <1>1, <1>3 DEF RoundInv
  <2>2. m.round = paint.round
    BY <1>1, <1>3, <1>4, <2>1, ArenaTypes
  <2>. QED  BY <1>3, <1>4, <2>2 DEF Coming
<1>8. Coming(paint, down) /\ ~ Coming(paint, dn2) => m.round = paint.round
  BY <1>3 DEF Coming, Loading
<1>9. RoundInv'
  <2>1. \A x \in Range(dn2) : m.round <= x.round
    BY <1>3 DEF ByRound
  <2>. QED  BY <1>1, <1>2, <1>3, <1>5, <1>7, <1>8, <2>1 DEF RoundInv
<1>10. ASSUME Coming(paint, down), Base(paint, later, down, loads, replica)
       PROVE  Base(paint, later, dn2, loads', replica)
  <2>1. PICK x \in OnTheWay(later, down) :
          /\ x \in Snapshots /\ x.round = paint.round
          /\ Complete(paint, Since(paint, OnTheWay(later, down), x.seq), x.seq)
          /\ x \in Range(down)
    BY <1>10 DEF Base
  <2>2. OnTheWay(later, down) = OnTheWay(later, dn2) \cup {m}
    BY <1>3 DEF OnTheWay
  <2>3. Since(paint, OnTheWay(later, down), x.seq) = Since(paint, OnTheWay(later, dn2), x.seq)
    <3>1. \A S, n : Since(paint, S \cup {m}, n) = Since(paint, S, n)
      BY <1>4, SinceOfRest
    <3>. QED  BY <2>2, <3>1
  <2>4. x \in Range(dn2) /\ x \in OnTheWay(later, dn2)
    BY <1>3, <1>4, <2>1 DEF OnTheWay
  <2>. QED  BY <2>1, <2>3, <2>4 DEF Base
<1>11. HelpInv'
  BY <1>1, <1>2, <1>5, <1>7, <1>10 DEF HelpInv, Scope
<1>. QED  BY <1>2, <1>3, <1>6, <1>9, <1>11 DEF PaintInv

(* What a client sends is added to what it sent before.                    *)
LEMMA SendsAdds ==
  ASSUME NEW ms \in Seq(Asks), up \in Seq(Asks), Sends(ms)
  PROVE  /\ up' \in Seq(Asks) /\ Range(up) \subseteq Range(up')
         /\ net # "down" => Range(ms) \subseteq Range(up')
<1>1. up \o ms \in Seq(Asks) /\ Range(up \o ms) = Range(up) \cup Range(ms)
  BY RangeOfConcat
<1>2. up' = up \o ms \/ (net = "down" /\ up' = up)
  BY DEF Sends
<1>. HIDE DEF Sends
<1>. QED  BY <1>1, <1>2

(* Handling one message at once.                                           *)
LEMMA OneHandled ==
  ASSUME NEW r \in Replicas, NEW m
  PROVE  LET done == Handle([replica |-> r, out |-> <<>>], m)
         IN  done.replica = Received(r, m) /\ done.out \in Seq(Asks)
<1>1. <<>> \in Seq(Asks) /\ Resync(r.expected) \in Asks
  BY DEF Resync, Asks, Replicas
<1>2. Append(<<>>, Resync(r.expected)) \in Seq(Asks)
  BY <1>1
<1>. QED  BY <1>1, <1>2 DEF Handle

(* Paint that arrives keeps it, handled, kept or lost.                     *)
LEMMA ReceivePaintKeeps == PaintInv /\ ReceivePaint => PaintInv'
<1>. SUFFICES ASSUME PaintInv, ReceivePaint PROVE PaintInv'
  OBVIOUS
<1>. DEFINE m == Head(down)
            dn2 == Tail(down)
            done == Handle([replica |-> replica, out |-> <<>>], m)
<1>1. TypeInv /\ Carried(paint, later, down, replica) /\ RoundInv /\ HelpInv /\ paint \in Painting
  BY DEF PaintInv, TypeInv, Arena
<1>2. /\ paint' = paint /\ phase' = phase /\ loaded' = loaded /\ recent' = recent /\ inRound' = inRound
      /\ net' = net /\ told' = told /\ known' = known /\ loads' = loads
      /\ down # <<>> /\ m.kind # "loading" /\ down' = dn2 /\ net = "up"
  BY DEF ReceivePaint, roomVars
<1>3. /\ dn2 \in Seq(Messages) /\ m \in Messages /\ Range(down) = Range(dn2) \cup {m}
      /\ Carried(paint, later, dn2, replica)
  BY <1>1, <1>2, HeadIsFirst
<1>4. m \in PaintMsgs /\ m \notin Loadings
  BY <1>2, <1>3 DEF Messages, Loadings
<1>5. Coming(paint, dn2) <=> Coming(paint, down)
  BY <1>1, <1>2, <1>4, HeadIsFirst
<1>6. replica \in Replicas /\ up \in Seq(Asks)
  BY <1>1 DEF Carried, Content, ReplicaOk, TypeInv
<1>7. done.replica = Received(replica, m) /\ done.out \in Seq(Asks)
  BY <1>6, OneHandled
<1>8. CASE loads = <<>> /\ replica' = done.replica /\ Sends(done.out) /\ later' = later
  <2>. DEFINE q == Received(replica, m)
  <2>1. later = <<>>
    BY <1>1, <1>8 DEF RoundInv
  <2>2. /\ Carried(paint, <<>>, dn2, q) /\ q.expected = replica.expected
        /\ Base(paint, <<>>, down, <<>>, replica) /\ (~ Coming(paint, down) => replica.expected = paint.round)
             => Base(paint, <<>>, dn2, <<>>, q)
    BY <1>1, <1>2, <1>4, <2>1, PaintIsTaken
  <2>. HIDE DEF q, done, m, dn2
  <2>3. up' \in Seq(Asks) /\ Range(up) \subseteq Range(up')
    BY <1>6, <1>7, <1>8, SendsAdds
  <2>4. replica' = q
    BY <1>7, <1>8 DEF q
  <2>5. TypeInv'
    BY <1>1, <1>2, <2>3 DEF TypeInv
  <2>6. RoundInv'
    BY <1>1, <1>2, <1>3, <1>5, <1>8, <2>1, <2>2, <2>4 DEF RoundInv
  <2>7. Scope => (~ Coming(paint, down) => replica.expected = paint.round)
    BY <1>1, <1>8 DEF RoundInv, Scope
  <2>8. HelpInv'
    BY <1>1, <1>2, <1>5, <1>8, <2>1, <2>2, <2>3, <2>4, <2>7 DEF HelpInv, Scope
  <2>. QED  BY <1>2, <1>8, <2>1, <2>2, <2>4, <2>5, <2>6, <2>8 DEF PaintInv
<1>9. CASE loads # <<>> /\ later' = Append(later, m) /\ replica' = replica /\ up' = up
  <2>1. /\ Carried(paint, Append(later, m), dn2, replica)
        /\ Base(paint, later, down, loads, replica) => Base(paint, Append(later, m), dn2, loads, replica)
    BY <1>1, <1>2, <1>4, <1>9, PaintIsKept
  <2>. HIDE DEF done, m, dn2
  <2>2. TypeInv'
    BY <1>1, <1>2, <1>9 DEF TypeInv
  <2>3. RoundInv'
    BY <1>1, <1>2, <1>3, <1>5, <1>9 DEF RoundInv
  <2>4. HelpInv'
    BY <1>1, <1>2, <1>5, <1>9, <2>1 DEF HelpInv, Scope
  <2>. QED  BY <1>2, <1>9, <2>1, <2>2, <2>3, <2>4 DEF PaintInv
<1>10. CASE loads # <<>> /\ ~ recent /\ later' = later /\ replica' = replica /\ up' = up
  <2>. HIDE DEF done, m, dn2
  <2>2. TypeInv'
    BY <1>1, <1>2, <1>10 DEF TypeInv
  <2>3. RoundInv'
    BY <1>1, <1>2, <1>3, <1>5, <1>10 DEF RoundInv
  <2>4. HelpInv'
    BY <1>2, <1>10 DEF HelpInv, Scope
  <2>. QED  BY <1>2, <1>3, <1>10, <2>2, <2>3, <2>4 DEF PaintInv
<1>. QED  BY <1>8, <1>9, <1>10 DEF ReceivePaint

(* A map that is ready keeps it.                                           *)
LEMMA MapReadyKeeps == PaintInv /\ MapReady => PaintInv'
<1>. SUFFICES ASSUME PaintInv, MapReady PROVE PaintInv'
  OBVIOUS
<1>. DEFINE mine == Head(loads) = known
            begun == [replica |-> IF mine THEN Expecting(known) ELSE replica,
                      out |-> IF mine THEN <<Loaded(known)>> ELSE <<>>]
            done == IF Tail(loads) = <<>> THEN HandleAll(begun, later) ELSE begun
            S == OnTheWay(later, down)
<1>1. TypeInv /\ Carried(paint, later, down, replica) /\ RoundInv /\ HelpInv /\ paint \in Painting
  BY DEF PaintInv, TypeInv, Arena
<1>2. /\ paint' = paint /\ phase' = phase /\ loaded' = loaded /\ recent' = recent /\ inRound' = inRound
      /\ net' = net /\ told' = told /\ known' = known /\ down' = down
      /\ loads # <<>> /\ loads' = Tail(loads) /\ replica' = done.replica /\ Sends(done.out)
      /\ later' = IF Tail(loads) = <<>> THEN <<>> ELSE later
  BY DEF MapReady, roomVars, HandleAll
<1>3. /\ loads \in Seq(Nat) /\ Tail(loads) \in Seq(Nat) /\ Len(Tail(loads)) = Len(loads) - 1
      /\ \A i \in 1..Len(Tail(loads)) : Tail(loads)[i] = loads[i + 1]
      /\ Len(loads) \in Nat /\ Head(loads) = loads[1]
  <2>1. loads \in Seq(Nat)
    BY <1>1 DEF TypeInv
  <2>2. /\ Tail(loads) \in Seq(Nat) /\ Len(Tail(loads)) = Len(loads) - 1
        /\ \A i \in 1..Len(Tail(loads)) : Tail(loads)[i] = loads[i + 1]
    BY <1>2, <2>1, RangeOfTail
  <2>. QED  BY <2>1, <2>2
<1>4. known \in Nat /\ known <= paint.round /\ up \in Seq(Asks) /\ loads[Len(loads)] = known
  BY <1>1, <1>2 DEF TypeInv, RoundInv
<1>5. Content(paint, S, replica)
  BY <1>1 DEF Carried
<1>6. Content(paint, S, begun.replica) /\ (mine => begun.replica.expected = known)
  BY <1>4, <1>5, BeginsRound
<1>7. /\ begun.out \in Seq(Asks) /\ (mine => Loaded(known) \in Range(begun.out))
  <2>1. Loaded(known) \in Asks
    BY <1>4 DEF Loaded, Asks
  <2>2. <<Loaded(known)>> \in Seq(Asks) /\ <<>> \in Seq(Asks) /\ Range(<<Loaded(known)>>) = {Loaded(known)}
    BY <2>1 DEF Range
  <2>. QED  BY <2>2
<1>. HIDE DEF begun
<1>8. CASE Tail(loads) # <<>>
  <2>1. done = begun /\ later' = later /\ replica' = begun.replica /\ Sends(begun.out)
    BY <1>2, <1>8
  <2>2. up' \in Seq(Asks) /\ Range(up) \subseteq Range(up')
    BY <1>4, <1>7, <2>1, SendsAdds
  <2>3. TypeInv'
    BY <1>1, <1>2, <1>3, <2>2 DEF TypeInv
  <2>4. Carried(paint, later, down, begun.replica)
    BY <1>1, <1>6 DEF Carried
  <2>5. loads'[Len(loads')] = known
    <3>1. Len(Tail(loads)) \in 1..Len(Tail(loads)) /\ Len(Tail(loads)) + 1 = Len(loads)
      BY <1>3, <1>8
    <3>. QED  BY <1>2, <1>3, <1>4, <3>1
  <2>6. RoundInv'
    BY <1>1, <1>2, <1>8, <2>1, <2>5 DEF RoundInv
  <2>7. Base(paint, later, down, loads, replica) => Base(paint, later, down, Tail(loads), begun.replica)
    BY <1>2 DEF Base
  <2>8. HelpInv'
    BY <1>1, <1>2, <1>8, <2>1, <2>7 DEF HelpInv, Scope
  <2>. QED  BY <1>2, <2>1, <2>3, <2>4, <2>6, <2>8 DEF PaintInv
<1>9. CASE Tail(loads) = <<>>
  <2>. DEFINE a == HandleAll(begun, later)
  <2>1. mine
    <3>1. Len(loads) = 1
      <4>1. Len(Tail(loads)) = 0
        BY <1>9
      <4>2. Len(Tail(loads)) = Len(loads) - 1 /\ Len(loads) \in Nat
        BY <1>3
      <4>. QED  BY <4>1, <4>2
    <3>. QED  BY <1>3, <1>4, <3>1
  <2>2. /\ Carried(paint, <<>>, down, a.replica) /\ a.replica.expected = begun.replica.expected
        /\ a.out \in Seq(Asks) /\ Range(begun.out) \subseteq Range(a.out)
        /\ Base(paint, later, down, loads, replica) /\ (~ Coming(paint, down) => begun.replica.expected = paint.round)
             => Base(paint, <<>>, down, <<>>, a.replica)
    BY <1>1, <1>2, <1>6, <1>7, KeptIsTaken
  <2>. HIDE DEF a
  <2>3. later' = <<>> /\ loads' = <<>> /\ replica' = a.replica /\ Sends(a.out)
    BY <1>2, <1>9 DEF a
  <2>4. /\ up' \in Seq(Asks) /\ Range(up) \subseteq Range(up')
        /\ (net # "down" => Range(a.out) \subseteq Range(up'))
    BY <1>4, <2>2, <2>3, SendsAdds
  <2>5. TypeInv'
    BY <1>1, <1>2, <1>3, <2>4 DEF TypeInv
  <2>6. a.replica.expected = known
    BY <1>6, <2>1, <2>2
  <2>7. RoundInv'
    BY <1>1, <1>2, <2>3, <2>6 DEF RoundInv
  <2>8. Scope => (~ Coming(paint, down) => known = paint.round)
    BY <1>1 DEF RoundInv, Scope
  <2>9. Scope => Loaded(known) \in Range(up')
    BY <1>7, <2>1, <2>2, <2>4 DEF Scope
  <2>10. HelpInv'
    BY <1>1, <1>2, <2>2, <2>3, <2>6, <2>8, <2>9 DEF HelpInv, Scope
  <2>. QED  BY <1>2, <2>2, <2>3, <2>5, <2>7, <2>10 DEF PaintInv
<1>. QED  BY <1>8, <1>9

-----------------------------------------------------------------------------
(*                      Steps of the connection                            *)

(* What is not kept is forgotten.                                          *)
LEMMA OnlyKept ==
  ASSUME NEW p, p \in Painting, NEW la, NEW dn, NEW r, Carried(p, la, dn, r)
  PROVE  /\ la \in Seq(PaintMsgs) /\ Sorted(la, ByNumber)
         /\ Content(p, Range(la), r) /\ Content(p, {}, r)
<1>1. la \in Seq(PaintMsgs) /\ dn \in Seq(Messages) /\ Ordered(la, dn) /\ Content(p, OnTheWay(la, dn), r)
  BY DEF Carried
<1>2. Unique(OnTheWay(la, dn))
  BY <1>1, OrderedIsUnique DEF OnTheWay
<1>3. Range(la) \subseteq OnTheWay(la, dn) /\ {} \subseteq OnTheWay(la, dn)
  BY DEF OnTheWay
<1>4. Content(p, Range(la), r)
  BY <1>1, <1>2, <1>3, FewerMessages
<1>5. Content(p, {}, r)
  BY <1>1, <1>2, <1>3, FewerMessages
<1>. QED  BY <1>1, <1>4, <1>5 DEF Ordered

(* A drop keeps it.                                                        *)
LEMMA DropKeeps == PaintInv /\ Drop => PaintInv'
<1>. SUFFICES ASSUME PaintInv, Drop PROVE PaintInv'
  OBVIOUS
<1>1. TypeInv /\ Carried(paint, later, down, replica) /\ RoundInv /\ paint \in Painting /\ Arena(paint)
  BY DEF PaintInv, TypeInv, Arena
<1>2. /\ paint' = paint /\ phase' = phase /\ loaded' = loaded /\ recent' = recent /\ inRound' = inRound
      /\ net' = "down" /\ up' = <<>> /\ down' = <<>> /\ replica' = replica /\ known' = known
      /\ loads' = loads /\ later' = later /\ told' = told
  BY DEF Drop, roomVars, clientVars
<1>3. /\ later \in Seq(PaintMsgs) /\ Sorted(later, ByNumber) /\ Content(paint, Range(later), replica)
  BY <1>1, OnlyKept
<1>4. Carried(paint, later, <<>>, replica) /\ Range(<<>>) = {}
  BY <1>1, <1>3, ConnectionBegins
<1>5. TypeInv'
  <2>1. <<>> \in Seq(Asks)
    OBVIOUS
  <2>. QED  BY <1>1, <1>2, <2>1 DEF TypeInv
<1>6. RoundInv'
  BY <1>1, <1>2, <1>4 DEF RoundInv
<1>7. HelpInv'
  BY <1>2 DEF HelpInv, Scope
<1>. QED  BY <1>2, <1>4, <1>5, <1>6, <1>7 DEF PaintInv

(* Whoever comes back is told of the round.                                *)
LEMMA JoinKeeps ==
  ASSUME PaintInv, AfterJoinSync, net' = "up", phase' = phase, paint' = paint, recent' = recent,
         inRound' = inRound, up' \in Seq(Asks), known' \in Nat, loads' \in Seq(Nat),
         later' \in Seq(PaintMsgs), Sorted(later', ByNumber), Content(paint, Range(later'), replica'),
         known' <= paint.round, loads' # <<>> => loads'[Len(loads')] = known',
         loads' = <<>> => later' = <<>>
  PROVE  PaintInv'
<1>. DEFINE l == Loading(paint.round)
            m == SnapshotOf(paint)
            dn1 == <<l>>
            dn2 == dn1 \o <<m>>
<1>1. TypeInv /\ RoundInv /\ paint \in Painting /\ Arena(paint) /\ paint.round \in Nat
  BY ArenaTypes DEF PaintInv, TypeInv, Arena
<1>2. /\ Carried(paint, later', <<>>, replica') /\ Carried(paint, later', dn1, replica')
      /\ Range(dn1) = {l} /\ Range(<<>>) = {}
  BY <1>1, ConnectionBegins
<1>. HIDE DEF dn1
<1>3. /\ Carried(paint, later', dn2, replica') /\ Base(paint, later', dn2, loads', replica')
      /\ (Coming(paint, dn2) <=> Coming(paint, dn1)) /\ Range(dn2) = Range(dn1) \cup {m}
  BY <1>1, <1>2, SnapshotSent
<1>4. m.round = paint.round /\ l.round = paint.round
  BY <1>1, ArenaTypes DEF Loading
<1>5. Coming(paint, dn1) /\ Coming(paint, dn2)
  BY <1>2, <1>3 DEF Coming
<1>. HIDE DEF l, m
<1>6. CASE phase \in {"loading", "playing"}
  <2>1. /\ told' = paint.round /\ loaded' = (loaded /\ inRound)
        /\ down' = dn1 \o (IF phase = "playing" /\ loaded /\ inRound THEN <<m>> ELSE <<>>)
    BY <1>6 DEF AfterJoinSync, RoundSoFar, l, m, dn1
  <2>2. phase = "playing" /\ loaded /\ inRound => down' = dn2
    BY <2>1
  <2>3. ~ (phase = "playing" /\ loaded /\ inRound) => down' = dn1
    <3>1. dn1 \in Seq(Messages)
      BY <1>2 DEF Carried
    <3>2. dn1 \o <<>> = dn1
      BY <3>1
    <3>. QED  BY <2>1, <3>2
  <2>. HIDE DEF dn2
  <2>4. TypeInv'
    BY <1>1, <2>1 DEF TypeInv
  <2>5. Carried(paint, later', down', replica')
    BY <1>2, <1>3, <2>2, <2>3
  <2>6. Coming(paint, down')
    BY <1>5, <2>2, <2>3
  <2>7. RoundInv'
    <3>1. \A x \in Range(down') : known' <= x.round
      BY <1>2, <1>3, <1>4, <2>2, <2>3
    <3>. QED  BY <1>1, <2>6, <3>1 DEF RoundInv
  <2>8. HelpInv'
    <3>1. Scope' /\ loaded' => Base(paint, later', down', loads', replica')
      BY <1>3, <1>6, <2>1, <2>2 DEF Scope
    <3>. QED  BY <2>6, <3>1 DEF HelpInv
  <2>. QED  BY <2>4, <2>5, <2>7, <2>8 DEF PaintInv
<1>7. CASE phase \notin {"loading", "playing"}
  <2>1. told' = 0 /\ down' = <<>> /\ loaded' = loaded
    BY <1>7 DEF AfterJoinSync
  <2>2. TypeInv'
    BY <1>1, <2>1 DEF TypeInv
  <2>3. RoundInv'
    BY <1>1, <1>2, <2>1 DEF RoundInv
  <2>4. HelpInv'
    BY <1>1, <2>1 DEF HelpInv, Scope, RoundInv
  <2>. QED  BY <1>2, <2>1, <2>2, <2>3, <2>4 DEF PaintInv
<1>. QED  BY <1>6, <1>7

(* onReconnect keeps it.                                                   *)
LEMMA ReturnKeeps == PaintInv /\ Return => PaintInv'
<1>. SUFFICES ASSUME PaintInv, Return PROVE PaintInv'
  OBVIOUS
<1>1. TypeInv /\ Carried(paint, later, down, replica) /\ RoundInv /\ paint \in Painting
  BY DEF PaintInv, TypeInv, Arena
<1>2. /\ paint' = paint /\ phase' = phase /\ recent' = recent /\ inRound' = inRound
      /\ net' = "up" /\ up' = up /\ replica' = replica /\ known' = known
      /\ loads' = loads /\ later' = later /\ AfterJoinSync
  BY DEF Return, clientVars
<1>3. /\ later \in Seq(PaintMsgs) /\ Sorted(later, ByNumber) /\ Content(paint, Range(later), replica)
  BY <1>1, OnlyKept
<1>4. up \in Seq(Asks) /\ known \in Nat /\ loads \in Seq(Nat)
  BY <1>1 DEF TypeInv
<1>5. /\ known <= paint.round /\ (loads # <<>> => loads[Len(loads)] = known)
      /\ (loads = <<>> => later = <<>>)
  BY <1>1 DEF RoundInv
<1>. QED  BY <1>2, <1>3, <1>4, <1>5, JoinKeeps

(* takeOverSlot keeps it.                                                  *)
LEMMA ReopenKeeps == PaintInv /\ Reopen => PaintInv'
<1>. SUFFICES ASSUME PaintInv, Reopen PROVE PaintInv'
  OBVIOUS
<1>1. TypeInv /\ Carried(paint, later, down, replica) /\ paint \in Painting /\ paint.round \in Nat
  BY ArenaTypes DEF PaintInv, TypeInv, Arena
<1>2. /\ paint' = paint /\ phase' = phase /\ recent' = recent /\ inRound' = inRound
      /\ net' = "up" /\ up' = <<>> /\ replica' = NewReplica /\ known' = 0
      /\ loads' = <<>> /\ later' = <<>> /\ AfterJoinSync
  BY DEF Reopen
<1>3. Content(paint, {}, replica)
  BY <1>1, OnlyKept
<1>4. Content(paint, {}, NewReplica)
  <2>1. 0 \in Nat /\ 0 <= paint.round
    BY <1>1
  <2>2. Content(paint, {}, Expecting(0))
    BY <1>3, <2>1, BeginsRound
  <2>. QED  BY <2>2, NewReplicaBegins
<1>5. <<>> \in Seq(Asks) /\ <<>> \in Seq(Nat) /\ <<>> \in Seq(PaintMsgs) /\ Range(<<>>) = {}
  BY DEF Range
<1>6. Sorted(<<>>, ByNumber)
  BY SortedShort
<1>7. 0 <= paint.round /\ 0 \in Nat
  BY <1>1
<1>. QED  BY <1>2, <1>4, <1>5, <1>6, <1>7, JoinKeeps

-----------------------------------------------------------------------------
(*                            Theorems                                     *)

(* Every step keeps it.                                                    *)
LEMMA PaintStep == PaintInv /\ [Next]_vars => PaintInv'
<1>. SUFFICES ASSUME PaintInv, [Next]_vars PROVE PaintInv'
  OBVIOUS
<1>1. CASE UNCHANGED vars
  BY <1>1 DEF vars, PaintInv, TypeInv, RoundInv, HelpInv, Scope
<1>2. CASE Next
  BY <1>2, StartRoundKeeps, BeginCountdownKeeps, PaintKeeps, FlushPaintKeeps, ReturnToLobbyKeeps,
     OnLoadedKeeps, OnResyncKeeps, TimePassesKeeps, ReceiveLoadingKeeps, ReceivePaintKeeps,
     MapReadyKeeps, DropKeeps, ReturnKeeps, ReopenKeeps DEF Next
<1>. QED  BY <1>1, <1>2

(* The invariant above holds throughout: types, the order of what is on its *)
(* way, the truth of each message, and who still gets the paint.           *)
THEOREM PaintCorrect == Spec => []PaintInv
<1>. QED  BY PaintInit, PaintStep, PTL DEF Spec

(* The score of each team is the area it owns, in the room and in the      *)
(* replica (setOwner, applyDelta, applySnapshot).                          *)
THEOREM ScoreHolds == Spec => []ScoreIsArea
<1>1. PaintInv => ScoreIsArea
  BY DEF PaintInv, TypeInv, Arena, Carried, Content, ReplicaOk, Replicas, ScoreIsArea
<1>. QED  BY <1>1, PaintCorrect, PTL

(* Once everything sent has arrived, a synced replica equals the painting of *)
(* the room: owners, score, number and versions.                           *)
THEOREM QuietHolds == Spec => []QuietMeansEqual
<1>1. ASSUME PaintInv, Quiet, replica.status = "synced"
      PROVE  [replica.state EXCEPT !.tracking = TRUE] = paint
  <2>. DEFINE s == replica.state
  <2>1. TypeInv /\ Carried(paint, later, down, replica) /\ RoundInv /\ HelpInv /\ Arena(paint)
    BY <1>1 DEF PaintInv, TypeInv
  <2>2. Scope /\ up = <<>> /\ down = <<>> /\ loads = <<>> /\ paint.pending = {}
    BY <1>1 DEF Quiet, Scope
  <2>3. later = <<>>
    BY <2>1, <2>2 DEF RoundInv
  <2>4. Range(<<>>) = {}
    BY DEF Range
  <2>5. OnTheWay(later, down) = {} /\ Range(up) = {} /\ Range(down) = {}
    BY <2>2, <2>3, <2>4 DEF OnTheWay
  <2>6. InStep(paint, {}, replica)
    BY <2>1, <2>2, <2>5 DEF HelpInv, Base, Coming
  <2>7. /\ s \in Painting /\ ~ s.tracking /\ s.pending = {} /\ s.units = Area(s.owner)
        /\ ReplicaOrder(paint, {}, replica) /\ ReplicaTruth(paint, {}, replica)
    BY <2>1, <2>5 DEF Carried, Content, ReplicaOk, Replicas
  <2>8. paint \in Painting /\ paint.tracking /\ paint.units = Area(paint.owner)
    BY <2>1 DEF Arena
  <2>9. s.round = paint.round /\ s.seq <= paint.seq /\ replica.expected = paint.round
    BY <1>1, <2>6, <2>7 DEF InStep, ReplicaOrder
  <2>10. Since(paint, {}, s.seq) = {}
    BY DEF Since
  <2>11. Complete(paint, {}, s.seq)
    BY <2>6, <2>10 DEF InStep
  <2>12. s.seq \in Nat /\ paint.seq \in Nat
    BY <2>7, <2>8, ArenaTypes
  <2>. HIDE DEF s
  <2>13. s.seq = paint.seq
    <3>1. s.seq..(paint.seq - 1) = {}
      BY <2>11 DEF Complete
    <3>. QED  BY <2>9, <2>12, <3>1
  <2>14. Faithful(paint, {}, s.owner, s.version)
    BY <1>1, <2>7, <2>9, <2>10, <2>11 DEF ReplicaTruth, TrueAt, s
  <2>15. /\ s.owner \in Owners /\ paint.owner \in Owners
         /\ s.version \in Versions /\ paint.version \in Versions
    BY <2>7, <2>8, ArenaTypes
  <2>16. s.owner = paint.owner
    BY <2>2, <2>14, <2>15 DEF Faithful, Owners
  <2>17. s.version = paint.version
    BY <2>14, <2>15 DEF Faithful, Versions
  <2>18. s.units = paint.units
    BY <2>7, <2>8, <2>16
  <2>19. paint.tracking = TRUE /\ s.pending = paint.pending
    BY <2>2, <2>7, <2>8 DEF Painting
  <2>20. [s EXCEPT !.tracking = TRUE] = paint
    BY <2>7, <2>8, <2>9, <2>13, <2>16, <2>17, <2>18, <2>19 DEF Painting
  <2>. QED  BY <2>20 DEF s
<1>2. PaintInv => QuietMeansEqual
  BY <1>1 DEF QuietMeansEqual
<1>. QED  BY <1>2, PaintCorrect, PTL

(* Nobody waits for paint that will not come: it is there, on its way, or  *)
(* asked for in a way the room will answer.                                *)
THEOREM NobodyWaits == Spec => []NobodyWaitsForever
<1>1. ASSUME PaintInv, net = "up", phase \in {"playing", "over"}, told = paint.round, loads = <<>>
      PROVE  OnItsWay \/ (replica.expected = paint.round /\ replica.status = "synced")
  <2>1. TypeInv /\ Carried(paint, later, down, replica) /\ RoundInv /\ HelpInv /\ Scope
    BY <1>1 DEF PaintInv, Scope
  <2>2. later = <<>>
    BY <1>1, <2>1 DEF RoundInv
  <2>3. Range(<<>>) = {}
    BY DEF Range
  <2>4. OnTheWay(later, down) = Range(down)
    BY <2>2, <2>3 DEF OnTheWay
  <2>5. DOMAIN down = 1..Len(down) /\ DOMAIN up = 1..Len(up)
    BY <2>1 DEF TypeInv, Carried
  <2>6. ASSUME NEW m \in Range(down), m.kind \in {"loading", "snapshot"}, m.round = paint.round
        PROVE  OnItsWay
    BY <2>5, <2>6 DEF OnItsWay, Range
  <2>7. CASE Base(paint, later, down, loads, replica)
    <3>1. CASE \E m \in Range(down) : m \in Snapshots /\ m.round = paint.round
      BY <2>6, <3>1, KindsDiffer
    <3>2. CASE InStep(paint, OnTheWay(later, down), replica)
      BY <3>2 DEF InStep
    <3>. QED  BY <2>4, <2>7, <3>1, <3>2 DEF Base
  <2>8. CASE Coming(paint, down)
    BY <2>6, <2>8 DEF Coming, Loading
  <2>9. CASE Loaded(paint.round) \in Range(up) /\ ~ (loaded /\ recent)
    <3>1. PICK k \in 1..Len(up) : up[k] = Loaded(paint.round)
      BY <2>5, <2>9 DEF Range
    <3>2. up[k].kind = "loaded" /\ Confirms(up[k])
      BY <2>9, <3>1 DEF Loaded, Confirms
    <3>. QED  BY <3>2 DEF OnItsWay
  <2>. QED  BY <1>1, <2>1, <2>7, <2>8, <2>9 DEF HelpInv
<1>2. PaintInv => NobodyWaitsForever
  BY <1>1 DEF NobodyWaitsForever
<1>. QED  BY <1>2, PaintCorrect, PTL

=============================================================================
