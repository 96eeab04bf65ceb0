------------------------------ MODULE NavGraph ------------------------------
(***************************************************************************)
(* The way of a bot (packages/game-simulation/src/bots/NavGraph.ts): the   *)
(* places reached from the spawns are kept and numbered again, and A-star  *)
(* looks for a path between two of them, one iteration of its loop a step. *)
(*                                                                         *)
(* Where places are, and which links the physics leaves between them, are  *)
(* chosen: a graph is any subset of Links, one-way because of the drops.   *)
(* Equal priorities are taken in any order (the code takes the first one). *)
(* A path is [ids |-> ...], with no ids when there is none.                *)
(***************************************************************************)
EXTENDS Integers, Sequences, FiniteSets

CONSTANTS
  PlaceCount,     \* the sampled places, numbered as they are added
  Links,          \* the links there may be
  Spawns,         \* sets of places nearest to the spawns
  Metres,         \* Metres[a][b]: distance of two places
  SearchLimits    \* values of maxExpand

Places == 1..PlaceCount

ASSUME SizesArePositive == PlaceCount \in Nat \ {0} /\ SearchLimits \subseteq Nat
ASSUME LinksJoinPlaces == Links \subseteq Places \X Places /\ Spawns \subseteq SUBSET Places
ASSUME MetresAreMetric ==
  \A a, b, c \in Places :
    /\ Metres[a][b] \in Nat
    /\ Metres[a][b] = 0 <=> a = b
    /\ Metres[a][b] = Metres[b][a]
    /\ Metres[a][c] <= Metres[a][b] + Metres[b][c]

VARIABLES
  navStage,       \* "flood", "built", "search" or "done"
  links,          \* n.edges before compact
  reach, queue,   \* of build
  nodes,          \* nav.nodes: sequence of [place, edges]
  from, to, limit,  \* arguments of findPath
  cost, came, closed, open, expanded,
  path

searchVars == <<from, to, limit, cost, came, closed, open, expanded>>
navVars == <<navStage, links, reach, queue, nodes, searchVars, path>>

NoNode == 0
NoPath == <<>>
\* Infinity, the cost of a node nothing leads to yet
Infinite == -1

-----------------------------------------------------------------------------
(*                               build                                     *)

NavStart(kept) ==
  /\ navStage = "flood" /\ links = kept
  /\ nodes = <<>> /\ from = NoNode /\ to = NoNode /\ limit = 0
  /\ cost = <<>> /\ came = <<>> /\ closed = {} /\ open = {} /\ expanded = 0
  /\ path = NoPath

NavInit ==
  /\ \E some \in SUBSET Links :
       NavStart([n \in Places |-> {m \in Places : <<n, m>> \in some}])
  /\ reach \in Spawns /\ queue = reach

(* One place off the stack; what it leads to is put on it once.            *)
Floods ==
  /\ navStage = "flood"
  /\ \E id \in queue :
       /\ reach' = reach \cup links[id]
       /\ queue' = (queue \ {id}) \cup (links[id] \ reach)
  /\ UNCHANGED <<navStage, links, nodes, searchVars, path>>

(* Variant: links keep the numbers of before.                              *)
OldNumberVariant(n) == n

\* remap: the places that are kept, counted in order.
NewNumber(n) == Cardinality({m \in reach : m <= n})

(* compact                                                                 *)
Compacts ==
  /\ navStage = "flood" /\ queue = {}
  /\ navStage' = "built"
  /\ nodes' = [i \in 1..Cardinality(reach) |->
                 LET n == CHOOSE m \in reach : Cardinality({k \in reach : k <= m}) = i
                 IN  [place |-> n, edges |-> {NewNumber(e) : e \in links[n] \cap reach}]]
  /\ UNCHANGED <<links, reach, queue, searchVars, path>>

-----------------------------------------------------------------------------
(*                              findPath                                   *)

Between(a, b) == Metres[nodes[a].place][nodes[b].place]

\* h: the straight distance to the end
Remaining(n, end) == Between(n, end)

Asks ==
  /\ navStage = "built"
  /\ \E a, b \in DOMAIN nodes :
       /\ from' = a /\ to' = b /\ limit' \in SearchLimits
       /\ cost' = [n \in DOMAIN nodes |-> IF n = a THEN 0 ELSE Infinite]
       /\ came' = [n \in DOMAIN nodes |-> NoNode]
       /\ open' = {<<Remaining(a, b), a>>}
       /\ IF a = b THEN navStage' = "done" /\ path' = <<a>>
          ELSE navStage' = "search" /\ UNCHANGED path
  /\ UNCHANGED <<links, reach, queue, nodes, closed, expanded>>

(* The path, from its end back to where it comes from.                     *)
Traced ==
  LET back[k \in 0..Len(nodes)] ==
        IF k = 0 THEN <<to>>
        ELSE LET p == back[k - 1]
             IN  IF Head(p) = from THEN p ELSE <<came[Head(p)]>> \o p
  IN  back[Len(nodes)]

Ends(p) ==
  /\ navStage' = "done" /\ path' = p
  /\ UNCHANGED <<cost, came>>

(* Variant: the first way found to a node is kept.                         *)
FirstWayVariant(n, way) == cost[n] = Infinite

\* a way through the node being closed is shorter than the one known
Shorter(n, way) == cost[n] = Infinite \/ way < cost[n]

Expands(cur, rest) ==
  LET way(n) == cost[cur] + Between(cur, n)
      better == {n \in nodes[cur].edges \ (closed \cup {cur}) : Shorter(n, way(n))}
  IN  /\ cost' = [n \in DOMAIN nodes |-> IF n \in better THEN way(n) ELSE cost[n]]
      /\ came' = [n \in DOMAIN nodes |-> IF n \in better THEN cur ELSE came[n]]
      /\ open' = rest \cup {<<way(n) + Remaining(n, to), n>> : n \in better}
      /\ UNCHANGED <<navStage, path>>

(* One iteration: the entry of least priority, unless its node was closed. *)
Iterates ==
  /\ navStage = "search"
  /\ \E entry \in open :
       LET cur  == entry[2]
           rest == open \ {entry}
       IN  /\ \A other \in open : entry[1] <= other[1]
           /\ IF cur \in closed
              THEN open' = rest /\ UNCHANGED <<navStage, cost, came, closed, expanded, path>>
              ELSE IF cur = to
              THEN Ends(Traced) /\ open' = rest /\ UNCHANGED <<closed, expanded>>
              ELSE /\ closed' = closed \cup {cur} /\ expanded' = expanded + 1
                   /\ IF expanded + 1 > limit
                      THEN Ends(NoPath) /\ open' = rest
                      ELSE Expands(cur, rest)
  /\ UNCHANGED <<links, reach, queue, nodes, from, to, limit>>

GivesUp ==
  /\ navStage = "search" /\ open = {}
  /\ Ends(NoPath)
  /\ UNCHANGED <<links, reach, queue, nodes, from, to, limit, closed, open, expanded>>

NavNext == Floods \/ Compacts \/ Asks \/ Iterates \/ GivesUp

NavSpec == NavInit /\ [][NavNext]_navVars

-----------------------------------------------------------------------------
\* Ways without repetition between the sampled places, and what they cost.
Walks == UNION {{w \in [1..k -> Places] : \A i, j \in 1..k : w[i] = w[j] => i = j}
                : k \in 1..PlaceCount}
WalkMetres ==
  [w \in Walks |->
     LET upTo[k \in 1..Len(w)] ==
           IF k = 1 THEN 0 ELSE upTo[k - 1] + Metres[w[k - 1]][w[k]]
     IN  upTo[Len(w)]]

(* A bot that stands on a kept place gets the shortest of all ways of the  *)
(* sampled places, the ones that were not kept included, and no path only  *)
(* when there is none or the search was cut short: what compact throws     *)
(* away and numbers again, the closed nodes and the entries that were      *)
(* improved after they were queued cost it nothing (build, findPath).      *)
PathIsShortest ==
  navStage = "done" =>
    LET ways == {w \in Walks : /\ w[1] = nodes[from].place
                               /\ w[Len(w)] = nodes[to].place
                               /\ \A i \in 1..(Len(w) - 1) : w[i + 1] \in links[w[i]]}
        mine == [i \in DOMAIN path |-> nodes[path[i]].place]
    IN  IF path = NoPath THEN ways = {} \/ expanded > limit
        ELSE mine \in ways /\ \A w \in ways : WalkMetres[mine] <= WalkMetres[w]
=============================================================================
