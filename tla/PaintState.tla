------------------------------ MODULE PaintState ------------------------------
(***************************************************************************)
(* Who owns the paint, on the server and in the copy of a client           *)
(* (packages/game-simulation/src/paint/PaintState.ts and PaintReplica.ts), *)
(* as functions on records: painting, deltas, snapshots, and what a        *)
(* replica makes of them.                                                  *)
(*                                                                         *)
(* Abstractions.  A splat is a set of calls of setOwner; which cells it    *)
(* reaches is geometry and left to the caller.  The pending changes of the *)
(* code map a cell to its newest owner: the set of cells is enough, since  *)
(* the owner is in the state.  The binary encoding keeps every field, and  *)
(* the context tag never differs within one room, where the number of the  *)
(* round tells rounds apart.                                               *)
(***************************************************************************)
EXTENDS Integers, SequencesExt

CONSTANTS
  Cells, Chunks,  \* chunks are numbers: deltas go in their order
  ChunkOf,        \* of a cell
  Weight,         \* of a cell; a cell of weight zero is not painted
  Scoring,        \* the cells that count for the score
  DeltaMax,       \* PAINT_DELTA_MAX_CELLS
  BufferMax       \* PaintReplica.MAX_BUFFER

ASSUME PaintConstants ==
  /\ IsFiniteSet(Cells) /\ Chunks \subseteq Nat /\ IsFiniteSet(Chunks)
  /\ ChunkOf \in [Cells -> Chunks] /\ Weight \in [Cells -> Nat]
  /\ Scoring \subseteq Cells
  /\ DeltaMax \in Nat \ {0} /\ BufferMax \in Nat \ {0}

Teams == {0, 1}
Neutral == -1
Owners == [Cells -> Teams \cup {Neutral}]
Versions == [Chunks -> Nat]

(* A painted arena.  units is the incremental area of each team; pending   *)
(* are the cells whose change no delta has told yet.                       *)
Painting ==
  [round : Nat, seq : Nat, owner : Owners, version : Versions,
   units : [Teams -> Int], tracking : BOOLEAN, pending : SUBSET Cells]

(* reset, with tracking as it was set.                                     *)
Blank(round, tracking) ==
  [round |-> round, seq |-> 0, owner |-> [x \in Cells |-> Neutral],
   version |-> [c \in Chunks |-> 0], units |-> [t \in Teams |-> 0],
   tracking |-> tracking, pending |-> {}]

(* The area of a team, counted anew.                                       *)
AreaOf(owner, t) ==
  MapThenSumSet(LAMBDA x : Weight[x], {x \in Scoring : owner[x] = t})
Area(owner) == [t \in Teams |-> AreaOf(owner, t)]

-----------------------------------------------------------------------------
(*                             Painting                                    *)

(* The areas of both teams after a cell changes hands.                     *)
KeepsLoserVariant(s, x, t) ==
  [s.units EXCEPT ![t] = @ + Weight[x]]
Units(s, x, t) ==
  [u \in Teams |-> s.units[u] + (IF u = t THEN Weight[x] ELSE 0)
                              - (IF u = s.owner[x] THEN Weight[x] ELSE 0)]

(* setOwner: a cell changes hands.                                         *)
SetOwner(s, x, t) ==
  IF s.owner[x] = t \/ Weight[x] = 0 THEN s
  ELSE [s EXCEPT !.owner[x] = t,
                 !.units = IF x \in Scoring THEN Units(s, x, t) ELSE @,
                 !.pending = IF s.tracking THEN @ \cup {x} ELSE @]

-----------------------------------------------------------------------------
(*                         Deltas and snapshots                            *)

(* The elements of a set by a number that each of them has.                *)
Ascending(S, number) ==
  CHOOSE q \in [1..Cardinality(S) -> S] :
    \A i, j \in DOMAIN q : i < j => number[q[i]] < number[q[j]]

Touched(s) == {ChunkOf[x] : x \in s.pending}
PendingIn(s, chunks) == {x \in s.pending : ChunkOf[x] \in chunks}

(* The changed chunks in order, in parts of at most DeltaMax cells (more   *)
(* only when a single chunk has more).                                     *)
Parts(s) ==
  LET add(parts, c) ==
        IF parts # <<>> /\ Cardinality(PendingIn(s, Last(parts) \cup {c})) <= DeltaMax
        THEN [parts EXCEPT ![Len(parts)] = @ \cup {c}]
        ELSE Append(parts, {c})
  IN  FoldLeft(add, <<>>, Ascending(Touched(s), [c \in Chunks |-> c]))

(* flushDeltas: one message per part, and the state after it.              *)
Deltas(s) ==
  [k \in 1..Len(Parts(s)) |->
     LET part == Parts(s)[k]
     IN  [kind |-> "delta", round |-> s.round, from |-> s.seq + k - 1, to |-> s.seq + k,
          base |-> [c \in part |-> s.version[c]],
          cells |-> [x \in PendingIn(s, part) |-> s.owner[x]]]]
Flushed(s) ==
  [s EXCEPT !.seq = @ + Len(Parts(s)),
            !.version = [c \in Chunks |-> IF c \in Touched(s) THEN @[c] + 1 ELSE @[c]],
            !.pending = {}]

(* toSnapshot: the owners as they are, changes not yet told included.      *)
SnapshotOf(s) ==
  [kind |-> "snapshot", round |-> s.round, seq |-> s.seq,
   owner |-> s.owner, version |-> s.version]

(* applySnapshot replaces everything and counts anew.                      *)
ApplySnapshot(s, m) ==
  [s EXCEPT !.round = m.round, !.seq = m.seq, !.owner = m.owner,
            !.version = m.version, !.units = Area(m.owner)]

(* Why applyDelta refuses a delta: another round, a gap, another version.  *)
Mismatch(s, d) ==
  \/ d.round # s.round
  \/ d.from # s.seq
  \/ \E c \in DOMAIN d.base : s.version[c] # d.base[c]

(* applyDelta, when it does not refuse.                                    *)
ApplyDelta(s, d) ==
  LET painted == FoldSet(LAMBDA x, p : SetOwner(p, x, d.cells[x]), s, DOMAIN d.cells)
  IN  [painted EXCEPT
         !.version = [c \in Chunks |-> IF c \in DOMAIN d.base THEN d.base[c] + 1 ELSE @[c]],
         !.seq = d.to]

-----------------------------------------------------------------------------
(*                             The replica                                 *)

(* expected is the round it is shown; NoRound before the first.            *)
NoRound == 0
NewReplica ==
  [state |-> Blank(0, FALSE), status |-> "awaiting", buffer |-> <<>>, expected |-> NoRound]

(* expectRound: whatever came before is void.                              *)
Expecting(round) ==
  [state |-> Blank(round, FALSE), status |-> "awaiting", buffer |-> <<>>, expected |-> round]

(* A full buffer loses its oldest delta.                                   *)
Buffered(buffer, d) ==
  Append(IF Len(buffer) >= BufferMax THEN Tail(buffer) ELSE buffer, d)

(* A replica that cannot apply a delta keeps it and asks for a snapshot.   *)
Awaits(r, d) == [r EXCEPT !.status = "awaiting", !.buffer = <<d>>]

(* receiveDelta: the replica after it.                                     *)
ReceiveDelta(r, d) ==
  IF d.round # r.expected THEN r
  ELSE IF r.status = "awaiting" THEN [r EXCEPT !.buffer = Buffered(@, d)]
  ELSE IF d.to <= r.state.seq THEN r
  ELSE IF Mismatch(r.state, d) THEN Awaits(r, d)
  ELSE [r EXCEPT !.state = ApplyDelta(@, d)]

(* receiveSnapshot: what the buffer has beyond it is applied in order,     *)
(* until a delta does not fit.                                             *)
ReceiveSnapshot(r, m) ==
  LET rest   == {d \in Range(r.buffer) : d.round = m.round /\ d.to > m.seq}
      sorted == Ascending(rest, [d \in rest |-> d.from])
      synced == [r EXCEPT !.state = ApplySnapshot(@, m), !.status = "synced", !.buffer = <<>>]
      next(q, d) == IF q.status = "awaiting" THEN q ELSE ReceiveDelta(q, d)
  IN  IF m.round # r.expected THEN r ELSE FoldLeft(next, synced, sorted)

(* One message of the room, and whether the replica asks for a snapshot.   *)
Received(r, m) ==
  IF m.kind = "snapshot" THEN ReceiveSnapshot(r, m) ELSE ReceiveDelta(r, m)
AsksFor(r, m) ==
  /\ Received(r, m).status = "awaiting"
  /\ r.status = "synced" \/ (m.kind = "snapshot" /\ m.round = r.expected)

=============================================================================
