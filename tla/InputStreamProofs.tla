-------------------------- MODULE InputStreamProofs --------------------------
(***************************************************************************)
(* Theorems about the input stream of a player, for every limit of the     *)
(* queue, of the waiting and of the round, whatever inputs arrive: types,  *)
(* the order of the queue, and that nobody gains time.  The session of a   *)
(* person, with its predictor and its connection, implements the stream    *)
(* and inherits the three; and as long as the stream hears one predictor   *)
(* only, its inputs are taken, its history covers what is on its way, and  *)
(* every discrete action that reached the room is accounted for.           *)
(***************************************************************************)
EXTENDS InputSession, SequenceTheorems, FiniteSetTheorems, WellFoundedInduction, TLAPS

-----------------------------------------------------------------------------
(*                        Numbers and sequences                            *)

(* The last of some actions is one of them or the floor: a number.         *)
LEMMA HighestIsNumber ==
  ASSUME NEW S \in SUBSET Actions, NEW floor \in Nat
  PROVE  Highest(S, floor) \in S \cup {floor} /\ Highest(S, floor) \in Nat
<1>. DEFINE T == {n \in Nat : \E x \in S : n = MaxActionId - x}
<1>1. S \subseteq Nat /\ MaxActionId \in Nat /\ \A x \in S : x <= MaxActionId
  BY StreamLimits DEF Actions
<1>2. CASE S = {}
  BY <1>2 DEF Highest
<1>3. CASE S # {}
  <2>. PICK a \in S : TRUE
    BY <1>3
  <2>0. MaxActionId - a \in T
    BY <1>1
  <2>1. T # {} /\ T \subseteq Nat
    BY <2>0
  <2>2. PICK t \in T : \A u \in T : ~ (<<u, t>> \in OpToRel(<, Nat))
    BY <2>1, NatLessThanWellFounded, WFMin
  <2>3. \A u \in T : t <= u
    <3>. SUFFICES ASSUME NEW u \in T PROVE t <= u
      OBVIOUS
    <3>1. ~ (u < t)
      BY <2>1, <2>2 DEF OpToRel
    <3>. QED  BY <2>1, <3>1
  <2>4. PICK x \in S : t = MaxActionId - x
    BY <2>2
  <2>5. \A y \in S : y <= x
    BY <1>1, <2>3, <2>4
  <2>6. (CHOOSE z \in S : \A y \in S : y <= z) \in S
    BY <2>4, <2>5
  <2>. QED  BY <1>1, <2>6 DEF Highest
<1>. QED  BY <1>2, <1>3

(* A queue without its first element stays in order above that element.    *)
LEMMA TailInOrder ==
  ASSUME NEW q \in Seq(Input), q # <<>>, NEW floor \in Nat, InOrder(q, floor)
  PROVE  /\ Tail(q) \in Seq(Input) /\ Head(q) \in Input
         /\ InOrder(Tail(q), Head(q).seq) /\ InOrder(Tail(q), floor)
<1>1. /\ Tail(q) \in Seq(Input) /\ Head(q) \in Input
      /\ Len(Tail(q)) = Len(q) - 1
      /\ \A i \in 1..Len(Tail(q)) : Tail(q)[i] = q[i + 1]
  BY HeadTailProperties
<1>2. Len(q) \in Nat \ {0} /\ Head(q) = q[1]
  BY EmptySeq
<1>3. QueueMax \in Nat
  BY StreamLimits
<1>. QED  BY <1>1, <1>2, <1>3 DEF InOrder

(* A queue without its first n inputs, the next one with other actions.    *)
Rest(q, n, acts) == [SubSeq(q, n + 1, Len(q)) EXCEPT ![1].acts = acts]

(* The inputs of the rest keep their numbers and their maker.              *)
IsRest(new, q, n, acts) ==
  /\ new \in Seq(Input) /\ Len(new) = Len(q) - n
  /\ \A j \in 1..Len(new) :
       /\ new[j].seq = q[n + j].seq /\ new[j].from = q[n + j].from
       /\ new[j].acts = IF j = 1 THEN acts ELSE q[n + j].acts

(* The rest of a queue is a queue, and its inputs keep their numbers.      *)
LEMMA RestOfQueue ==
  ASSUME NEW q \in Seq(Input), NEW n \in 1..(Len(q) - 1), NEW acts \in SUBSET Actions
  PROVE  IsRest(Rest(q, n, acts), q, n, acts)
<1>. DEFINE rest == SubSeq(q, n + 1, Len(q))
            first == [rest[1] EXCEPT !.acts = acts]
            new == [rest EXCEPT ![1] = first]
<1>1. Len(q) \in Nat /\ \A k \in 1..Len(q) : q[k] \in Input
  BY LenProperties, ElementOfSeq
<1>2. /\ rest \in Seq(Input)
      /\ Len(rest) = Len(q) - n
      /\ \A i \in 1..Len(rest) : rest[i] = q[n + i]
  <2>1. n + 1 \in Int /\ Len(q) \in Int /\ \A i \in (n + 1)..Len(q) : q[i] \in Input
    BY <1>1
  <2>2. /\ rest \in Seq(Input)
        /\ Len(rest) = IF n + 1 <= Len(q) THEN Len(q) - (n + 1) + 1 ELSE 0
        /\ \A i \in 1..(Len(q) - (n + 1) + 1) : rest[i] = q[(n + 1) + i - 1]
    BY <2>1, SubSeqProperties
  <2>. QED  BY <1>1, <2>2
<1>3. /\ rest[1] \in Input /\ first \in Input /\ first.seq = rest[1].seq
      /\ first.from = rest[1].from /\ first.acts = acts
  <2>1. rest[1] \in Input
    BY <1>1, <1>2
  <2>. QED  BY <2>1 DEF Input
<1>4. 1 \in 1..Len(rest)
  BY <1>1, <1>2, LenProperties
<1>. HIDE DEF rest, first
<1>5. /\ new \in Seq(Input) /\ Len(new) = Len(rest)
      /\ \A j \in 1..Len(rest) : new[j] = IF j = 1 THEN first ELSE rest[j]
  BY <1>2, <1>3, <1>4, ExceptSeq
<1>. HIDE DEF new
<1>6. \A j \in 1..Len(new) :
        /\ new[j].seq = q[n + j].seq /\ new[j].from = q[n + j].from
        /\ new[j].acts = IF j = 1 THEN acts ELSE q[n + j].acts
  BY <1>1, <1>2, <1>3, <1>5
<1>7. new = Rest(q, n, acts)
  BY DEF new, first, rest, Rest
<1>. QED  BY <1>2, <1>5, <1>6, <1>7 DEF IsRest

(* A part of a queue that reaches its end stays in order above what was    *)
(* before it.                                                              *)
LEMMA RestInOrder ==
  ASSUME NEW q \in Seq(Input), NEW floor \in Nat, InOrder(q, floor),
         NEW n \in 1..(Len(q) - 1), NEW new, NEW acts, IsRest(new, q, n, acts)
  PROVE  /\ new # <<>> /\ InOrder(new, q[n].seq) /\ q[n].seq \in Nat
         /\ \A k \in 1..(n + 1) : q[k].acts \in SUBSET Actions
<1>1. Len(q) \in Nat /\ (\A k \in 1..Len(q) : q[k] \in Input) /\ QueueMax \in Nat
  BY LenProperties, ElementOfSeq, StreamLimits
<1>0. /\ new \in Seq(Input) /\ Len(new) = Len(q) - n
      /\ \A j \in 1..Len(new) : new[j].seq = q[n + j].seq
  BY DEF IsRest
<1>2. Len(new) <= QueueMax
  BY <1>0, <1>1 DEF InOrder
<1>3. n \in 1..Len(q) /\ \A j \in 1..Len(new) : n + j \in 1..Len(q) /\ n < n + j
  BY <1>0, <1>1
<1>4. \A j \in 1..Len(new) : q[n].seq < new[j].seq
  BY <1>0, <1>3 DEF InOrder
<1>5. \A j, k \in 1..Len(new) : j < k => new[j].seq < new[k].seq
  <2>. SUFFICES ASSUME NEW j \in 1..Len(new), NEW k \in 1..Len(new), j < k
                PROVE  new[j].seq < new[k].seq
    OBVIOUS
  <2>1. n + j < n + k
    BY <1>0, <1>1
  <2>. QED  BY <1>0, <1>3, <2>1 DEF InOrder
<1>6. new # <<>>
  BY <1>0, <1>1, EmptySeq
<1>7. q[n].seq \in Nat /\ \A k \in 1..(n + 1) : q[k].acts \in SUBSET Actions
  <2>1. \A k \in 1..(n + 1) : k \in 1..Len(q)
    BY <1>1
  <2>. QED  BY <1>1, <1>3, <2>1 DEF Input
<1>. QED  BY <1>2, <1>4, <1>5, <1>6, <1>7 DEF InOrder

(* An input above the last one of a queue may be appended to it.           *)
LEMMA AppendInOrder ==
  ASSUME NEW p \in SimPlayer, InOrder(p.queue, p.lastSeq),
         NEW i \in Input, LastQueued(p) < i.seq
  PROVE  LET q == Append(p.queue, i)
         IN  /\ q \in Seq(Input) /\ q # <<>>
             /\ Len(q) = Len(p.queue) + 1
             /\ \A j, k \in 1..Len(q) : j < k => q[j].seq < q[k].seq
             /\ \A k \in 1..Len(q) : p.lastSeq < q[k].seq
<1>. DEFINE q == Append(p.queue, i)
<1>1. /\ p.queue \in Seq(Input) /\ p.lastSeq \in Nat
      /\ Len(p.queue) \in Nat /\ \A k \in 1..Len(p.queue) : p.queue[k] \in Input
  BY LenProperties, ElementOfSeq DEF SimPlayer
<1>2. /\ q \in Seq(Input) /\ Len(q) = Len(p.queue) + 1
      /\ q[Len(p.queue) + 1] = i
      /\ \A k \in 1..Len(p.queue) : q[k] = p.queue[k]
  BY <1>1
<1>3. i.seq \in Nat /\ \A k \in 1..Len(p.queue) : p.queue[k].seq \in Nat
  BY <1>1 DEF Input
<1>4. \A k \in 1..Len(p.queue) : p.queue[k].seq < i.seq
  <2>. SUFFICES ASSUME NEW k \in 1..Len(p.queue) PROVE p.queue[k].seq < i.seq
    OBVIOUS
  <2>1. p.queue # <<>> /\ Len(p.queue) \in 1..Len(p.queue)
    BY <1>1
  <2>2. LastQueued(p) = p.queue[Len(p.queue)].seq
    BY <2>1 DEF LastQueued
  <2>3. k = Len(p.queue) \/ p.queue[k].seq < p.queue[Len(p.queue)].seq
    BY <1>1, <2>1 DEF InOrder
  <2>. QED  BY <1>3, <2>1, <2>2, <2>3
<1>5. p.lastSeq < i.seq
  <2>1. CASE p.queue = <<>>
    BY <2>1 DEF LastQueued
  <2>2. CASE p.queue # <<>>
    <3>1. 1 \in 1..Len(p.queue)
      BY <1>1, <2>2, EmptySeq
    <3>. QED  BY <1>1, <1>3, <1>4, <3>1 DEF InOrder
  <2>. QED  BY <2>1, <2>2
<1>6. \A k \in 1..Len(q) : k \in 1..Len(p.queue) \/ k = Len(p.queue) + 1
  BY <1>1, <1>2
<1>. HIDE DEF q
<1>7. \A k \in 1..Len(q) : p.lastSeq < q[k].seq
  BY <1>2, <1>5, <1>6 DEF InOrder
<1>8. ASSUME NEW j \in 1..Len(q), NEW k \in 1..Len(q), j < k
      PROVE  q[j].seq < q[k].seq
  <2>1. j \in 1..Len(p.queue)
    BY <1>1, <1>2, <1>8
  <2>. QED  BY <1>2, <1>4, <1>6, <1>8, <2>1 DEF InOrder
<1>9. q # <<>>
  BY <1>1, <1>2, EmptySeq
<1>. QED  BY <1>2, <1>7, <1>8, <1>9 DEF q

-----------------------------------------------------------------------------
(*                           Steps of a player                             *)

(* What the lemmas below keep of a player.                                 *)
Sound(p) == p \in SimPlayer /\ InOrder(p.queue, p.lastSeq)
SameTime(p, q) == q.steps = p.steps /\ q.holdDebt = p.holdDebt

(* enqueueInput keeps a player sound and its time.                         *)
LEMMA EnqueuedIsSound ==
  ASSUME NEW p, Sound(p), NEW i \in Input
  PROVE  Sound(Enqueued(p, i)) /\ SameTime(p, Enqueued(p, i))
<1>1. CASE i.seq <= LastQueued(p)
  BY <1>1 DEF Enqueued, SameTime
<1>2. CASE ~ (i.seq <= LastQueued(p))
  <2>. DEFINE q == Append(p.queue, i)
              r == [p EXCEPT !.queue = q, !.accepted = @ \cup i.acts]
  <2>0. p \in SimPlayer /\ InOrder(p.queue, p.lastSeq)
    BY DEF Sound
  <2>1. LastQueued(p) \in Nat /\ i.seq \in Nat /\ i.acts \in SUBSET Actions
    <3>1. CASE p.queue = <<>>
      BY <2>0, <3>1 DEF LastQueued, SimPlayer, Input
    <3>2. CASE p.queue # <<>>
      <4>1. p.queue \in Seq(Input) /\ Len(p.queue) \in 1..Len(p.queue)
        BY <2>0, <3>2, EmptySeq DEF SimPlayer
      <4>2. p.queue[Len(p.queue)] \in Input
        BY <4>1, ElementOfSeq
      <4>. QED  BY <3>2, <4>2 DEF LastQueued, Input
    <3>. QED  BY <3>1, <3>2
  <2>2. LastQueued(p) < i.seq
    BY <1>2, <2>1
  <2>3. /\ q \in Seq(Input) /\ q # <<>> /\ Len(q) = Len(p.queue) + 1
        /\ \A j, k \in 1..Len(q) : j < k => q[j].seq < q[k].seq
        /\ \A k \in 1..Len(q) : p.lastSeq < q[k].seq
    BY <2>0, <2>2, AppendInOrder
  <2>. HIDE DEF q
  <2>4. /\ r \in SimPlayer /\ SameTime(p, r)
        /\ r.queue = q /\ r.lastSeq = p.lastSeq
    BY <2>0, <2>1, <2>3 DEF SimPlayer, SameTime
  <2>5. Enqueued(p, i) = Bounded(r)
    BY <1>2 DEF Enqueued, q
  <2>. HIDE DEF r
  <2>6. CASE Len(q) <= QueueMax
    <3>1. Bounded(r) = r
      BY <2>4, <2>6, StreamLimits, <2>3 DEF Bounded
    <3>. QED  BY <2>3, <2>4, <2>5, <2>6, <3>1 DEF Sound, InOrder
  <2>7. CASE ~ (Len(q) <= QueueMax)
    <3>1. Len(q) \in Nat /\ Len(p.queue) \in Nat /\ QueueMax \in Nat
      BY <2>0, <2>3, LenProperties, StreamLimits DEF SimPlayer
    <3>2. Bounded(r) = [r EXCEPT !.queue = Tail(q), !.lost = @ \cup Head(q).acts]
      BY <2>4, <2>7, <3>1 DEF Bounded
    <3>3. /\ Head(q) \in Input /\ Tail(q) \in Seq(Input)
          /\ Len(Tail(q)) = Len(q) - 1
          /\ \A k \in 1..Len(Tail(q)) : Tail(q)[k] = q[k + 1]
      BY <2>3, HeadTailProperties
    <3>4. Len(Tail(q)) <= QueueMax
      BY <2>0, <2>3, <3>1, <3>3 DEF InOrder
    <3>5. InOrder(Tail(q), p.lastSeq)
      BY <2>3, <3>1, <3>3, <3>4 DEF InOrder
    <3>6. Head(q).acts \in SUBSET Actions
      BY <3>3 DEF Input
    <3>7. /\ Bounded(r) \in SimPlayer /\ SameTime(r, Bounded(r))
          /\ Bounded(r).queue = Tail(q) /\ Bounded(r).lastSeq = r.lastSeq
      BY <2>4, <3>2, <3>3, <3>6 DEF SimPlayer, SameTime
    <3>. QED  BY <2>4, <2>5, <3>5, <3>7 DEF Sound, SameTime
  <2>. QED  BY <2>6, <2>7
<1>. QED  BY <1>1, <1>2

(* When there are inputs to drop for debt, there are fewer of them than    *)
(* queued inputs and steps of debt.                                        *)
LEMMA ExcessIsShort ==
  ASSUME NEW p, Sound(p)
  PROVE  /\ Excess(p) \in Nat /\ Excess(p) <= p.inputDebt
         /\ Excess(p) # 0 => Excess(p) \in 1..(Len(p.queue) - 1)
<1>. DEFINE n == Excess(p)
<1>1. /\ p.queue \in Seq(Input) /\ Len(p.queue) \in Nat /\ p.inputDebt \in Nat
  BY StreamLimits, LenProperties DEF Sound, SimPlayer
<1>2. CASE p.queue = <<>>
  BY <1>1, <1>2 DEF Excess
<1>3. CASE p.queue # <<>>
  <2>1. Len(p.queue) \in Nat \ {0}
    BY <1>1, <1>3, EmptySeq
  <2>2. n = IF p.inputDebt <= Len(p.queue) - 1 THEN p.inputDebt ELSE Len(p.queue) - 1
    BY <1>3 DEF Excess, Lower
  <2>. HIDE DEF n
  <2>3. n \in Nat /\ n <= p.inputDebt /\ n <= Len(p.queue) - 1
    BY <1>1, <2>1, <2>2
  <2>4. n # 0 => n \in 1..(Len(p.queue) - 1)
    BY <2>1, <2>3
  <2>. QED  BY <2>3, <2>4 DEF n
<1>. QED  BY <1>2, <1>3

(* The actions of the inputs dropped for debt, and of the one after them.  *)
EarlyActs(p) == UNION {p.queue[k].acts : k \in 1..(Excess(p) + 1)}

(* What is left when inputs are dropped for debt: the inputs after them,   *)
(* the first of which takes over the newest of the actions up to it.       *)
LEMMA DebtIsPaid ==
  ASSUME NEW p, Sound(p), Excess(p) # 0
  PROVE  LET d == PayDebt(p)
             n == Excess(p)
             acts == EarlyActs(p)
         IN  /\ d.queue \in Seq(Input) /\ IsRest(d.queue, p.queue, n, Newest(acts))
             /\ d.queue # <<>> /\ InOrder(d.queue, d.lastSeq)
             /\ d.lastSeq = p.queue[n].seq /\ d.lastSeq \in Nat
             /\ d.lost = p.lost \cup (acts \ Newest(acts))
             /\ acts \in SUBSET Actions /\ Newest(acts) \subseteq acts
             /\ d.inputDebt = p.inputDebt - n
             /\ d = [p EXCEPT !.queue = d.queue, !.lastSeq = d.lastSeq,
                              !.inputDebt = d.inputDebt, !.lost = d.lost]
<1>. DEFINE q == p.queue
            n == Excess(p)
            acts == EarlyActs(p)
            kept == Newest(acts)
            new == Rest(q, n, kept)
            d == PayDebt(p)
<1>1. p \in SimPlayer /\ InOrder(q, p.lastSeq) /\ q \in Seq(Input) /\ p.lastSeq \in Nat
  BY DEF Sound, SimPlayer
<1>2. n \in 1..(Len(q) - 1)
  BY ExcessIsShort
<1>3. acts \in SUBSET Actions
  <2>1. \A k \in 1..(n + 1) : k \in 1..Len(q)
    BY <1>1, <1>2, LenProperties
  <2>2. \A k \in 1..(n + 1) : q[k] \in Input
    BY <1>1, <2>1, ElementOfSeq
  <2>3. \A k \in 1..(n + 1) : q[k].acts \in SUBSET Actions
    BY <2>2 DEF Input
  <2>. QED  BY <2>3 DEF EarlyActs
<1>4. kept \subseteq acts /\ kept \in SUBSET Actions
  BY <1>3 DEF Newest
<1>5. d = [p EXCEPT !.queue = new, !.lastSeq = q[n].seq, !.inputDebt = @ - n,
                    !.lost = @ \cup (acts \ kept)]
  BY DEF PayDebt, EarlyActs, Rest
<1>6. /\ d.queue = new /\ d.lastSeq = q[n].seq /\ d.lost = p.lost \cup (acts \ kept)
      /\ d.inputDebt = p.inputDebt - n
      /\ d = [p EXCEPT !.queue = d.queue, !.lastSeq = d.lastSeq,
                       !.inputDebt = d.inputDebt, !.lost = d.lost]
  BY <1>1, <1>5 DEF SimPlayer
<1>. HIDE DEF d, kept, acts, n, q
<1>7. IsRest(new, q, n, kept) /\ new \in Seq(Input)
  BY <1>1, <1>2, <1>4, RestOfQueue DEF IsRest
<1>. HIDE DEF new
<1>8. new # <<>> /\ InOrder(new, q[n].seq) /\ q[n].seq \in Nat
  BY <1>1, <1>2, <1>7, RestInOrder
<1>. QED  BY <1>3, <1>4, <1>6, <1>7, <1>8 DEF d, kept, acts, n, q

(* Dropping inputs for debt keeps a player sound and its time.             *)
LEMMA PayDebtIsSound ==
  ASSUME NEW p, Sound(p)
  PROVE  /\ Sound(PayDebt(p)) /\ SameTime(p, PayDebt(p))
         /\ PayDebt(p).bot = p.bot
<1>. DEFINE d == PayDebt(p)
<1>1. CASE Excess(p) = 0
  BY <1>1 DEF PayDebt, SameTime
<1>2. CASE Excess(p) # 0
  <2>1. /\ p \in SimPlayer /\ p.inputDebt \in 0..StaleTicks
        /\ Excess(p) \in Nat /\ Excess(p) <= p.inputDebt
    BY ExcessIsShort DEF Sound, SimPlayer
  <2>2. p.inputDebt - Excess(p) \in 0..StaleTicks
    BY <2>1, StreamLimits
  <2>3. /\ d.queue \in Seq(Input) /\ InOrder(d.queue, d.lastSeq) /\ d.lastSeq \in Nat
        /\ d.lost = p.lost \cup (EarlyActs(p) \ Newest(EarlyActs(p)))
        /\ EarlyActs(p) \in SUBSET Actions /\ d.inputDebt = p.inputDebt - Excess(p)
        /\ d = [p EXCEPT !.queue = d.queue, !.lastSeq = d.lastSeq,
                         !.inputDebt = d.inputDebt, !.lost = d.lost]
    BY <1>2, DebtIsPaid
  <2>. HIDE DEF d
  <2>4. d.lost \in SUBSET Actions
    BY <2>1, <2>3 DEF SimPlayer
  <2>5. d \in SimPlayer /\ SameTime(p, d) /\ d.bot = p.bot
    BY <2>1, <2>2, <2>3, <2>4 DEF SimPlayer, SameTime
  <2>. QED  BY <2>3, <2>5 DEF Sound, d
<1>. QED  BY <1>1, <1>2

(* Taking an input keeps a player sound.  The time it is owed grows by one *)
(* at most, and only when it has to wait; a traveller never waits.         *)
LEMMA TakeInputIsSound ==
  ASSUME NEW p, Sound(p)
  PROVE  LET t == TakeInput(p)
         IN  /\ Sound(t.player) /\ t.player.steps = p.steps
             /\ t.acts \in SUBSET Actions /\ t.given \in BOOLEAN
             /\ t.given => t.player.holdDebt = p.holdDebt
             /\ t.player.holdDebt <= p.holdDebt + 1
             /\ t.player.travel => t.given
<1>. DEFINE d == PayDebt(p)
            e == [d EXCEPT !.stale = Lower(StaleCap, @ + 1)]
            t == TakeInput(p)
<1>1. Sound(d) /\ SameTime(p, d)
  BY PayDebtIsSound
<1>2. d \in SimPlayer /\ InOrder(d.queue, d.lastSeq)
  BY <1>1 DEF Sound
<1>3. /\ StaleTicks \in Nat /\ HoldTicks \in Nat /\ HoldDebtMax \in Nat
      /\ StaleCap \in Nat
  BY StreamLimits DEF StaleCap
<1>4. p \in SimPlayer /\ p.holdDebt \in Nat
  BY <1>3 DEF Sound, SimPlayer
<1>. HIDE DEF d
<1>5. CASE p.bot
  <2>1. t = [player |-> p, given |-> TRUE, acts |-> {}]
    BY <1>5 DEF TakeInput
  <2>. QED  BY <1>4, <2>1
<1>6. CASE ~p.bot /\ d.queue # <<>>
  <2>. DEFINE q == [d EXCEPT !.queue = Tail(@), !.lastSeq = Head(d.queue).seq,
                             !.stale = 0]
  <2>1. t = [player |-> q, given |-> TRUE, acts |-> Head(d.queue).acts]
    BY <1>6 DEF TakeInput, d
  <2>2. /\ Tail(d.queue) \in Seq(Input) /\ Head(d.queue) \in Input
        /\ InOrder(Tail(d.queue), Head(d.queue).seq)
    BY <1>2, <1>6, TailInOrder DEF SimPlayer
  <2>3. Head(d.queue).seq \in Nat /\ Head(d.queue).acts \in SUBSET Actions
    BY <2>2 DEF Input
  <2>4. q \in SimPlayer /\ SameTime(d, q)
    <3>1. 0 \in 0..StaleCap
      BY <1>3
    <3>2. q \in SimPlayer
      BY <1>2, <2>2, <2>3, <3>1 DEF SimPlayer
    <3>. QED  BY <1>2, <3>2 DEF SimPlayer, SameTime
  <2>5. q.queue = Tail(d.queue) /\ q.lastSeq = Head(d.queue).seq
    BY <1>2 DEF SimPlayer
  <2>. HIDE DEF q
  <2>. QED  BY <1>1, <1>4, <2>1, <2>2, <2>3, <2>4, <2>5 DEF Sound, SameTime
<1>7. CASE ~p.bot /\ ~(d.queue # <<>>)
  <2>1. Lower(StaleCap, d.stale + 1) \in 0..StaleCap
    BY <1>2, <1>3 DEF SimPlayer, Lower
  <2>2. /\ e \in SimPlayer /\ SameTime(d, e)
        /\ e.queue = d.queue /\ e.lastSeq = d.lastSeq
    BY <1>2, <2>1 DEF SimPlayer, SameTime
  <2>. DEFINE w == [e EXCEPT !.holdDebt = Owed(@)]
              r == [e EXCEPT !.inputDebt = Lower(StaleTicks, @ + 1)]
  <2>3. \/ ~e.travel /\ t = [player |-> w, given |-> FALSE, acts |-> {}]
        \/ t = [player |-> e, given |-> TRUE, acts |-> {}]
        \/ t = [player |-> r, given |-> TRUE, acts |-> {}]
    BY <1>7 DEF TakeInput, Waits, d
  <2>. HIDE DEF e
  <2>4. /\ Owed(e.holdDebt) \in 0..HoldDebtMax
        /\ Owed(e.holdDebt) <= e.holdDebt + 1
    BY <1>3, <2>2 DEF SimPlayer, Owed, Lower
  <2>5. Lower(StaleTicks, e.inputDebt + 1) \in 0..StaleTicks
    BY <1>3, <2>2 DEF SimPlayer, Lower
  <2>6. /\ w \in SimPlayer /\ w.steps = e.steps /\ w.holdDebt <= e.holdDebt + 1
        /\ w.queue = e.queue /\ w.lastSeq = e.lastSeq /\ w.travel = e.travel
    BY <2>2, <2>4 DEF SimPlayer
  <2>7. /\ r \in SimPlayer /\ SameTime(e, r)
        /\ r.queue = e.queue /\ r.lastSeq = e.lastSeq
    BY <2>2, <2>5 DEF SimPlayer, SameTime
  <2>. HIDE DEF w, r
  <2>8. Sound(e) /\ Sound(w) /\ Sound(r)
    BY <1>2, <2>2, <2>6, <2>7 DEF Sound
  <2>9. /\ e.steps = p.steps /\ e.holdDebt = p.holdDebt
        /\ w.steps = p.steps /\ w.holdDebt <= p.holdDebt + 1
        /\ r.steps = p.steps /\ r.holdDebt = p.holdDebt
    BY <1>1, <2>2, <2>6, <2>7 DEF SameTime
  <2>. HIDE DEF t
  <2>10. CASE ~e.travel /\ t = [player |-> w, given |-> FALSE, acts |-> {}]
    BY <2>6, <2>8, <2>9, <2>10 DEF t
  <2>11. CASE t = [player |-> e, given |-> TRUE, acts |-> {}]
    BY <1>4, <2>8, <2>9, <2>11 DEF t
  <2>12. CASE t = [player |-> r, given |-> TRUE, acts |-> {}]
    BY <1>4, <2>8, <2>9, <2>12 DEF t
  <2>. QED  BY <2>3, <2>10, <2>11, <2>12
<1>. QED  BY <1>5, <1>6, <1>7

(* One step keeps a player sound, and takes at most one tick of its time.  *)
LEMMA StepIsSound ==
  ASSUME NEW p, Sound(p), NEW r \in StepOnePlayer(p)
  PROVE  /\ Sound(r)
         /\ r.steps + r.holdDebt <= p.steps + p.holdDebt + 1
<1>. DEFINE t == TakeInput(p)
            q == [t.player EXCEPT !.steps = @ + 1]
            unused == [q EXCEPT !.lost = @ \cup t.acts]
            used == Applied(q, t.acts)
<1>1. /\ Sound(t.player) /\ t.player.steps = p.steps
      /\ t.acts \in SUBSET Actions /\ t.given \in BOOLEAN
      /\ t.given => t.player.holdDebt = p.holdDebt
      /\ t.player.holdDebt <= p.holdDebt + 1
      /\ t.player.travel => t.given
  BY TakeInputIsSound
<1>2. p \in SimPlayer /\ p.steps \in Nat /\ p.holdDebt \in Nat
  BY StreamLimits DEF Sound, SimPlayer
<1>3. \/ q.travel /\ \E b \in BOOLEAN : r = [unused EXCEPT !.travel = b]
      \/ ~q.travel /\ ~t.given /\ r = t.player
      \/ t.given /\ r = unused
      \/ t.given /\ r \in {q, [q EXCEPT !.lastActionId = @ + 1]}
      \/ t.given /\ \E b \in BOOLEAN : r = [used EXCEPT !.travel = b]
  BY <1>1 DEF StepOnePlayer
<1>. HIDE DEF t
<1>4. t.player \in SimPlayer /\ InOrder(t.player.queue, t.player.lastSeq)
  BY <1>1 DEF Sound
<1>5. /\ q \in SimPlayer /\ q.steps = p.steps + 1
      /\ q.holdDebt = t.player.holdDebt /\ q.queue = t.player.queue
      /\ q.lastSeq = t.player.lastSeq /\ q.travel = t.player.travel
  <2>1. t.player.steps + 1 = p.steps + 1 /\ p.steps + 1 \in Nat
    BY <1>1, <1>2
  <2>2. q = [t.player EXCEPT !.steps = p.steps + 1]
    BY <1>4, <2>1 DEF SimPlayer
  <2>3. q \in SimPlayer
    BY <1>4, <2>1, <2>2 DEF SimPlayer
  <2>. QED  BY <1>4, <2>2, <2>3 DEF SimPlayer
<1>. HIDE DEF q
<1>6. /\ unused \in SimPlayer /\ SameTime(q, unused)
      /\ unused.queue = q.queue /\ unused.lastSeq = q.lastSeq
  BY <1>1, <1>5 DEF SimPlayer, SameTime
<1>7. Highest(Fresh(q, t.acts), q.lastActionId) \in Nat
  <2>1. Fresh(q, t.acts) \in SUBSET Actions /\ q.lastActionId \in Nat
    BY <1>1, <1>5 DEF Fresh, SimPlayer
  <2>. QED  BY <2>1, HighestIsNumber
<1>8. /\ used \in SimPlayer /\ SameTime(q, used)
      /\ used.queue = q.queue /\ used.lastSeq = q.lastSeq
  BY <1>1, <1>5, <1>7 DEF Applied, Fresh, SimPlayer, SameTime
<1>. HIDE DEF unused, used
<1>9. \A b \in BOOLEAN : LET u == [unused EXCEPT !.travel = b]
                        IN  u \in SimPlayer /\ SameTime(unused, u)
                            /\ u.queue = unused.queue /\ u.lastSeq = unused.lastSeq
  BY <1>6 DEF SimPlayer, SameTime
<1>10. \A b \in BOOLEAN : LET u == [used EXCEPT !.travel = b]
                         IN  u \in SimPlayer /\ SameTime(used, u)
                             /\ u.queue = used.queue /\ u.lastSeq = used.lastSeq
  BY <1>8 DEF SimPlayer, SameTime
<1>11. LET u == [q EXCEPT !.lastActionId = @ + 1]
       IN  u \in SimPlayer /\ SameTime(q, u)
           /\ u.queue = q.queue /\ u.lastSeq = q.lastSeq
  <2>. DEFINE n == q.lastActionId + 1
              u == [q EXCEPT !.lastActionId = n]
  <2>1. n \in Nat
    BY <1>5 DEF SimPlayer
  <2>. HIDE DEF n
  <2>2. u \in SimPlayer
    BY <1>5, <2>1 DEF SimPlayer
  <2>3. SameTime(q, u) /\ u.queue = q.queue /\ u.lastSeq = q.lastSeq
    BY <1>5 DEF SimPlayer, SameTime
  <2>. QED  BY <2>2, <2>3 DEF n
<1>12. CASE t.given /\ r # t.player
  <2>1. /\ r \in SimPlayer /\ SameTime(q, r)
        /\ r.queue = q.queue /\ r.lastSeq = q.lastSeq
    BY <1>3, <1>5, <1>6, <1>8, <1>9, <1>10, <1>11, <1>12 DEF SameTime
  <2>2. r.steps = p.steps + 1 /\ r.holdDebt = p.holdDebt
    BY <1>1, <1>5, <1>12, <2>1 DEF SameTime
  <2>3. Sound(r)
    BY <1>4, <1>5, <2>1 DEF Sound
  <2>. QED  BY <1>2, <2>2, <2>3
<1>13. CASE r = t.player
  <2>1. t.player.holdDebt \in Nat
    BY <1>4, StreamLimits DEF SimPlayer
  <2>. QED  BY <1>1, <1>2, <1>13, <2>1
<1>. QED  BY <1>1, <1>3, <1>5, <1>12, <1>13

(* A recovered step is paid with the time owed: it takes none.             *)
LEMMA CatchUpIsSound ==
  ASSUME NEW p, Sound(p), NEW r \in CatchUp(p)
  PROVE  Sound(r) /\ r.steps + r.holdDebt <= p.steps + p.holdDebt
<1>1. p \in SimPlayer /\ p.steps \in Nat /\ p.holdDebt \in Nat
  BY StreamLimits DEF Sound, SimPlayer
<1>2. CASE p.holdDebt > 0 /\ p.queue # <<>>
  <2>. DEFINE q == [p EXCEPT !.holdDebt = @ - 1]
  <2>1. p.holdDebt - 1 \in 0..HoldDebtMax
    BY <1>1, <1>2, StreamLimits DEF SimPlayer
  <2>2. /\ q \in SimPlayer /\ q.holdDebt = p.holdDebt - 1 /\ q.steps = p.steps
        /\ q.queue = p.queue /\ q.lastSeq = p.lastSeq
    BY <1>1, <2>1 DEF SimPlayer
  <2>3. r \in StepOnePlayer(q)
    BY <1>2 DEF CatchUp
  <2>. HIDE DEF q
  <2>4. Sound(q)
    BY <2>2 DEF Sound
  <2>5. Sound(r) /\ r.steps + r.holdDebt <= q.steps + q.holdDebt + 1
    BY <2>3, <2>4, StepIsSound
  <2>6. q.steps + q.holdDebt + 1 = p.steps + p.holdDebt
    BY <1>1, <2>2
  <2>. QED  BY <2>5, <2>6
<1>3. CASE ~ (p.holdDebt > 0 /\ p.queue # <<>>)
  BY <1>1, <1>3 DEF CatchUp
<1>. QED  BY <1>2, <1>3

(* Death and respawn touch neither the queue nor the time of a player.     *)
LEMMA WorldIsSound ==
  ASSUME NEW p, Sound(p), NEW r \in World(p)
  PROVE  Sound(r) /\ SameTime(p, r)
<1>1. p \in SimPlayer /\ InOrder(p.queue, p.lastSeq)
  BY DEF Sound
<1>2. \/ r = p
      \/ r = [p EXCEPT !.alive = FALSE, !.travel = FALSE]
      \/ r = [p EXCEPT !.alive = TRUE]
  BY DEF World
<1>3. /\ r \in SimPlayer /\ SameTime(p, r)
      /\ r.queue = p.queue /\ r.lastSeq = p.lastSeq
  BY <1>1, <1>2 DEF SimPlayer, SameTime
<1>. QED  BY <1>1, <1>3 DEF Sound

(* After a change of hands nothing is queued and nothing is owed.          *)
LEMMA ResetIsSound ==
  ASSUME NEW p, Sound(p), NEW bot \in BOOLEAN
  PROVE  /\ Sound(Reset(p, bot))
         /\ Reset(p, bot).steps = p.steps /\ Reset(p, bot).holdDebt = 0
<1>1. p \in SimPlayer
  BY DEF Sound
<1>2. /\ 0 \in Nat /\ 0 \in 0..StaleCap /\ 0 \in 0..StaleTicks
      /\ 0 \in 0..HoldDebtMax /\ <<>> \in Seq(Input)
  BY StreamLimits, EmptySeq DEF StaleCap
<1>3. /\ Reset(p, bot) \in SimPlayer
      /\ Reset(p, bot).queue = <<>> /\ Reset(p, bot).lastSeq = 0
      /\ Reset(p, bot).steps = p.steps /\ Reset(p, bot).holdDebt = 0
  BY <1>1, <1>2 DEF Reset, SimPlayer
<1>4. InOrder(<<>>, 0)
  BY EmptySeq, StreamLimits DEF InOrder
<1>. QED  BY <1>3, <1>4 DEF Sound

-----------------------------------------------------------------------------
(*                            The stream                                   *)

(* During the countdown nobody has moved, and the round runs once the      *)
(* countdown is over: why the time of the running phase covers the steps.  *)
Clock ==
  /\ phase = "countdown" => player.steps = 0 /\ player.holdDebt = 0
  /\ phase = "running" => tick >= StartTick

(* The inductive invariant of the stream.                                  *)
StreamInv == StreamTypeOK /\ QueueInOrder /\ NoTimeGained /\ Clock

(* A round begins with an empty queue and no time spent.                   *)
LEMMA StreamStarts == StreamInit => StreamInv
<1>. SUFFICES ASSUME StreamInit PROVE StreamInv
  OBVIOUS
<1>1. /\ 0 \in 0..StaleCap /\ 0 \in 0..StaleTicks
      /\ 0 \in 0..HoldDebtMax /\ <<>> \in Seq(Input) /\ Len(<<>>) = 0
  BY StreamLimits, EmptySeq DEF StaleCap
<1>2. StreamTypeOK
  BY <1>1 DEF StreamInit, FreshPlayer, StreamTypeOK, SimPlayer, Phases
<1>3. QueueInOrder
  BY <1>1, StreamLimits DEF StreamInit, FreshPlayer, QueueInOrder, InOrder
<1>4. NoTimeGained /\ Clock
  BY StreamLimits DEF StreamInit, FreshPlayer, NoTimeGained, RunningTicks, Clock
<1>. QED  BY <1>2, <1>3, <1>4 DEF StreamInv

(* Every operation keeps the invariant.                                    *)
LEMMA StreamSteps == StreamInv /\ [StreamNext]_streamVars => StreamInv'
<1>. SUFFICES ASSUME StreamInv, [StreamNext]_streamVars PROVE StreamInv'
  OBVIOUS
<1>1. /\ Sound(player) /\ player \in SimPlayer
      /\ player.steps \in Nat /\ player.holdDebt \in Nat
      /\ phase \in Phases /\ tick \in Nat /\ StartTick \in Nat
      /\ player.steps + player.holdDebt <= RunningTicks
      /\ Clock
  BY StreamLimits DEF StreamInv, StreamTypeOK, QueueInOrder, NoTimeGained, Sound, SimPlayer
<1>2. ASSUME Sound(player'), phase' \in Phases, tick' \in Nat,
             player'.steps + player'.holdDebt <= RunningTicks', Clock'
      PROVE  StreamInv'
  BY <1>2 DEF StreamInv, StreamTypeOK, QueueInOrder, NoTimeGained, Sound
<1>3. ASSUME NEW i \in Input, Enqueue(i) PROVE StreamInv'
  <2>1. player' = Enqueued(player, i) /\ UNCHANGED <<phase, tick>>
    BY <1>3 DEF Enqueue
  <2>2. Sound(player') /\ SameTime(player, player')
    BY <1>1, <2>1, EnqueuedIsSound
  <2>3. RunningTicks' = RunningTicks
    BY <2>1 DEF RunningTicks
  <2>. QED  BY <1>1, <1>2, <2>1, <2>2, <2>3 DEF SameTime, Clock
<1>4. ASSUME CountdownTick PROVE StreamInv'
  <2>. DEFINE t == TakeInput(player)
  <2>1. /\ phase = "countdown" /\ tick' = tick + 1
        /\ player' = [t.player EXCEPT !.holdDebt = 0, !.lost = @ \cup t.acts]
        /\ phase' = IF tick' >= StartTick THEN "running" ELSE "countdown"
    BY <1>4 DEF CountdownTick
  <2>2. Sound(t.player) /\ t.player.steps = player.steps /\ t.acts \in SUBSET Actions
    BY <1>1, TakeInputIsSound
  <2>. HIDE DEF t
  <2>3. t.player \in SimPlayer /\ 0 \in 0..HoldDebtMax
    BY <2>2, StreamLimits DEF Sound
  <2>4. /\ player' \in SimPlayer /\ player'.queue = t.player.queue
        /\ player'.lastSeq = t.player.lastSeq
        /\ player'.steps = t.player.steps /\ player'.holdDebt = 0
    BY <2>1, <2>2, <2>3 DEF SimPlayer
  <2>5. Sound(player')
    BY <2>2, <2>4 DEF Sound
  <2>6. tick' \in Nat /\ RunningTicks' >= 0
    BY <1>1, <2>1 DEF RunningTicks
  <2>7. player'.steps = 0
    BY <1>1, <2>1, <2>2, <2>4 DEF Clock
  <2>8. Clock' /\ phase' \in Phases
    BY <1>1, <2>1, <2>4, <2>7 DEF Clock, Phases
  <2>. QED  BY <1>1, <1>2, <2>4, <2>5, <2>6, <2>7, <2>8
<1>5. ASSUME RunningTick PROVE StreamInv'
  <2>1. PICK p \in StepOnePlayer(player) : \E q \in CatchUp(p) : player' \in World(q)
    BY <1>5 DEF RunningTick
  <2>2. PICK q \in CatchUp(p) : player' \in World(q)
    BY <2>1
  <2>3. Sound(p) /\ p.steps + p.holdDebt <= player.steps + player.holdDebt + 1
    BY <1>1, <2>1, StepIsSound
  <2>4. Sound(q) /\ q.steps + q.holdDebt <= p.steps + p.holdDebt
    BY <2>2, <2>3, CatchUpIsSound
  <2>5. Sound(player') /\ SameTime(q, player')
    BY <2>2, <2>4, WorldIsSound
  <2>6. /\ phase = "running" /\ tick' = tick + 1
        /\ phase' \in {"running", "finished"}
    BY <1>5 DEF RunningTick
  <2>7. tick' \in Nat /\ RunningTicks' = RunningTicks + 1 /\ RunningTicks \in Nat
    BY <1>1, <2>6 DEF RunningTicks, Clock
  <2>8. /\ p.steps \in Nat /\ p.holdDebt \in Nat /\ q.steps \in Nat /\ q.holdDebt \in Nat
    BY <2>3, <2>4, StreamLimits DEF Sound, SimPlayer
  <2>9. player'.steps + player'.holdDebt <= RunningTicks'
    BY <1>1, <2>3, <2>4, <2>5, <2>7, <2>8 DEF SameTime
  <2>10. Clock' /\ phase' \in Phases
    BY <1>1, <2>6 DEF Clock, Phases
  <2>. QED  BY <1>2, <2>5, <2>7, <2>9, <2>10
<1>6. ASSUME NEW bot \in BOOLEAN, ChangeHands(bot) PROVE StreamInv'
  <2>1. player' = Reset(player, bot) /\ UNCHANGED <<phase, tick>>
    BY <1>6 DEF ChangeHands
  <2>2. Sound(player') /\ player'.steps = player.steps /\ player'.holdDebt = 0
    BY <1>1, <2>1, ResetIsSound
  <2>3. RunningTicks' = RunningTicks /\ RunningTicks \in Nat
    BY <1>1, <2>1 DEF RunningTicks
  <2>. QED  BY <1>1, <1>2, <2>1, <2>2, <2>3 DEF Clock
<1>7. CASE UNCHANGED streamVars
  BY <1>7 DEF streamVars, StreamInv, StreamTypeOK, QueueInOrder, NoTimeGained,
              RunningTicks, Clock
<1>. QED  BY <1>3, <1>4, <1>5, <1>6, <1>7 DEF StreamNext, Tick

(* The conjunction is an invariant of the stream, for every limit and      *)
(* whatever inputs arrive.                                                 *)
THEOREM StreamCorrect == StreamSpec => []StreamInv
<1>. QED  BY StreamStarts, StreamSteps, PTL DEF StreamSpec

-----------------------------------------------------------------------------
(*                             The session                                 *)

(* Every input was numbered by a predictor of the client.                  *)
Numbered ==
  /\ predictor.actionId <= inputs
  /\ predictor # NoPredictor => predictor.id \in Sources

(* The inductive invariant of the session.                                 *)
SessionInv == TypeOK /\ Numbered /\ StreamInv

(* What the session does to the stream is an operation of the stream.      *)
LEMMA SessionMaps == TypeOK /\ [Next]_vars => [StreamNext]_streamVars
<1>. SUFFICES ASSUME TypeOK, [Next]_vars PROVE [StreamNext]_streamVars
  OBVIOUS
<1>1. ASSUME Deliver PROVE [StreamNext]_streamVars
  <2>1. up # <<>> /\ (Enqueue(Head(up)) \/ UNCHANGED streamVars)
    BY <1>1 DEF Deliver
  <2>2. Head(up) \in Input
    BY <2>1, HeadTailProperties DEF TypeOK
  <2>. QED  BY <2>1, <2>2 DEF StreamNext
<1>2. ASSUME RoomStep PROVE [StreamNext]_streamVars
  BY <1>2 DEF RoomStep, StreamNext
<1>3. ASSUME Return \/ Rejoin \/ Reopen PROVE [StreamNext]_streamVars
  <2>1. ChangeHands(FALSE)
    BY <1>3 DEF Return, Rejoin, Reopen, NewController
  <2>. QED  BY <2>1 DEF StreamNext
<1>4. ASSUME WindowExpires PROVE [StreamNext]_streamVars
  <2>1. ChangeHands(TRUE)
    BY <1>4 DEF WindowExpires
  <2>. QED  BY <2>1 DEF StreamNext
<1>5. ASSUME ClientStep \/ Receive \/ BeginRound \/ Drop PROVE [StreamNext]_streamVars
  BY <1>5 DEF ClientStep, Receive, BeginRound, Drop
<1>6. CASE UNCHANGED vars
  BY <1>6 DEF vars, streamVars
<1>. QED  BY <1>1, <1>2, <1>3, <1>4, <1>5, <1>6 DEF Next

(* The types of the session at the beginning of a round.                   *)
LEMMA SessionStarts == Init => SessionInv
<1>. SUFFICES ASSUME Init PROVE SessionInv
  OBVIOUS
<1>1. StreamInv
  BY StreamStarts DEF Init
<1>2. <<>> \in Seq(Input) /\ <<>> \in Seq(Message)
  BY EmptySeq
<1>3. NoPredictor \in Predictor
  BY SessionLimits DEF Predictor, NoPredictor
<1>4. 0 \in 0..MaxPredictors /\ 0 \in 0..MaxInputs /\ 0 \in 0..MaxChanges
  BY SessionLimits
<1>5. TypeOK
  BY <1>1, <1>2, <1>3, <1>4 DEF Init, StreamInv, TypeOK
<1>6. Numbered
  BY DEF Init, Numbered, NoPredictor
<1>. QED  BY <1>1, <1>5, <1>6 DEF SessionInv

(* What the client does keeps the types.                                   *)
LEMMA ClientSteps ==
  ASSUME SessionInv, StreamTypeOK', ClientStep \/ Receive \/ BeginRound
  PROVE  TypeOK' /\ Numbered'
<1>1. /\ TypeOK /\ Numbered /\ MaxInputs \in Nat /\ MaxPredictors \in Nat
      /\ MaxInputs <= MaxActionId /\ MaxActionId \in Nat
      /\ Sources = 1..MaxPredictors
  BY SessionLimits, StreamLimits DEF SessionInv
<1>2. /\ predictor \in Predictor /\ inputs \in 0..MaxInputs
      /\ made \in 0..MaxPredictors /\ NoPredictor \in Predictor
  BY <1>1 DEF TypeOK, Predictor, NoPredictor
<1>3. ASSUME ClientStep PROVE TypeOK' /\ Numbered'
  <2>1. PICK pressed \in {0, 1} :
          LET seq == predictor.seq + 1
              acts == IF pressed = 1 THEN {predictor.actionId + 1} ELSE {}
          IN  /\ predictor' = [predictor EXCEPT !.seq = seq, !.actionId = @ + pressed,
                                                !.history = Kept(@ \cup {seq})]
              /\ Sent([seq |-> seq, acts |-> acts, from |-> predictor.id])
    BY <1>3 DEF ClientStep
  <2>. DEFINE seq == predictor.seq + 1
              acts == IF pressed = 1 THEN {predictor.actionId + 1} ELSE {}
              i == [seq |-> seq, acts |-> acts, from |-> predictor.id]
  <2>2. /\ predictor # NoPredictor /\ inputs < MaxInputs /\ inputs' = inputs + 1
        /\ UNCHANGED <<streamVars, net, down, switching, made, changes, heard>>
    BY <1>3 DEF ClientStep
  <2>3. /\ predictor.seq \in Nat /\ predictor.actionId \in Nat
        /\ predictor.history \in SUBSET Nat /\ predictor.id \in Sources
        /\ predictor.actionId <= inputs
    BY <1>1, <1>2, <2>2 DEF Predictor, Numbered
  <2>4. seq \in Nat /\ acts \in SUBSET Actions
    BY <1>1, <1>2, <2>2, <2>3 DEF Actions
  <2>5. i \in Input
    BY <2>3, <2>4 DEF Input
  <2>6. up' = Append(up, i) \/ up' = up
    BY <2>1 DEF Sent
  <2>7. up' \in Seq(Input)
    <3>. HIDE DEF i
    <3>. QED  BY <1>1, <2>5, <2>6 DEF TypeOK
  <2>8. Kept(predictor.history \cup {seq}) \in SUBSET Nat
    BY <2>3, <2>4 DEF Kept
  <2>9. /\ predictor' \in Predictor /\ predictor'.id = predictor.id
        /\ predictor'.actionId = predictor.actionId + pressed
    <3>1. predictor.actionId + pressed \in Nat
      BY <2>3
    <3>. HIDE DEF seq
    <3>. QED  BY <1>2, <2>1, <2>3, <2>4, <2>8, <3>1 DEF Predictor, seq
  <2>10. Numbered'
    <3>1. predictor.actionId + pressed <= inputs + 1
      BY <1>2, <2>3
    <3>. QED  BY <2>2, <2>3, <2>9, <3>1 DEF Numbered
  <2>11. inputs' \in 0..MaxInputs
    BY <1>1, <1>2, <2>2
  <2>. QED  BY <1>1, <2>2, <2>7, <2>9, <2>10, <2>11 DEF TypeOK
<1>4. ASSUME Receive PROVE TypeOK' /\ Numbered'
  <2>. DEFINE m == Head(down)
              mine == IF predictor = NoPredictor
                      THEN [NoPredictor EXCEPT !.id = made + 1] ELSE predictor
  <2>1. /\ down # <<>> /\ down' = Tail(down)
        /\ UNCHANGED <<streamVars, net, up, inputs, changes, heard>>
    BY <1>4 DEF Receive
  <2>2. \/ switching' = TRUE /\ UNCHANGED <<predictor, made>>
        \/ UNCHANGED <<predictor, switching, made>>
        \/ /\ predictor = NoPredictor => made < MaxPredictors
           /\ predictor' = Reconciled(mine, m.ack)
           /\ made' = IF predictor = NoPredictor THEN made + 1 ELSE made
           /\ UNCHANGED switching
    BY <1>4 DEF Receive
  <2>3. m \in Message /\ down' \in Seq(Message)
    BY <1>1, <2>1, HeadTailProperties DEF TypeOK
  <2>4. m.ack \in Nat
    BY <2>3 DEF Message
  <2>. HIDE DEF m
  <2>5. CASE UNCHANGED <<predictor, made>> /\ (switching' = TRUE \/ switching' = switching)
    BY <1>1, <2>1, <2>3, <2>5 DEF TypeOK, Numbered
  <2>6. CASE /\ predictor = NoPredictor => made < MaxPredictors
             /\ predictor' = Reconciled(mine, m.ack)
             /\ made' = IF predictor = NoPredictor THEN made + 1 ELSE made
             /\ UNCHANGED switching
    <3>1. mine \in Predictor /\ mine.id \in Sources /\ mine.actionId <= inputs
      <4>1. CASE predictor = NoPredictor
        <5>1. made + 1 \in Sources /\ made + 1 \in 0..MaxPredictors
          BY <1>1, <1>2, <2>6, <4>1
        <5>. QED  BY <1>1, <1>2, <4>1, <5>1 DEF Predictor, NoPredictor
      <4>2. CASE predictor # NoPredictor
        BY <1>1, <1>2, <4>2 DEF Numbered
      <4>. QED  BY <4>1, <4>2
    <3>. HIDE DEF mine
    <3>2. /\ predictor' \in Predictor /\ predictor'.id = mine.id
          /\ predictor'.actionId = mine.actionId
      BY <2>4, <2>6, <3>1 DEF Reconciled, Predictor
    <3>3. made' \in 0..MaxPredictors
      BY <1>1, <1>2, <2>6
    <3>4. Numbered'
      BY <2>1, <3>1, <3>2 DEF Numbered
    <3>. QED  BY <1>1, <2>1, <2>3, <2>6, <3>2, <3>3, <3>4 DEF TypeOK
  <2>. QED  BY <2>2, <2>5, <2>6
<1>5. ASSUME BeginRound PROVE TypeOK' /\ Numbered'
  <2>1. /\ switching' = FALSE /\ predictor' = NoPredictor
        /\ UNCHANGED <<streamVars, net, up, down, made, inputs, changes, heard>>
    BY <1>5 DEF BeginRound
  <2>2. NoPredictor.actionId <= inputs
    BY <1>1, <1>2 DEF NoPredictor
  <2>3. Numbered'
    BY <2>1, <2>2 DEF Numbered
  <2>. QED  BY <1>1, <1>2, <2>1, <2>3 DEF TypeOK
<1>. QED  BY <1>3, <1>4, <1>5

(* What the room and the connection do keeps the types.                    *)
LEMMA RoomSteps ==
  ASSUME SessionInv, StreamTypeOK',
         \/ Deliver \/ RoomStep \/ Drop
         \/ Return \/ WindowExpires \/ Rejoin \/ Reopen
  PROVE  TypeOK' /\ Numbered'
<1>1. /\ TypeOK /\ Numbered /\ MaxChanges \in Nat /\ MaxPredictors \in Nat
      /\ inputs \in Nat
  BY SessionLimits DEF SessionInv, TypeOK
<1>2. /\ <<>> \in Seq(Input) /\ <<>> \in Seq(Message)
      /\ <<Loading>> \in Seq(Message) /\ NoPredictor \in Predictor
  BY <1>1, EmptySeq DEF Loading, Message, Predictor, NoPredictor
<1>3. ASSUME Deliver PROVE TypeOK' /\ Numbered'
  <2>1. /\ up # <<>> /\ up' = Tail(up)
        /\ heard' \in {heard, heard \cup {Head(up).from}}
        /\ UNCHANGED <<net, down, clientVars, changes>>
    BY <1>3 DEF Deliver
  <2>2. Head(up) \in Input /\ up' \in Seq(Input)
    BY <1>1, <2>1, HeadTailProperties DEF TypeOK
  <2>3. heard' \subseteq Sources
    BY <1>1, <2>1, <2>2 DEF TypeOK, Input
  <2>. QED  BY <1>1, <2>1, <2>2, <2>3 DEF TypeOK, Numbered, clientVars
<1>4. ASSUME RoomStep PROVE TypeOK' /\ Numbered'
  <2>1. /\ down' \in {down, Append(down, Snapshot(player'.lastSeq))}
        /\ UNCHANGED <<net, up, clientVars, changes, heard>>
    BY <1>4 DEF RoomStep
  <2>2. Snapshot(player'.lastSeq) \in Message
    BY DEF StreamTypeOK, SimPlayer, Snapshot, Message
  <2>3. down' \in Seq(Message)
    BY <1>1, <2>1, <2>2 DEF TypeOK
  <2>. QED  BY <1>1, <2>1, <2>3 DEF TypeOK, Numbered, clientVars
<1>5. ASSUME Drop PROVE TypeOK' /\ Numbered'
  BY <1>1, <1>2, <1>5 DEF Drop, TypeOK, Numbered, clientVars, streamVars
<1>6. ASSUME Return PROVE TypeOK' /\ Numbered'
  BY <1>1, <1>2, <1>6 DEF Return, NewController, TypeOK, Numbered, clientVars
<1>7. ASSUME WindowExpires PROVE TypeOK' /\ Numbered'
  BY <1>1, <1>2, <1>7 DEF WindowExpires, TypeOK, Numbered, clientVars
<1>8. ASSUME Rejoin PROVE TypeOK' /\ Numbered'
  BY <1>1, <1>2, <1>8 DEF Rejoin, NewController, TypeOK, Numbered, clientVars
<1>9. ASSUME Reopen PROVE TypeOK' /\ Numbered'
  <2>1. /\ changes < MaxChanges /\ changes' = changes + 1
        /\ net' = "up" /\ down' = <<Loading>> /\ heard' = {} /\ up' = <<>>
        /\ predictor' = NoPredictor /\ switching' = FALSE
        /\ UNCHANGED <<made, inputs>>
    BY <1>9 DEF Reopen, NewController
  <2>2. NoPredictor.actionId <= inputs
    BY <1>1 DEF NoPredictor
  <2>3. Numbered'
    BY <2>1, <2>2 DEF Numbered
  <2>4. changes' \in 0..MaxChanges
    BY <1>1, <2>1 DEF TypeOK
  <2>. QED  BY <1>1, <1>2, <2>1, <2>3, <2>4 DEF TypeOK
<1>. QED  BY <1>3, <1>4, <1>5, <1>6, <1>7, <1>8, <1>9

(* Every step of the session keeps its invariant.                          *)
LEMMA SessionSteps == SessionInv /\ [Next]_vars => SessionInv'
<1>. SUFFICES ASSUME SessionInv, [Next]_vars PROVE SessionInv'
  OBVIOUS
<1>1. StreamInv'
  BY SessionMaps, StreamSteps DEF SessionInv
<1>2. StreamTypeOK'
  BY <1>1 DEF StreamInv
<1>3. CASE Next
  BY <1>1, <1>2, <1>3, ClientSteps, RoomSteps DEF Next, SessionInv
<1>4. CASE UNCHANGED vars
  BY <1>1, <1>2, <1>4 DEF vars, SessionInv, TypeOK, Numbered
<1>. QED  BY <1>3, <1>4

(* The types and the numbering of a session are invariant, together with   *)
(* the invariant of the stream it drives.                                  *)
THEOREM SessionCorrect == Spec => []SessionInv
<1>. QED  BY SessionStarts, SessionSteps, PTL DEF Spec

(* The session of a person, with every drop, return, bot and takeover,     *)
(* implements the stream: its rounds start like the stream, and each of    *)
(* its steps is an operation of the stream or leaves it alone.             *)
THEOREM SessionImplementsStream == Spec => StreamSpec
<1>1. Init => StreamInit
  BY DEF Init
<1>2. SessionInv /\ [Next]_vars => [StreamNext]_streamVars
  BY SessionMaps DEF SessionInv
<1>. QED  BY <1>1, <1>2, SessionCorrect, PTL DEF Spec, StreamSpec

(* Type correctness of the session.                                        *)
THEOREM SessionTypes == Spec => []TypeOK
<1>1. SessionInv => TypeOK
  BY DEF SessionInv
<1>. QED  BY <1>1, SessionCorrect, PTL

(* Nobody gains time, whatever the client and the network do.              *)
THEOREM NobodyGainsTime == Spec => []NoTimeGained
<1>1. StreamInv => NoTimeGained
  BY DEF StreamInv
<1>. QED  BY <1>1, SessionImplementsStream, StreamCorrect, PTL

(* No input is simulated twice or out of order.                            *)
THEOREM InputsInOrder == Spec => []QueueInOrder
<1>1. StreamInv => QueueInOrder
  BY DEF StreamInv
<1>. QED  BY <1>1, SessionImplementsStream, StreamCorrect, PTL

-----------------------------------------------------------------------------
(*                      Where each action of a person is                   *)

(* The actions of the inputs of a queue.                                   *)
ActsOf(q) == UNION {q[k].acts : k \in 1..Len(q)}

(* The account of a player with the actions out of an input just taken:    *)
(* everything accepted is in one place, and what is still to be applied    *)
(* is numbered above what was.                                             *)
Places(p, out) ==
  /\ p.accepted = ActsOf(p.queue) \cup out \cup p.applied \cup p.lost
  /\ ActsOf(p.queue) \cap (out \cup p.applied \cup p.lost) = {}
  /\ out \cap (p.applied \cup p.lost) = {}
  /\ p.applied \cap p.lost = {}
ActsIncrease(q) ==
  \A j, k \in 1..Len(q) : j < k => \A a \in q[j].acts, b \in q[k].acts : a < b
Numbers(p, out) ==
  /\ ActsIncrease(p.queue)
  /\ \A a \in out, b \in ActsOf(p.queue) : a < b
  /\ \A a \in out \cup ActsOf(p.queue) : p.lastActionId < a
  /\ p.lastActionId \in p.accepted \cup {0}
Account(p, out) == Places(p, out) /\ Numbers(p, out)

(* What a tick may do to the stream of a player: process or drop inputs.   *)
Onward(p, r) ==
  /\ p.lastSeq <= r.lastSeq
  /\ LastQueued(r) = LastQueued(p)
  /\ r.bot = p.bot /\ r.accepted = p.accepted
  /\ \A k \in 1..Len(r.queue) : \E j \in 1..Len(p.queue) :
       r.queue[k].seq = p.queue[j].seq /\ r.queue[k].from = p.queue[j].from

(* A sequence of ticks goes onward if each of them does.                   *)
LEMMA OnwardIsTransitive ==
  ASSUME NEW p, NEW q, NEW r, Sound(p), Sound(q), Sound(r), Onward(p, q), Onward(q, r)
  PROVE  Onward(p, r)
<1>1. p.lastSeq \in Nat /\ q.lastSeq \in Nat /\ r.lastSeq \in Nat
  BY DEF Sound, SimPlayer
<1>. QED  BY <1>1 DEF Onward

(* The same queue and counters are onward, and the same account.           *)
SameStream(p, r) ==
  /\ r.queue = p.queue /\ r.lastSeq = p.lastSeq /\ r.bot = p.bot
  /\ r.accepted = p.accepted
(* A stream that stays leads onward.                                       *)
LEMMA SameIsOnward ==
  ASSUME NEW p, NEW r, Sound(p), SameStream(p, r)
  PROVE  Onward(p, r)
<1>1. p.lastSeq \in Nat
  BY DEF Sound, SimPlayer
<1>. QED  BY <1>1 DEF Onward, SameStream, LastQueued

(* The actions of a queue are those of its head and of the rest.           *)
LEMMA ActsOfTail ==
  ASSUME NEW q \in Seq(Input), q # <<>>
  PROVE  /\ ActsOf(q) = Head(q).acts \cup ActsOf(Tail(q))
         /\ ActsOf(q) \in SUBSET Actions
<1>1. /\ Len(Tail(q)) = Len(q) - 1
      /\ \A i \in 1..Len(Tail(q)) : Tail(q)[i] = q[i + 1]
  BY HeadTailProperties
<1>2. Len(q) \in Nat \ {0} /\ Head(q) = q[1] /\ \A k \in 1..Len(q) : q[k] \in Input
  BY EmptySeq, ElementOfSeq
<1>3. \A k \in 1..Len(q) : k = 1 \/ (k - 1 \in 1..Len(Tail(q)) /\ q[k] = Tail(q)[k - 1])
  BY <1>1, <1>2
<1>4. ActsOf(q) \subseteq Head(q).acts \cup ActsOf(Tail(q))
  BY <1>2, <1>3 DEF ActsOf
<1>5. \A i \in 1..Len(Tail(q)) : i + 1 \in 1..Len(q)
  BY <1>1, <1>2
<1>6. Head(q).acts \cup ActsOf(Tail(q)) \subseteq ActsOf(q)
  BY <1>1, <1>2, <1>5 DEF ActsOf
<1>7. ActsOf(q) \in SUBSET Actions
  BY <1>2 DEF ActsOf, Input
<1>. QED  BY <1>4, <1>6, <1>7

(* The first input of a queue goes out: what it carries is out.            *)
LEMMA HeadGoesOut ==
  ASSUME NEW p \in SimPlayer, p.queue # <<>>, Account(p, {}),
         NEW r, r.queue = Tail(p.queue), r.accepted = p.accepted,
         r.applied = p.applied, r.lost = p.lost, r.lastActionId = p.lastActionId
  PROVE  Account(r, Head(p.queue).acts)
<1>. DEFINE h == Head(p.queue).acts
            q == p.queue
<1>1. q \in Seq(Input)
  BY DEF SimPlayer
<1>2. ActsOf(q) = h \cup ActsOf(Tail(q))
  BY <1>1, ActsOfTail
<1>3. /\ Len(Tail(q)) = Len(q) - 1
      /\ \A i \in 1..Len(Tail(q)) : Tail(q)[i] = q[i + 1]
      /\ Len(q) \in Nat \ {0} /\ Head(q) = q[1]
  BY <1>1, HeadTailProperties, EmptySeq
<1>4. \A i \in 1..Len(Tail(q)) : i + 1 \in 1..Len(q) /\ 1 < i + 1
  BY <1>3
<1>5. \A a \in h, b \in ActsOf(Tail(q)) : a < b
  <2>1. ASSUME NEW i \in 1..Len(Tail(q)), NEW a \in h, NEW b \in Tail(q)[i].acts
        PROVE  a < b
    <3>1. 1 \in 1..Len(q) /\ i + 1 \in 1..Len(q) /\ 1 < i + 1
      BY <1>3, <1>4
    <3>2. a \in q[1].acts /\ b \in q[i + 1].acts
      BY <1>3, <2>1
    <3>. QED  BY <3>1, <3>2 DEF Account, Numbers, ActsIncrease
  <2>. QED  BY <2>1 DEF ActsOf
<1>6. h \cap ActsOf(Tail(q)) = {}
  <2>1. ActsOf(q) \in SUBSET Actions /\ \A a \in Actions : a \in Int
    BY <1>1, ActsOfTail, StreamLimits DEF Actions
  <2>. QED  BY <1>2, <1>5, <2>1
<1>7. \A j, k \in 1..Len(Tail(q)) :
        j < k => \A a \in Tail(q)[j].acts, b \in Tail(q)[k].acts : a < b
  <2>1. ASSUME NEW j \in 1..Len(Tail(q)), NEW k \in 1..Len(Tail(q)), j < k,
               NEW a \in Tail(q)[j].acts, NEW b \in Tail(q)[k].acts
        PROVE  a < b
    <3>1. j + 1 \in 1..Len(q) /\ k + 1 \in 1..Len(q) /\ j + 1 < k + 1
      BY <1>4, <2>1
    <3>2. a \in q[j + 1].acts /\ b \in q[k + 1].acts
      BY <1>3, <2>1
    <3>. QED  BY <3>1, <3>2 DEF Account, Numbers, ActsIncrease
  <2>. QED  BY <2>1
<1>8. Places(r, h)
  BY <1>2, <1>6 DEF Account, Places
<1>9. Numbers(r, h)
  BY <1>2, <1>5, <1>7 DEF Account, Numbers, ActsIncrease
<1>. QED  BY <1>8, <1>9 DEF Account

(* What is out and not applied is lost, or dropped from a queue that is    *)
(* too long.                                                               *)
LEMMA OutIsLost ==
  ASSUME NEW p, NEW out, Account(p, out),
         NEW r, r.queue = p.queue, r.accepted = p.accepted, r.applied = p.applied,
         r.lost = p.lost \cup out, r.lastActionId = p.lastActionId
  PROVE  Account(r, {})
<1>1. Places(r, {})
  BY DEF Account, Places
<1>2. Numbers(r, {})
  BY DEF Account, Numbers
<1>. QED  BY <1>1, <1>2 DEF Account

(* What is out is applied, all of it: none of it was before.               *)
LEMMA OutIsApplied ==
  ASSUME NEW p \in SimPlayer, NEW out \in SUBSET Actions, Account(p, out)
  PROVE  Account(Applied(p, out), {})
<1>. DEFINE r == Applied(p, out)
<1>1. Fresh(p, out) = out
  BY DEF Fresh, Account, Numbers
<1>2. r = [p EXCEPT !.applied = @ \cup out, !.lastActionId = Highest(out, @)]
  BY <1>1 DEF Applied
<1>3. p.lastActionId \in Nat
  BY DEF SimPlayer
<1>4. Highest(out, p.lastActionId) \in out \cup {p.lastActionId}
  BY <1>3, HighestIsNumber
<1>5. /\ r.queue = p.queue /\ r.accepted = p.accepted /\ r.applied = p.applied \cup out
      /\ r.lost = p.lost /\ r.lastActionId = Highest(out, p.lastActionId)
  BY <1>2 DEF SimPlayer
<1>. HIDE DEF r
<1>6. Places(r, {})
  BY <1>5 DEF Account, Places
<1>7. Numbers(r, {})
  <2>1. \A a \in ActsOf(r.queue) : r.lastActionId < a
    BY <1>4, <1>5 DEF Account, Numbers
  <2>2. r.lastActionId \in r.accepted \cup {0}
    BY <1>4, <1>5 DEF Account, Numbers, Places
  <2>. QED  BY <1>5, <2>1, <2>2 DEF Account, Numbers
<1>. QED  BY <1>6, <1>7 DEF Account, r

(* A queue without its first elements, whose actions the next one takes    *)
(* over or loses, has the same actions but the lost ones.                  *)
LEMMA RestOfActs ==
  ASSUME NEW q \in Seq(Input), NEW n \in 1..(Len(q) - 1), NEW new,
         NEW acts, \A a : a \in acts <=> \E k \in 1..(n + 1) : a \in q[k].acts,
         NEW kept, kept \subseteq acts,
         IsRest(new, q, n, kept), ActsIncrease(q)
  PROVE  /\ ActsOf(q) = ActsOf(new) \cup (acts \ kept)
         /\ ActsOf(new) \cap (acts \ kept) = {}
         /\ ActsIncrease(new)
<1>0. /\ new \in Seq(Input) /\ Len(new) = Len(q) - n
      /\ \A j \in 1..Len(new) : new[j].acts = IF j = 1 THEN kept ELSE q[n + j].acts
      /\ \A j, k \in 1..Len(q) : j < k => \A a \in q[j].acts, b \in q[k].acts : a < b
  BY DEF IsRest, ActsIncrease
<1>1. Len(q) \in Nat /\ n \in Nat /\ n + 1 <= Len(q)
  BY <1>0, LenProperties
<1>2. Len(new) \in Nat /\ 1 \in 1..Len(new)
  BY <1>0, <1>1
<1>3. \A k \in 1..Len(q) : k \in 1..(n + 1) \/ (k - n \in 2..Len(new) /\ k = n + (k - n))
  BY <1>0, <1>1
<1>4. \A j \in 2..Len(new) : j \in 1..Len(new) /\ j # 1 /\ n + j \in 1..Len(q)
  BY <1>0, <1>1
<1>5. \A k \in 1..(n + 1) : k \in 1..Len(q)
  BY <1>0, <1>1
<1>6. \A j \in 2..Len(new) : \A b \in new[j].acts : b \in q[n + j].acts
  BY <1>0, <1>4
<1>7. \A a \in acts : \A j \in 2..Len(new) : \A b \in new[j].acts : a < b
  <2>1. ASSUME NEW k \in 1..(n + 1), NEW a \in q[k].acts,
               NEW j \in 2..Len(new), NEW b \in new[j].acts
        PROVE  a < b
    <3>1. k \in 1..Len(q) /\ n + j \in 1..Len(q) /\ k < n + j
      BY <1>0, <1>1, <1>2
    <3>. QED  BY <1>0, <1>6, <3>1, <2>1
  <2>. QED  BY <1>0, <2>1
<1>8. \A j \in 1..Len(new) : j = 1 \/ j \in 2..Len(new)
  BY <1>0, <1>2
<1>9. /\ \A a \in ActsOf(new) : a \in kept \/ \E j \in 2..Len(new) : a \in new[j].acts
      /\ kept \subseteq ActsOf(new)
      /\ \A j \in 2..Len(new) : new[j].acts \subseteq ActsOf(new)
  <2>1. \A j \in 1..Len(new) : new[j].acts \subseteq ActsOf(new)
    BY <1>0 DEF ActsOf
  <2>2. \A a \in ActsOf(new) : \E j \in 1..Len(new) : a \in new[j].acts
    BY <1>0 DEF ActsOf
  <2>3. new[1].acts = kept
    BY <1>0, <1>2
  <2>. QED  BY <1>0, <1>2, <1>4, <1>8, <2>1, <2>2, <2>3
<1>10. ActsOf(q) \subseteq acts \cup ActsOf(new)
  <2>1. ASSUME NEW k \in 1..Len(q), NEW a \in q[k].acts PROVE a \in acts \cup ActsOf(new)
    <3>1. CASE k \in 1..(n + 1)
      BY <1>0, <2>1, <3>1
    <3>2. CASE k - n \in 2..Len(new) /\ k = n + (k - n)
      <4>1. new[k - n].acts = q[k].acts
        BY <1>0, <1>4, <3>2
      <4>. QED  BY <1>0, <1>9, <2>1, <3>2, <4>1
    <3>. QED  BY <1>0, <1>3, <3>1, <3>2
  <2>2. \A a \in ActsOf(q) : \E k \in 1..Len(q) : a \in q[k].acts
    BY <1>0 DEF ActsOf
  <2>. QED  BY <1>0, <2>1, <2>2
<1>11. acts \subseteq ActsOf(q) /\ ActsOf(new) \subseteq ActsOf(q)
  <2>1. acts \subseteq ActsOf(q)
    BY <1>0, <1>5 DEF ActsOf
  <2>2. \A j \in 2..Len(new) : new[j].acts \subseteq ActsOf(q)
    BY <1>0, <1>4 DEF ActsOf
  <2>. QED  BY <1>0, <1>9, <2>1, <2>2
<1>12. ActsOf(q) = ActsOf(new) \cup (acts \ kept)
  BY <1>0, <1>9, <1>10, <1>11
<1>13. ActsOf(new) \cap (acts \ kept) = {}
  <2>1. \A a \in acts : a \in Int
    <3>1. ActsOf(q) \in SUBSET Actions
      <4>1. q # <<>>
        BY <1>0, <1>1, EmptySeq
      <4>. QED  BY <1>0, <4>1, ActsOfTail
    <3>. QED  BY <1>0, <1>11, <3>1, StreamLimits DEF Actions
  <2>2. ASSUME NEW a \in ActsOf(new), a \in acts, a \notin kept PROVE FALSE
    <3>1. PICK j \in 2..Len(new) : a \in new[j].acts
      BY <1>0, <1>9, <2>2
    <3>2. a < a /\ a \in Int
      BY <1>0, <1>7, <2>1, <2>2, <3>1
    <3>. QED  BY <1>0, <3>2
  <2>. QED  BY <1>0, <2>2
<1>14. ASSUME NEW j \in 1..Len(new), NEW k \in 1..Len(new), j < k,
              NEW a \in new[j].acts, NEW b \in new[k].acts
       PROVE  a < b
  <2>1. k \in 2..Len(new) /\ b \in q[n + k].acts
    BY <1>0, <1>2, <1>4, <1>14
  <2>2. CASE j = 1
    BY <1>0, <1>2, <1>7, <1>14, <2>1, <2>2
  <2>3. CASE j \in 2..Len(new)
    <3>1. n + j \in 1..Len(q) /\ n + k \in 1..Len(q) /\ n + j < n + k
      BY <1>0, <1>1, <1>4, <1>14, <2>1, <2>3
    <3>2. a \in q[n + j].acts
      BY <1>0, <1>4, <1>14, <2>3
    <3>. QED  BY <1>0, <2>1, <3>1, <3>2
  <2>. QED  BY <1>0, <1>8, <2>2, <2>3
<1>. QED  BY <1>12, <1>13, <1>14 DEF ActsIncrease

-----------------------------------------------------------------------------
(*                     What a tick does to the account                     *)

(* The last sequence of a queue that is in order, and of its rest.         *)
LEMMA LastOfQueue ==
  ASSUME NEW p, Sound(p)
  PROVE  /\ LastQueued(p) \in Nat /\ p.lastSeq <= LastQueued(p)
         /\ \A k \in 1..Len(p.queue) : p.queue[k].seq <= LastQueued(p)
<1>1. /\ p.queue \in Seq(Input) /\ p.lastSeq \in Nat /\ Len(p.queue) \in Nat
      /\ \A k \in 1..Len(p.queue) : p.queue[k].seq \in Nat
      /\ InOrder(p.queue, p.lastSeq)
  <2>1. p.queue \in Seq(Input) /\ p.lastSeq \in Nat /\ InOrder(p.queue, p.lastSeq)
    BY DEF Sound, SimPlayer
  <2>2. \A k \in 1..Len(p.queue) : p.queue[k] \in Input
    BY <2>1, ElementOfSeq
  <2>. QED  BY <2>1, <2>2, LenProperties DEF Input
<1>2. CASE p.queue = <<>>
  BY <1>1, <1>2 DEF LastQueued
<1>3. CASE p.queue # <<>>
  <2>1. Len(p.queue) \in 1..Len(p.queue) /\ LastQueued(p) = p.queue[Len(p.queue)].seq
    BY <1>1, <1>3, EmptySeq DEF LastQueued
  <2>2. \A k \in 1..Len(p.queue) : k = Len(p.queue) \/ k < Len(p.queue)
    BY <1>1
  <2>. QED  BY <1>1, <2>1, <2>2 DEF InOrder
<1>. QED  BY <1>2, <1>3

(* Inputs dropped for debt leave the account complete: their actions go to *)
(* the next input or are lost.                                             *)
LEMMA DebtKeepsAccount ==
  ASSUME NEW p, Sound(p)
  PROVE  /\ Onward(p, PayDebt(p))
         /\ Account(p, {}) => Account(PayDebt(p), {})
<1>. DEFINE n == Excess(p)
            d == PayDebt(p)
            q == p.queue
            acts == EarlyActs(p)
            kept == Newest(acts)
            new == d.queue
<1>1. /\ p \in SimPlayer /\ InOrder(q, p.lastSeq)
      /\ q \in Seq(Input) /\ Len(q) \in Nat /\ p.lastSeq \in Nat
  BY LenProperties DEF Sound, SimPlayer
<1>2. CASE n = 0
  <2>1. d = p
    BY <1>2 DEF PayDebt
  <2>. QED  BY <2>1, SameIsOnward DEF SameStream
<1>3. CASE n # 0
  <2>1. n \in 1..(Len(q) - 1)
    BY <1>3, ExcessIsShort
  <2>2. /\ new \in Seq(Input) /\ IsRest(new, q, n, kept)
        /\ new # <<>> /\ d.lastSeq = q[n].seq /\ d.lastSeq \in Nat
        /\ d.lost = p.lost \cup (acts \ kept) /\ kept \subseteq acts
        /\ d = [p EXCEPT !.queue = d.queue, !.lastSeq = d.lastSeq,
                         !.inputDebt = d.inputDebt, !.lost = d.lost]
    BY <1>3, DebtIsPaid
  <2>3. \A a : a \in acts <=> \E k \in 1..(n + 1) : a \in q[k].acts
    BY DEF EarlyActs
  <2>. HIDE DEF d, kept, acts, n
  <2>4. /\ d.bot = p.bot /\ d.accepted = p.accepted /\ d.applied = p.applied
        /\ d.lastActionId = p.lastActionId
    BY <1>1, <2>2 DEF SimPlayer
  <2>. HIDE DEF new, q
  <2>0. /\ Len(new) = Len(q) - n
        /\ \A j \in 1..Len(new) : new[j].seq = q[n + j].seq /\ new[j].from = q[n + j].from
    BY <2>2 DEF IsRest
  <2>5. n \in 1..Len(q) /\ \A k \in 1..Len(new) : n + k \in 1..Len(q)
    BY <1>1, <2>0, <2>1
  <2>6. p.lastSeq <= d.lastSeq
    BY <1>1, <2>2, <2>5 DEF InOrder
  <2>7. LastQueued(d) = LastQueued(p)
    <3>1. Len(new) \in 1..Len(new) /\ n + Len(new) = Len(q)
      <4>1. Len(q) \in Nat /\ n \in 1..(Len(q) - 1) /\ Len(new) = Len(q) - n
        BY <1>1, <2>0, <2>1
      <4>. QED  BY <4>1
    <3>2. q # <<>>
      BY <1>1, <2>1, EmptySeq
    <3>3. new[Len(new)].seq = q[Len(q)].seq
      BY <2>0, <3>1
    <3>. QED  BY <2>2, <3>2, <3>3 DEF LastQueued, new, q
  <2>8. Onward(p, d)
    BY <2>0, <2>4, <2>5, <2>6, <2>7 DEF Onward, new, q
  <2>9. ASSUME Account(p, {}) PROVE Account(d, {})
    <3>1. ActsIncrease(q)
      BY <2>9 DEF Account, Numbers, q
    <3>2. /\ ActsOf(q) = ActsOf(new) \cup (acts \ kept)
          /\ ActsOf(new) \cap (acts \ kept) = {}
          /\ ActsIncrease(new)
      BY <1>1, <2>1, <2>2, <2>3, <3>1, RestOfActs
    <3>3. Places(d, {})
      BY <2>2, <2>4, <2>9, <3>2 DEF Account, Places, new, q
    <3>4. Numbers(d, {})
      BY <2>2, <2>4, <2>9, <3>2 DEF Account, Numbers, new, q
    <3>. QED  BY <3>3, <3>4 DEF Account
  <2>. QED  BY <2>8, <2>9 DEF d
<1>. QED  BY <1>2, <1>3

(* Taking an input: what it carries is out, nothing else moves.            *)
LEMMA TakingKeepsAccount ==
  ASSUME NEW p, Sound(p)
  PROVE  LET t == TakeInput(p)
         IN  /\ Onward(p, t.player)
             /\ ~p.bot /\ Account(p, {}) => Account(t.player, t.acts)
             /\ ~t.given => t.acts = {}
<1>. DEFINE d == PayDebt(p)
            e == [d EXCEPT !.stale = Lower(StaleCap, @ + 1)]
            t == TakeInput(p)
<1>1. /\ Sound(d) /\ d \in SimPlayer /\ d.queue \in Seq(Input)
      /\ InOrder(d.queue, d.lastSeq) /\ d.lastSeq \in Nat
  BY PayDebtIsSound DEF Sound, SimPlayer
<1>2. Onward(p, d) /\ (Account(p, {}) => Account(d, {})) /\ Sound(t.player)
  BY DebtKeepsAccount, TakeInputIsSound
<1>. HIDE DEF d
<1>3. CASE p.bot
  <2>1. t = [player |-> p, given |-> TRUE, acts |-> {}]
    BY <1>3 DEF TakeInput
  <2>2. Onward(p, p)
    BY SameIsOnward DEF SameStream
  <2>. QED  BY <1>3, <2>1, <2>2
<1>4. CASE ~p.bot /\ d.queue # <<>>
  <2>. DEFINE q == [d EXCEPT !.queue = Tail(@), !.lastSeq = Head(d.queue).seq,
                             !.stale = 0]
  <2>1. t = [player |-> q, given |-> TRUE, acts |-> Head(d.queue).acts]
    BY <1>4 DEF TakeInput, d
  <2>2. /\ q.queue = Tail(d.queue) /\ q.lastSeq = Head(d.queue).seq /\ q.bot = d.bot
        /\ q.accepted = d.accepted /\ q.applied = d.applied /\ q.lost = d.lost
        /\ q.lastActionId = d.lastActionId
    BY <1>1 DEF SimPlayer
  <2>. HIDE DEF q
  <2>3. Account(p, {}) => Account(q, Head(d.queue).acts)
    BY <1>1, <1>2, <1>4, <2>2, HeadGoesOut
  <2>4. /\ Len(Tail(d.queue)) = Len(d.queue) - 1 /\ Len(d.queue) \in Nat \ {0}
        /\ Tail(d.queue) \in Seq(Input)
        /\ \A i \in 1..Len(Tail(d.queue)) : Tail(d.queue)[i] = d.queue[i + 1]
        /\ Head(d.queue) = d.queue[1]
    BY <1>1, <1>4, HeadTailProperties, EmptySeq
  <2>5. \A i \in 1..Len(Tail(d.queue)) : i + 1 \in 1..Len(d.queue)
    BY <2>4
  <2>6. d.lastSeq <= q.lastSeq
    <3>1. 1 \in 1..Len(d.queue)
      BY <2>4
    <3>2. d.queue[1] \in Input
      BY <1>1, <3>1, ElementOfSeq
    <3>3. d.queue[1].seq \in Nat
      BY <3>2 DEF Input
    <3>. QED  BY <1>1, <2>2, <2>4, <3>1, <3>3 DEF InOrder
  <2>7. LastQueued(q) = LastQueued(d)
    <3>1. CASE Tail(d.queue) = <<>>
      <4>1. Len(Tail(d.queue)) = 0
        BY <3>1, EmptySeq
      <4>2. Len(d.queue) = 1
        BY <2>4, <4>1
      <4>. QED  BY <1>4, <2>2, <2>4, <3>1, <4>2 DEF LastQueued
    <3>2. CASE Tail(d.queue) # <<>>
      <4>1. Len(Tail(d.queue)) \in 1..Len(Tail(d.queue))
        BY <2>4, <3>2, EmptySeq
      <4>. QED  BY <1>4, <2>2, <2>4, <3>2, <4>1 DEF LastQueued
    <3>. QED  BY <3>1, <3>2
  <2>8. Onward(d, q)
    BY <2>2, <2>4, <2>5, <2>6, <2>7 DEF Onward
  <2>9. Onward(p, q)
    BY <1>1, <1>2, <2>1, <2>8, OnwardIsTransitive
  <2>. QED  BY <2>1, <2>3, <2>9
<1>5. CASE ~p.bot /\ ~(d.queue # <<>>)
  <2>. DEFINE w == [e EXCEPT !.holdDebt = Owed(@)]
              r == [e EXCEPT !.inputDebt = Lower(StaleTicks, @ + 1)]
  <2>1. /\ t.acts = {}
        /\ t.player \in {e, w, r}
    BY <1>5 DEF TakeInput, d
  <2>2. \A x \in {e, w, r} :
          /\ x.queue = d.queue /\ x.lastSeq = d.lastSeq /\ x.bot = d.bot
          /\ x.accepted = d.accepted /\ x.applied = d.applied /\ x.lost = d.lost
          /\ x.lastActionId = d.lastActionId
    BY <1>1 DEF SimPlayer
  <2>. HIDE DEF e, w, r, t
  <2>3. Onward(d, t.player)
    BY <1>1, <2>1, <2>2, SameIsOnward DEF SameStream
  <2>4. Onward(p, t.player)
    BY <1>1, <1>2, <2>3, OnwardIsTransitive
  <2>5. Account(p, {}) => Account(t.player, {})
    BY <1>2, <2>1, <2>2 DEF Account, Places, Numbers
  <2>. QED  BY <2>1, <2>4, <2>5 DEF t
<1>. QED  BY <1>3, <1>4, <1>5

(* A step of a player goes onward, and leaves a complete account.          *)
LEMMA StepKeepsAccount ==
  ASSUME NEW p, Sound(p), NEW r \in StepOnePlayer(p)
  PROVE  /\ Onward(p, r)
         /\ ~p.bot /\ Account(p, {}) => Account(r, {})
<1>. DEFINE t == TakeInput(p)
            q == [t.player EXCEPT !.steps = @ + 1]
            unused == [q EXCEPT !.lost = @ \cup t.acts]
            used == Applied(q, t.acts)
<1>1. /\ Sound(t.player) /\ t.player \in SimPlayer
      /\ t.acts \in SUBSET Actions /\ t.given \in BOOLEAN
      /\ t.player.travel => t.given
  BY TakeInputIsSound DEF Sound
<1>2. /\ Onward(p, t.player) /\ t.player.bot = p.bot
      /\ ~p.bot /\ Account(p, {}) => Account(t.player, t.acts)
      /\ ~t.given => t.acts = {}
  BY TakingKeepsAccount DEF Onward
<1>3. \/ r = t.player /\ ~t.given
      \/ \E b \in BOOLEAN : r = [unused EXCEPT !.travel = b]
      \/ r = unused
      \/ q.bot /\ r \in {q, [q EXCEPT !.lastActionId = @ + 1]}
      \/ \E b \in BOOLEAN : r = [used EXCEPT !.travel = b]
  BY <1>1 DEF StepOnePlayer
<1>. HIDE DEF t
<1>4. /\ q \in SimPlayer /\ SameStream(t.player, q)
      /\ q.applied = t.player.applied /\ q.lost = t.player.lost
      /\ q.lastActionId = t.player.lastActionId
  <2>1. t.player.steps + 1 \in Nat
    BY <1>1 DEF SimPlayer
  <2>. QED  BY <1>1, <2>1 DEF SimPlayer, SameStream
<1>5. Account(t.player, t.acts) => Account(q, t.acts)
  BY <1>4 DEF Account, Places, Numbers, SameStream
<1>. HIDE DEF q
<1>6. SameStream(q, unused) /\ (Account(q, t.acts) => Account(unused, {}))
  <2>1. /\ unused.queue = q.queue /\ unused.accepted = q.accepted
        /\ unused.applied = q.applied /\ unused.lost = q.lost \cup t.acts
        /\ unused.lastActionId = q.lastActionId
        /\ unused.lastSeq = q.lastSeq /\ unused.bot = q.bot /\ unused \in SimPlayer
    BY <1>1, <1>4 DEF SimPlayer
  <2>. HIDE DEF unused
  <2>. QED  BY <2>1, OutIsLost DEF SameStream
<1>7. SameStream(q, used) /\ (Account(q, t.acts) => Account(used, {})) /\ used \in SimPlayer
  <2>1. Highest(Fresh(q, t.acts), q.lastActionId) \in Nat
    <3>1. Fresh(q, t.acts) \in SUBSET Actions /\ q.lastActionId \in Nat
      BY <1>1, <1>4 DEF Fresh, SimPlayer
    <3>. QED  BY <3>1, HighestIsNumber
  <2>2. SameStream(q, used) /\ used \in SimPlayer
    BY <1>1, <1>4, <2>1 DEF Applied, Fresh, SimPlayer, SameStream
  <2>. QED  BY <1>1, <1>4, <2>2, OutIsApplied
<1>8. unused \in SimPlayer
  BY <1>1, <1>4 DEF SimPlayer
<1>. HIDE DEF unused, used
<1>9. \A u \in {unused, used}, b \in BOOLEAN :
        LET v == [u EXCEPT !.travel = b]
        IN  SameStream(u, v) /\ (Account(u, {}) => Account(v, {}))
  BY <1>7, <1>8 DEF SimPlayer, SameStream, Account, Places, Numbers
<1>10. SameStream(q, [q EXCEPT !.lastActionId = @ + 1])
  BY <1>4 DEF SimPlayer, SameStream
<1>11. SameStream(t.player, r)
  BY <1>3, <1>4, <1>6, <1>7, <1>9, <1>10 DEF SameStream
<1>12. Onward(p, r)
  <2>1. Sound(r)
    BY StepIsSound
  <2>. QED  BY <1>1, <1>2, <1>11, <2>1, SameIsOnward, OnwardIsTransitive
<1>13. ASSUME ~p.bot, Account(p, {}) PROVE Account(r, {})
  <2>1. Account(q, t.acts) /\ Account(unused, {}) /\ Account(used, {})
    BY <1>2, <1>5, <1>6, <1>7, <1>13
  <2>2. ~q.bot
    BY <1>2, <1>4, <1>13 DEF SameStream
  <2>3. ~t.given => Account(t.player, {})
    BY <1>2, <1>13
  <2>. QED  BY <1>3, <1>9, <2>1, <2>2, <2>3
<1>. QED  BY <1>12, <1>13

(* A recovered step is a step.                                             *)
LEMMA CatchUpKeepsAccount ==
  ASSUME NEW p, Sound(p), NEW r \in CatchUp(p)
  PROVE  /\ Onward(p, r)
         /\ ~p.bot /\ Account(p, {}) => Account(r, {})
<1>1. p \in SimPlayer
  BY DEF Sound
<1>2. CASE p.holdDebt > 0 /\ p.queue # <<>>
  <2>. DEFINE q == [p EXCEPT !.holdDebt = @ - 1]
  <2>1. p.holdDebt - 1 \in 0..HoldDebtMax
    BY <1>1, <1>2, StreamLimits DEF SimPlayer
  <2>2. /\ q \in SimPlayer /\ SameStream(p, q)
        /\ q.applied = p.applied /\ q.lost = p.lost /\ q.lastActionId = p.lastActionId
    BY <1>1, <2>1 DEF SimPlayer, SameStream
  <2>3. r \in StepOnePlayer(q)
    BY <1>2 DEF CatchUp
  <2>. HIDE DEF q
  <2>4. Sound(q) /\ Onward(p, q) /\ q.bot = p.bot
    BY <2>2, SameIsOnward DEF Sound, SameStream
  <2>5. Account(p, {}) => Account(q, {})
    BY <2>2 DEF Account, Places, Numbers, SameStream
  <2>6. Sound(r)
    BY <2>3, <2>4, StepIsSound
  <2>7. Onward(q, r) /\ (~q.bot /\ Account(q, {}) => Account(r, {}))
    BY <2>3, <2>4, StepKeepsAccount
  <2>. QED  BY <2>4, <2>5, <2>6, <2>7, OnwardIsTransitive
<1>3. CASE ~ (p.holdDebt > 0 /\ p.queue # <<>>)
  <2>1. r = p
    BY <1>3 DEF CatchUp
  <2>. QED  BY <2>1, SameIsOnward DEF SameStream
<1>. QED  BY <1>2, <1>3

(* Death and respawn leave the stream and the account alone.               *)
LEMMA WorldKeepsAccount ==
  ASSUME NEW p, Sound(p), NEW r \in World(p)
  PROVE  /\ Onward(p, r)
         /\ Account(p, {}) => Account(r, {})
<1>1. p \in SimPlayer
  BY DEF Sound
<1>2. \/ r = p
      \/ r = [p EXCEPT !.alive = FALSE, !.travel = FALSE]
      \/ r = [p EXCEPT !.alive = TRUE]
  BY DEF World
<1>3. /\ SameStream(p, r)
      /\ r.applied = p.applied /\ r.lost = p.lost /\ r.lastActionId = p.lastActionId
  BY <1>1, <1>2 DEF SimPlayer, SameStream
<1>4. Account(p, {}) => Account(r, {})
  BY <1>3 DEF Account, Places, Numbers, SameStream
<1>. QED  BY <1>3, <1>4, SameIsOnward

(* A tick, of the countdown or of the round, goes onward and leaves a      *)
(* complete account.                                                       *)
LEMMA TickKeepsAccount ==
  ASSUME Sound(player), Tick
  PROVE  /\ Onward(player, player')
         /\ ~player.bot /\ Account(player, {}) => Account(player', {})
<1>1. CASE CountdownTick
  <2>. DEFINE t == TakeInput(player)
  <2>1. player' = [t.player EXCEPT !.holdDebt = 0, !.lost = @ \cup t.acts]
    BY <1>1 DEF CountdownTick
  <2>2. Sound(t.player) /\ t.player \in SimPlayer /\ t.acts \in SUBSET Actions
    BY TakeInputIsSound DEF Sound
  <2>3. /\ Onward(player, t.player)
        /\ ~player.bot /\ Account(player, {}) => Account(t.player, t.acts)
    BY TakingKeepsAccount
  <2>. HIDE DEF t
  <2>4. /\ SameStream(t.player, player') /\ player'.applied = t.player.applied
        /\ player'.lost = t.player.lost \cup t.acts
        /\ player'.lastActionId = t.player.lastActionId /\ player' \in SimPlayer
    <3>1. 0 \in 0..HoldDebtMax
      BY StreamLimits
    <3>. QED  BY <2>1, <2>2, <3>1 DEF SimPlayer, SameStream
  <2>5. Sound(player') /\ Onward(t.player, player')
    BY <2>2, <2>4, SameIsOnward DEF Sound, SameStream
  <2>6. Account(t.player, t.acts) => Account(player', {})
    BY <2>4, OutIsLost DEF SameStream
  <2>. QED  BY <2>2, <2>3, <2>5, <2>6, OnwardIsTransitive
<1>2. CASE RunningTick
  <2>1. PICK p \in StepOnePlayer(player) : \E q \in CatchUp(p) : player' \in World(q)
    BY <1>2 DEF RunningTick
  <2>2. PICK q \in CatchUp(p) : player' \in World(q)
    BY <2>1
  <2>3. /\ Sound(p) /\ Onward(player, p) /\ p.bot = player.bot
        /\ ~player.bot /\ Account(player, {}) => Account(p, {})
    BY StepIsSound, StepKeepsAccount DEF Onward
  <2>4. /\ Sound(q) /\ Onward(p, q) /\ q.bot = p.bot
        /\ ~p.bot /\ Account(p, {}) => Account(q, {})
    BY <2>3, CatchUpIsSound, CatchUpKeepsAccount DEF Onward
  <2>5. /\ Sound(player') /\ Onward(q, player')
        /\ Account(q, {}) => Account(player', {})
    BY <2>2, <2>4, WorldIsSound, WorldKeepsAccount
  <2>6. Onward(player, q)
    BY <2>3, <2>4, OnwardIsTransitive
  <2>. QED  BY <2>3, <2>4, <2>5, <2>6, OnwardIsTransitive
<1>. QED  BY <1>1, <1>2 DEF Tick

(* The actions of a queue with one input more.                             *)
LEMMA ActsOfAppend ==
  ASSUME NEW q \in Seq(Input), NEW i \in Input, ActsIncrease(q),
         \A a \in ActsOf(q), b \in i.acts : a < b
  PROVE  /\ ActsOf(Append(q, i)) = ActsOf(q) \cup i.acts
         /\ ActsIncrease(Append(q, i))
<1>. DEFINE new == Append(q, i)
<1>1. Len(q) \in Nat
  BY LenProperties
<1>2. /\ Len(new) = Len(q) + 1 /\ new[Len(q) + 1] = i
      /\ \A k \in 1..Len(q) : new[k] = q[k]
  BY <1>1
<1>. HIDE DEF new
<1>3. \A k \in 1..Len(new) : k \in 1..Len(q) \/ k = Len(q) + 1
  BY <1>1, <1>2
<1>4. Len(q) + 1 \in 1..Len(new) /\ \A k \in 1..Len(q) : k \in 1..Len(new)
  BY <1>1, <1>2
<1>5. ActsOf(new) = ActsOf(q) \cup i.acts
  <2>1. \A k \in 1..Len(new) : new[k].acts \subseteq ActsOf(q) \cup i.acts
    BY <1>2, <1>3 DEF ActsOf
  <2>2. \A k \in 1..Len(q) : q[k].acts \subseteq ActsOf(new)
    BY <1>2, <1>4 DEF ActsOf
  <2>3. i.acts \subseteq ActsOf(new)
    BY <1>2, <1>4 DEF ActsOf
  <2>4. ActsOf(new) \subseteq ActsOf(q) \cup i.acts
    BY <2>1 DEF ActsOf
  <2>5. ActsOf(q) \subseteq ActsOf(new)
    BY <2>2 DEF ActsOf
  <2>. QED  BY <2>3, <2>4, <2>5
<1>6. ASSUME NEW j \in 1..Len(new), NEW k \in 1..Len(new), j < k,
             NEW a \in new[j].acts, NEW b \in new[k].acts
      PROVE  a < b
  <2>1. j \in 1..Len(q) /\ a \in q[j].acts
    BY <1>1, <1>2, <1>6
  <2>2. CASE k \in 1..Len(q)
    BY <1>2, <1>6, <2>1, <2>2 DEF ActsIncrease
  <2>3. CASE k = Len(q) + 1
    <3>1. a \in ActsOf(q)
      BY <2>1 DEF ActsOf
    <3>. QED  BY <1>2, <1>6, <2>3, <3>1
  <2>. QED  BY <1>3, <2>2, <2>3
<1>. QED  BY <1>5, <1>6 DEF ActsIncrease, new

(* A queue that is too long loses its oldest input with its actions, and   *)
(* keeps its last one.                                                     *)
LEMMA BoundedKeepsAccount ==
  ASSUME NEW p \in SimPlayer
  PROVE  LET r == Bounded(p)
         IN  /\ r.lastSeq = p.lastSeq /\ r.bot = p.bot /\ r.accepted = p.accepted
             /\ LastQueued(r) = LastQueued(p)
             /\ Account(p, {}) => Account(r, {})
             /\ \A k \in 1..Len(r.queue) : \E j \in 1..Len(p.queue) :
                  r.queue[k] = p.queue[j]
<1>. DEFINE q == p.queue
            r == Bounded(p)
<1>1. q \in Seq(Input) /\ Len(q) \in Nat /\ QueueMax \in Nat \ {0}
  BY StreamLimits, LenProperties DEF SimPlayer
<1>2. CASE ~ (Len(q) > QueueMax)
  BY <1>2 DEF Bounded
<1>3. CASE Len(q) > QueueMax
  <2>1. r = [p EXCEPT !.queue = Tail(q), !.lost = @ \cup Head(q).acts]
    BY <1>3 DEF Bounded
  <2>2. q # <<>> /\ Len(q) > 1
    BY <1>1, <1>3, EmptySeq
  <2>3. /\ Tail(q) \in Seq(Input) /\ Head(q) \in Input /\ Len(Tail(q)) = Len(q) - 1
        /\ \A k \in 1..Len(Tail(q)) : Tail(q)[k] = q[k + 1]
    BY <1>1, <2>2, HeadTailProperties
  <2>4. /\ r.queue = Tail(q) /\ r.lost = p.lost \cup Head(q).acts
        /\ r.lastSeq = p.lastSeq /\ r.bot = p.bot /\ r.accepted = p.accepted
        /\ r.applied = p.applied /\ r.lastActionId = p.lastActionId
    BY <2>1 DEF SimPlayer
  <2>. HIDE DEF r
  <2>5. Tail(q) # <<>> /\ Len(Tail(q)) \in 1..Len(Tail(q))
    <3>. DEFINE n == Len(Tail(q))
    <3>1. n = Len(q) - 1
      BY <2>3
    <3>. HIDE DEF n, q
    <3>2. n \in Nat \ {0} /\ n \in 1..n
      BY <1>1, <2>2, <3>1
    <3>3. Tail(q) # <<>>
      BY <2>3, <3>2, EmptySeq DEF n
    <3>. QED  BY <3>2, <3>3 DEF n
  <2>6. LastQueued(r) = LastQueued(p)
    <3>1. Tail(q)[Len(Tail(q))] = q[Len(q)]
      BY <1>1, <2>3, <2>5
    <3>. QED  BY <2>2, <2>4, <2>5, <3>1 DEF LastQueued
  <2>7. \A k \in 1..Len(r.queue) : k + 1 \in 1..Len(q) /\ r.queue[k] = q[k + 1]
    BY <1>1, <2>3, <2>4
  <2>8. ASSUME Account(p, {}) PROVE Account(r, {})
    <3>. DEFINE o == [p EXCEPT !.queue = Tail(q)]
    <3>1. /\ o.queue = Tail(q) /\ o.accepted = p.accepted /\ o.applied = p.applied
          /\ o.lost = p.lost /\ o.lastActionId = p.lastActionId
      BY DEF SimPlayer
    <3>. HIDE DEF o
    <3>2. Account(o, Head(q).acts)
      BY <2>2, <2>8, <3>1, HeadGoesOut
    <3>. QED  BY <2>4, <3>1, <3>2, OutIsLost
  <2>. QED  BY <2>4, <2>6, <2>7, <2>8 DEF r
<1>. QED  BY <1>2, <1>3

(* An input of the room is refused, or is the last one of the queue; its   *)
(* actions are new to the account if they are above all accepted ones.     *)
LEMMA EnqueuedKeepsAccount ==
  ASSUME NEW p, Sound(p), NEW i \in Input
  PROVE  LET r == Enqueued(p, i)
         IN  /\ r.lastSeq = p.lastSeq /\ r.bot = p.bot
             /\ \/ r = p
                \/ /\ LastQueued(p) < i.seq /\ LastQueued(r) = i.seq
                   /\ r.accepted = p.accepted \cup i.acts
                   /\ \A k \in 1..Len(r.queue) :
                        r.queue[k] = i \/ \E j \in 1..Len(p.queue) : r.queue[k] = p.queue[j]
             /\ LET new == \A b \in i.acts : 0 < b /\ \A a \in p.accepted : a < b
                IN  Account(p, {}) /\ new => Account(r, {})
<1>1. CASE i.seq <= LastQueued(p)
  BY <1>1 DEF Enqueued
<1>2. CASE ~ (i.seq <= LastQueued(p))
  <2>. DEFINE q == Append(p.queue, i)
              r == [p EXCEPT !.queue = q, !.accepted = @ \cup i.acts]
  <2>1. p \in SimPlayer /\ p.queue \in Seq(Input) /\ Len(p.queue) \in Nat
    BY LenProperties DEF Sound, SimPlayer
  <2>2. LastQueued(p) < i.seq
    BY <1>2, LastOfQueue DEF Input
  <2>3. /\ q \in Seq(Input) /\ q # <<>> /\ Len(q) = Len(p.queue) + 1
        /\ q[Len(q)] = i
        /\ \A k \in 1..Len(q) : q[k] = i \/ \E j \in 1..Len(p.queue) : q[k] = p.queue[j]
    <3>1. /\ q \in Seq(Input) /\ Len(q) = Len(p.queue) + 1
          /\ q[Len(p.queue) + 1] = i /\ \A k \in 1..Len(p.queue) : q[k] = p.queue[k]
      BY <2>1
    <3>. HIDE DEF q
    <3>2. \A k \in 1..Len(q) : k \in 1..Len(p.queue) \/ k = Len(p.queue) + 1
      BY <2>1, <3>1
    <3>. QED  BY <2>1, <3>1, <3>2, EmptySeq
  <2>4. Account(p, {}) /\ (\A b \in i.acts : \A a \in p.accepted : a < b)
          => /\ ActsOf(q) = ActsOf(p.queue) \cup i.acts
             /\ ActsIncrease(q)
    BY <2>1, ActsOfAppend DEF Account, Places, Numbers
  <2>. HIDE DEF q
  <2>5. /\ r \in SimPlayer /\ r.queue = q /\ r.lastSeq = p.lastSeq /\ r.bot = p.bot
        /\ r.accepted = p.accepted \cup i.acts /\ r.applied = p.applied
        /\ r.lost = p.lost /\ r.lastActionId = p.lastActionId
    BY <2>1, <2>3 DEF SimPlayer, Input
  <2>6. Enqueued(p, i) = Bounded(r)
    BY <1>2 DEF Enqueued, q
  <2>. HIDE DEF r
  <2>7. LastQueued(r) = i.seq
    BY <2>3, <2>5 DEF LastQueued
  <2>8. ASSUME Account(p, {}), \A b \in i.acts : 0 < b /\ \A a \in p.accepted : a < b
        PROVE  Account(r, {})
    <3>0. i.acts \subseteq Int /\ p.accepted \subseteq Int /\ p.lastActionId \in Int
      BY <2>1, StreamLimits DEF SimPlayer, Input, Actions
    <3>1. i.acts \cap p.accepted = {}
      BY <2>8, <3>0
    <3>2. Places(r, {})
      BY <2>4, <2>5, <2>8, <3>1 DEF Account, Places
    <3>3. \A b \in i.acts : p.lastActionId < b
      BY <2>8, <3>0 DEF Account, Numbers
    <3>4. Numbers(r, {})
      BY <2>4, <2>5, <2>8, <3>3 DEF Account, Numbers
    <3>. QED  BY <3>2, <3>4 DEF Account
  <2>9. /\ Bounded(r).lastSeq = r.lastSeq /\ Bounded(r).bot = r.bot
        /\ Bounded(r).accepted = r.accepted /\ LastQueued(Bounded(r)) = LastQueued(r)
        /\ Account(r, {}) => Account(Bounded(r), {})
        /\ \A k \in 1..Len(Bounded(r).queue) : \E j \in 1..Len(r.queue) :
             Bounded(r).queue[k] = r.queue[j]
    BY <2>5, BoundedKeepsAccount
  <2>10. \A k \in 1..Len(Bounded(r).queue) :
           \/ Bounded(r).queue[k] = i
           \/ \E j \in 1..Len(p.queue) : Bounded(r).queue[k] = p.queue[j]
    BY <2>3, <2>5, <2>9
  <2>. QED  BY <2>2, <2>5, <2>6, <2>7, <2>8, <2>9, <2>10
<1>. QED  BY <1>1, <1>2

(* After a change of hands nothing is queued and nothing is on account.    *)
LEMMA ResetIsEmpty ==
  ASSUME NEW p, Sound(p), NEW bot \in BOOLEAN
  PROVE  LET r == Reset(p, bot)
         IN  /\ r.queue = <<>> /\ r.accepted = {} /\ r.lastSeq = 0
             /\ LastQueued(r) = 0 /\ Account(r, {})
<1>. DEFINE r == Reset(p, bot)
<1>1. /\ r.queue = <<>> /\ r.accepted = {} /\ r.lastSeq = 0
      /\ r.applied = {} /\ r.lost = {} /\ r.lastActionId = 0
  BY DEF Sound, Reset, SimPlayer
<1>. HIDE DEF r
<1>2. Len(r.queue) = 0 /\ ActsOf(r.queue) = {} /\ ActsIncrease(r.queue)
  BY <1>1, EmptySeq DEF ActsOf, ActsIncrease
<1>3. Places(r, {}) /\ Numbers(r, {})
  BY <1>1, <1>2 DEF Places, Numbers
<1>. QED  BY <1>1, <1>3 DEF LastQueued, Account, r

(* What the history of a predictor lets go of is as old as the history is  *)
(* long.                                                                   *)
LEMMA KeptReachesFar ==
  ASSUME NEW m \in Nat, NEW H \in SUBSET (1..m), NEW s \in H
  PROVE  s \in Kept(H) \/ s <= m - HistoryMax
<1>. DEFINE G == {r \in H : r > s}
<1>1. s \in 1..m /\ HistoryMax \in Nat
  BY SessionLimits
<1>2. G \subseteq (s + 1)..m
  <2>. SUFFICES ASSUME NEW r \in G PROVE r \in (s + 1)..m
    OBVIOUS
  <2>1. r \in 1..m /\ r > s
    OBVIOUS
  <2>. QED  BY <1>1, <2>1
<1>3. IsFiniteSet((s + 1)..m) /\ Cardinality((s + 1)..m) = m - s
  <2>1. /\ IsFiniteSet((s + 1)..m)
        /\ Cardinality((s + 1)..m) = IF s + 1 > m THEN 0 ELSE m - (s + 1) + 1
    BY <1>1, FS_Interval
  <2>. QED  BY <1>1, <2>1
<1>4. Cardinality(G) \in Nat /\ Cardinality(G) <= m - s
  <2>. HIDE DEF G
  <2>1. IsFiniteSet(G) /\ Cardinality(G) <= Cardinality((s + 1)..m)
    BY <1>2, <1>3, FS_Subset
  <2>. QED  BY <1>3, <2>1, FS_CardinalityType
<1>5. s \in Kept(H) <=> Cardinality(G) < HistoryMax
  BY DEF Kept
<1>. HIDE DEF G
<1>. QED  BY <1>1, <1>4, <1>5

-----------------------------------------------------------------------------
(*                  One person, from predictor to account                  *)

(* Who is heard has been made; inputs and actions are numbered from one,   *)
(* and the history of a predictor holds its own inputs.                    *)
Voices ==
  /\ heard \subseteq 1..made
  /\ predictor # NoPredictor => predictor.id \in 1..made
  /\ predictor.history \subseteq 1..predictor.seq
  /\ \A k \in 1..Len(up) : up[k].from \in 1..made
  /\ \A k \in 1..Len(up) : 0 < up[k].seq /\ \A a \in up[k].acts : 0 < a
  /\ \A k \in 1..Len(player.queue) : player.queue[k].from \in heard

(* The connection keeps the order in which a predictor sends.              *)
UpInOrder ==
  /\ \A j, k \in 1..Len(up) : j < k /\ up[j].from = up[k].from =>
       up[j].seq < up[k].seq /\ \A a \in up[j].acts, b \in up[k].acts : a < b
  /\ \A k \in 1..Len(up) : up[k].from = predictor.id =>
       up[k].seq <= predictor.seq /\ \A a \in up[k].acts : a <= predictor.actionId

(* A snapshot on its way says nothing the room has not processed.          *)
Answers ==
  /\ net # "up" => down = <<>>
  /\ \A k \in 1..Len(down) : down[k].kind = "snapshot" => down[k].ack <= player.lastSeq

(* A stream that has heard nobody is empty.                                *)
Unheard == heard = {} => LastQueued(player) = 0 /\ player.accepted = {}

(* While the stream hears one predictor only, what that one has made, and  *)
(* what is on its way, is ahead of what the stream has accepted.           *)
MadeAhead ==
  OneVoice /\ predictor # NoPredictor =>
    LastQueued(player) <= predictor.seq /\ \A a \in player.accepted : a <= predictor.actionId
SentAhead ==
  OneVoice => \A k \in 1..Len(up) : up[k].from = predictor.id =>
    /\ LastQueued(player) < up[k].seq
    /\ \A a \in player.accepted, b \in up[k].acts : a < b

(* The history of the predictor covers what is on its way and queued; what *)
(* waits for a return is covered also when the stream has heard others.    *)
Covered(s) == s \in predictor.history \/ s <= predictor.seq - HistoryMax
SentCovered ==
  OneVoice \/ net # "up" =>
    \A k \in 1..Len(up) : up[k].from = predictor.id => Covered(up[k].seq)
QueueCovered ==
  OneVoice => \A k \in 1..Len(player.queue) :
    player.queue[k].from = predictor.id => Covered(player.queue[k].seq)

(* The account of one voice is complete.                                   *)
Books == OneVoice /\ ~player.bot => Account(player, {})

(* The inductive invariant of a person.                                    *)
PersonInv ==
  /\ Voices /\ UpInOrder /\ Answers /\ Unheard
  /\ MadeAhead /\ SentAhead /\ SentCovered /\ QueueCovered /\ Books

(* What the types say of the person, once and for all.                     *)
LEMMA PersonTypes ==
  ASSUME SessionInv
  PROVE  /\ Sound(player) /\ player \in SimPlayer /\ LastQueued(player) \in Nat
         /\ player.lastSeq \in Nat /\ player.lastSeq <= LastQueued(player)
         /\ player.accepted \subseteq Nat /\ player.queue \in Seq(Input)
         /\ predictor \in Predictor /\ predictor.id \in Nat /\ predictor.seq \in Nat
         /\ predictor.actionId \in Nat /\ predictor.history \subseteq Nat
         /\ up \in Seq(Input) /\ Len(up) \in Nat /\ down \in Seq(Message) /\ Len(down) \in Nat
         /\ \A k \in 1..Len(up) : up[k] \in Input /\ up[k].seq \in Nat /\ up[k].acts \subseteq Nat
         /\ made \in Nat /\ HistoryMax \in Nat
<1>1. /\ player \in SimPlayer /\ InOrder(player.queue, player.lastSeq)
      /\ predictor \in Predictor /\ up \in Seq(Input) /\ down \in Seq(Message)
      /\ made \in 0..MaxPredictors /\ MaxPredictors \in Nat /\ HistoryMax \in Nat
  BY SessionLimits DEF SessionInv, TypeOK, StreamTypeOK, StreamInv, QueueInOrder
<1>2. Sound(player)
  BY <1>1 DEF Sound
<1>3. \A k \in 1..Len(up) : up[k] \in Input
  BY <1>1, ElementOfSeq
<1>4. Actions \subseteq Nat
  BY StreamLimits DEF Actions
<1>5. \A k \in 1..Len(up) : up[k].seq \in Nat /\ up[k].acts \subseteq Nat
  BY <1>3, <1>4 DEF Input
<1>6. /\ player.lastSeq \in Nat /\ player.accepted \subseteq Nat
      /\ player.queue \in Seq(Input)
  BY <1>1, <1>4 DEF SimPlayer
<1>7. /\ predictor.id \in Nat /\ predictor.seq \in Nat /\ predictor.actionId \in Nat
      /\ predictor.history \subseteq Nat
  BY <1>1 DEF Predictor
<1>8. LastQueued(player) \in Nat /\ player.lastSeq <= LastQueued(player)
  BY <1>2, LastOfQueue
<1>. QED  BY <1>1, <1>2, <1>3, <1>5, <1>6, <1>7, <1>8, LenProperties

(* What waits in a sound queue is numbered from one.                       *)
LEMMA QueueIsPositive ==
  ASSUME NEW p, Sound(p), NEW k \in 1..Len(p.queue)
  PROVE  p.queue[k] \in Input /\ p.queue[k].seq \in Nat /\ p.lastSeq < p.queue[k].seq
         /\ 0 < p.queue[k].seq
<1>1. p.queue \in Seq(Input) /\ p.lastSeq \in Nat /\ InOrder(p.queue, p.lastSeq)
  BY DEF Sound, SimPlayer
<1>2. p.queue[k] \in Input
  BY <1>1, ElementOfSeq
<1>. QED  BY <1>1, <1>2 DEF Input, InOrder

(* A round begins with nothing heard, sent or on account.                  *)
LEMMA PersonStarts == Init => PersonInv
<1>. SUFFICES ASSUME Init PROVE PersonInv
  OBVIOUS
<1>1. /\ player = FreshPlayer /\ up = <<>> /\ down = <<>> /\ predictor = NoPredictor
      /\ net = "up" /\ heard = {}
  BY DEF Init, StreamInit
<1>2. /\ Len(up) = 0 /\ Len(down) = 0
      /\ player.queue = <<>> /\ Len(player.queue) = 0 /\ player.lastSeq = 0
      /\ player.accepted = {} /\ player.applied = {} /\ player.lost = {}
      /\ player.lastActionId = 0 /\ predictor.history = {}
  BY <1>1, EmptySeq DEF FreshPlayer, NoPredictor
<1>3. Account(player, {})
  BY <1>2 DEF Account, Places, Numbers, ActsOf, ActsIncrease
<1>. QED  BY <1>1, <1>2, <1>3
          DEF PersonInv, Voices, UpInOrder, Answers, Unheard, MadeAhead, SentAhead,
              SentCovered, QueueCovered, Books, LastQueued

(* A step of the prediction sends an input above all others of its         *)
(* predictor, and keeps it in the history.                                 *)
LEMMA ClientStepKeeps ==
  ASSUME SessionInv, PersonInv, ClientStep
  PROVE  PersonInv'
<1>. DEFINE seq == predictor.seq + 1
<1>1. PICK pressed \in {0, 1} :
        LET acts == IF pressed = 1 THEN {predictor.actionId + 1} ELSE {}
        IN  /\ predictor' = [predictor EXCEPT !.seq = seq, !.actionId = @ + pressed,
                                              !.history = Kept(@ \cup {seq})]
            /\ Sent([seq |-> seq, acts |-> acts, from |-> predictor.id])
  BY DEF ClientStep
<1>. DEFINE acts == IF pressed = 1 THEN {predictor.actionId + 1} ELSE {}
            i == [seq |-> seq, acts |-> acts, from |-> predictor.id]
<1>2. /\ predictor # NoPredictor
      /\ player' = player /\ net' = net /\ down' = down /\ made' = made /\ heard' = heard
  BY DEF ClientStep, streamVars
<1>3. /\ predictor \in Predictor /\ predictor.seq \in Nat /\ predictor.actionId \in Nat
      /\ LastQueued(player) \in Nat /\ player.accepted \subseteq Nat /\ HistoryMax \in Nat
      /\ up \in Seq(Input) /\ Len(up) \in Nat
      /\ \A k \in 1..Len(up) : up[k].seq \in Nat /\ up[k].acts \subseteq Nat
  BY PersonTypes
<1>4. /\ Voices /\ UpInOrder /\ Answers /\ Unheard /\ MadeAhead /\ SentAhead
      /\ SentCovered /\ QueueCovered /\ Books
  BY DEF PersonInv
<1>5. /\ predictor'.id = predictor.id /\ predictor'.seq = seq
      /\ predictor'.actionId = predictor.actionId + pressed
      /\ predictor'.history = Kept(predictor.history \cup {seq})
  BY <1>1, <1>3 DEF Predictor
<1>6. up' = up \/ up' = Append(up, i)
  BY <1>1 DEF Sent
<1>7. predictor.id \in 1..made
  BY <1>2, <1>4 DEF Voices
<1>. DEFINE old == 1..Len(up)
<1>8. /\ Len(up') \in Nat /\ Len(up') <= Len(up) + 1
      /\ \A k \in old : k \in 1..Len(up') => up'[k] = up[k]
      /\ \A k \in 1..Len(up') : \/ k \in old /\ up'[k] = up[k]
                                \/ k = Len(up) + 1 /\ up'[k] = i
  <2>. HIDE DEF i
  <2>1. CASE up' = up
    BY <1>3, <2>1
  <2>2. CASE up' = Append(up, i)
    <3>1. /\ Len(up') = Len(up) + 1 /\ up'[Len(up) + 1] = i
          /\ \A k \in old : up'[k] = up[k]
      BY <1>3, <2>2
    <3>2. \A k \in 1..Len(up') : k \in old \/ k = Len(up) + 1
      BY <1>3, <3>1
    <3>. QED  BY <1>3, <3>1, <3>2
  <2>. QED  BY <1>6, <2>1, <2>2
<1>9. /\ i.seq = seq /\ i.from = predictor.id /\ i.acts = acts
      /\ \A b \in acts : b = predictor.actionId + 1 /\ pressed = 1
      /\ seq > predictor.seq /\ seq \in Nat
  BY <1>3
<1>. HIDE DEF i, acts
<1>10. predictor.history \cup {seq} \in SUBSET (1..seq)
  BY <1>3, <1>4, <1>9 DEF Voices
<1>11. \A s \in 1..seq : s = seq \/ Covered(s) => s \in predictor'.history \/ s <= seq - HistoryMax
  <2>. SUFFICES ASSUME NEW s \in 1..seq, s = seq \/ Covered(s)
                PROVE  s \in predictor'.history \/ s <= seq - HistoryMax
    OBVIOUS
  <2>1. CASE s \in predictor.history \cup {seq}
    BY <1>5, <1>9, <1>10, <2>1, KeptReachesFar
  <2>2. CASE s <= predictor.seq - HistoryMax
    BY <1>3, <2>2
  <2>. QED  BY <2>1, <2>2 DEF Covered
<1>12. Kept(predictor.history \cup {seq}) \subseteq 1..seq
  BY <1>10 DEF Kept
<1>. HIDE DEF seq
<1>13. Voices'
  <2>1. ASSUME NEW k \in 1..Len(up')
        PROVE  up'[k].from \in 1..made /\ 0 < up'[k].seq /\ \A a \in up'[k].acts : 0 < a
    <3>1. CASE k \in old /\ up'[k] = up[k]
      BY <1>4, <3>1 DEF Voices
    <3>2. CASE up'[k] = i
      BY <1>3, <1>7, <1>9, <3>2
    <3>. QED  BY <1>8, <3>1, <3>2
  <2>. QED  BY <1>2, <1>4, <1>5, <1>7, <1>12, <2>1 DEF Voices
<1>14. UpInOrder'
  <2>1. ASSUME NEW k \in 1..Len(up'), up'[k].from = predictor'.id
        PROVE  up'[k].seq <= predictor'.seq /\ \A a \in up'[k].acts : a <= predictor'.actionId
    <3>1. CASE k \in old /\ up'[k] = up[k]
      <4>1. up[k].seq <= predictor.seq /\ \A a \in up[k].acts : a <= predictor.actionId
        BY <1>4, <1>5, <2>1, <3>1 DEF UpInOrder
      <4>. QED  BY <1>3, <1>5, <1>9, <3>1, <4>1
    <3>2. CASE up'[k] = i
      BY <1>3, <1>5, <1>9, <3>2
    <3>. QED  BY <1>8, <3>1, <3>2
  <2>2. ASSUME NEW j \in 1..Len(up'), NEW k \in 1..Len(up'), j < k,
               up'[j].from = up'[k].from
        PROVE  up'[j].seq < up'[k].seq /\ \A a \in up'[j].acts, b \in up'[k].acts : a < b
    <3>1. j \in old /\ up'[j] = up[j]
      <4>1. j \in old
        BY <1>3, <1>8, <2>2
      <4>. QED  BY <1>8, <4>1
    <3>2. CASE k \in old /\ up'[k] = up[k]
      BY <1>4, <2>2, <3>1, <3>2 DEF UpInOrder
    <3>3. CASE up'[k] = i
      <4>1. up[j].seq <= predictor.seq /\ \A a \in up[j].acts : a <= predictor.actionId
        BY <1>4, <1>9, <2>2, <3>1, <3>3 DEF UpInOrder
      <4>. QED  BY <1>3, <1>9, <3>1, <3>3, <4>1
    <3>. QED  BY <1>8, <3>2, <3>3
  <2>. QED  BY <2>1, <2>2 DEF UpInOrder
<1>15. Answers' /\ Unheard' /\ OneVoice' = OneVoice
  BY <1>2, <1>4, <1>5 DEF Answers, Unheard, LastQueued, OneVoice
<1>16. MadeAhead'
  <2>. SUFFICES ASSUME OneVoice
                PROVE  /\ LastQueued(player) <= seq
                       /\ \A a \in player.accepted : a <= predictor.actionId + pressed
    BY <1>2, <1>5, <1>15 DEF MadeAhead, LastQueued
  <2>. QED  BY <1>2, <1>3, <1>4, <1>9 DEF MadeAhead
<1>17. SentAhead'
  <2>. SUFFICES ASSUME OneVoice, NEW k \in 1..Len(up'), up'[k].from = predictor.id
                PROVE  /\ LastQueued(player) < up'[k].seq
                       /\ \A a \in player.accepted, b \in up'[k].acts : a < b
    BY <1>2, <1>5, <1>15 DEF SentAhead, LastQueued
  <2>1. CASE k \in old /\ up'[k] = up[k]
    BY <1>4, <2>1 DEF SentAhead
  <2>2. CASE up'[k] = i
    BY <1>2, <1>3, <1>4, <1>9, <2>2 DEF MadeAhead
  <2>. QED  BY <1>8, <2>1, <2>2
<1>18. SentCovered'
  <2>. SUFFICES ASSUME OneVoice \/ net # "up", NEW k \in 1..Len(up'), up'[k].from = predictor.id
                PROVE  up'[k].seq \in predictor'.history \/ up'[k].seq <= seq - HistoryMax
    BY <1>2, <1>5, <1>15 DEF SentCovered, Covered
  <2>1. CASE k \in old /\ up'[k] = up[k]
    <3>1. Covered(up[k].seq) /\ 0 < up[k].seq /\ up[k].seq <= predictor.seq
      BY <1>4, <2>1 DEF SentCovered, Voices, UpInOrder
    <3>2. up[k].seq \in 1..seq
      BY <1>3, <1>9, <2>1, <3>1
    <3>. QED  BY <1>11, <2>1, <3>1, <3>2
  <2>2. CASE up'[k] = i
    <3>1. seq \in 1..seq
      BY <1>3, <1>9 DEF seq
    <3>. QED  BY <1>9, <1>11, <2>2, <3>1
  <2>. QED  BY <1>8, <2>1, <2>2
<1>19. QueueCovered'
  <2>. SUFFICES ASSUME OneVoice, NEW k \in 1..Len(player.queue),
                       player.queue[k].from = predictor.id
                PROVE  \/ player.queue[k].seq \in predictor'.history
                       \/ player.queue[k].seq <= seq - HistoryMax
    BY <1>2, <1>5, <1>15 DEF QueueCovered, Covered
  <2>1. Covered(player.queue[k].seq)
    BY <1>4 DEF QueueCovered
  <2>2. player.queue[k].seq \in Nat /\ 0 < player.queue[k].seq
    BY PersonTypes, QueueIsPositive
  <2>3. player.queue[k].seq <= LastQueued(player) /\ LastQueued(player) <= predictor.seq
    BY <1>2, <1>4, PersonTypes, LastOfQueue DEF MadeAhead
  <2>4. player.queue[k].seq \in 1..seq
    BY <1>3, <1>9, <2>2, <2>3
  <2>. QED  BY <1>11, <2>1, <2>4
<1>20. Books'
  BY <1>2, <1>4, <1>15 DEF Books, Account, Places, Numbers
<1>. QED  BY <1>13, <1>14, <1>15, <1>16, <1>17, <1>18, <1>19, <1>20 DEF PersonInv

(* What a predictor that is thrown away, or made anew, means: no input on  *)
(* its way or queued is its own, and it is the one voice of an empty       *)
(* stream only.                                                            *)
LEMMA NewPredictorIsFresh ==
  ASSUME SessionInv, PersonInv,
         player' = player, up' = up, net' = net, heard' = heard,
         predictor'.id \notin 1..made, predictor'.history = {},
         made' \in Nat, 1..made \subseteq 1..made',
         \/ predictor' = NoPredictor
         \/ predictor'.id \in 1..made' /\ predictor'.seq = 0 /\ predictor'.actionId = 0
  PROVE  Voices' /\ UpInOrder' /\ Unheard' /\ MadeAhead' /\ SentAhead'
         /\ SentCovered' /\ QueueCovered' /\ Books'
<1>1. /\ Voices /\ UpInOrder /\ Unheard /\ Books
  BY DEF PersonInv
<1>2. /\ \A k \in 1..Len(up) : up[k].from \in 1..made /\ up[k].from # predictor'.id
      /\ \A k \in 1..Len(player.queue) : player.queue[k].from # predictor'.id
  BY <1>1 DEF Voices
<1>3. OneVoice' => heard = {}
  BY <1>1 DEF OneVoice, Voices
<1>4. heard = {} => OneVoice
  BY DEF OneVoice
<1>5. Voices'
  BY <1>1 DEF Voices
<1>6. UpInOrder'
  BY <1>1, <1>2 DEF UpInOrder
<1>7. Unheard'
  BY <1>1 DEF Unheard, LastQueued
<1>8. MadeAhead'
  BY <1>1, <1>3 DEF MadeAhead, Unheard, LastQueued
<1>9. SentAhead' /\ SentCovered' /\ QueueCovered'
  BY <1>2 DEF SentAhead, SentCovered, QueueCovered
<1>10. Books'
  BY <1>1, <1>3, <1>4 DEF Books, Account, Places, Numbers
<1>. QED  BY <1>5, <1>6, <1>7, <1>8, <1>9, <1>10

(* The message that a round is loading throws the predictor away.          *)
LEMMA BeginRoundKeeps ==
  ASSUME SessionInv, PersonInv, BeginRound
  PROVE  PersonInv'
<1>1. /\ predictor' = NoPredictor /\ player' = player /\ up' = up /\ net' = net
      /\ heard' = heard /\ down' = down /\ made' = made
  BY DEF BeginRound, streamVars
<1>2. /\ predictor'.id = 0 /\ predictor'.history = {} /\ made \in Nat /\ 0 \notin 1..made
  BY <1>1, PersonTypes DEF NoPredictor
<1>3. Answers'
  BY <1>1 DEF PersonInv, Answers
<1>. QED  BY <1>1, <1>2, <1>3, NewPredictorIsFresh DEF PersonInv

(* A snapshot drops from the history only what the room has processed.     *)
LEMMA ReceiveKeeps ==
  ASSUME SessionInv, PersonInv, Receive
  PROVE  PersonInv'
<1>. DEFINE m == Head(down)
            mine == IF predictor = NoPredictor
                    THEN [NoPredictor EXCEPT !.id = made + 1] ELSE predictor
<1>1. /\ net = "up" /\ down # <<>> /\ down' = Tail(down)
      /\ player' = player /\ net' = net /\ up' = up /\ heard' = heard
  BY DEF Receive, streamVars
<1>2. \/ UNCHANGED <<predictor, made>>
      \/ /\ m.kind = "snapshot"
         /\ predictor' = Reconciled(mine, m.ack)
         /\ made' = IF predictor = NoPredictor THEN made + 1 ELSE made
  BY DEF Receive
<1>3. /\ Voices /\ UpInOrder /\ Answers /\ Unheard /\ MadeAhead /\ SentAhead
      /\ SentCovered /\ QueueCovered /\ Books
  BY DEF PersonInv
<1>4. /\ made \in Nat /\ predictor \in Predictor /\ player.lastSeq \in Nat
      /\ down \in Seq(Message) /\ Len(down) \in Nat /\ predictor.history \subseteq Nat
      /\ player.lastSeq <= LastQueued(player) /\ LastQueued(player) \in Nat
      /\ \A k \in 1..Len(up) : up[k].seq \in Nat
      /\ Sound(player)
  BY PersonTypes
<1>5. /\ m = down[1] /\ m \in Message /\ Len(down) \in Nat \ {0}
      /\ Len(Tail(down)) = Len(down) - 1
      /\ \A k \in 1..Len(Tail(down)) : Tail(down)[k] = down[k + 1]
  BY <1>1, <1>4, HeadTailProperties, EmptySeq
<1>6. Answers'
  <2>1. \A k \in 1..Len(Tail(down)) : k + 1 \in 1..Len(down)
    BY <1>4, <1>5
  <2>. QED  BY <1>1, <1>3, <1>5, <2>1 DEF Answers
<1>. HIDE DEF m
<1>7. CASE UNCHANGED <<predictor, made>>
  BY <1>1, <1>3, <1>6, <1>7
     DEF PersonInv, Voices, UpInOrder, Unheard, MadeAhead, SentAhead, SentCovered,
         QueueCovered, Covered, Books, OneVoice, LastQueued, Account, Places, Numbers
<1>8. CASE /\ m.kind = "snapshot" /\ predictor = NoPredictor
           /\ predictor' = Reconciled(mine, m.ack) /\ made' = made + 1
  <2>1. /\ predictor'.id = made + 1 /\ predictor'.seq = 0 /\ predictor'.actionId = 0
        /\ predictor'.history = {}
    BY <1>8 DEF Reconciled, NoPredictor
  <2>2. /\ made + 1 \notin 1..made /\ made' \in Nat /\ 1..made \subseteq 1..made'
        /\ made + 1 \in 1..made'
    BY <1>4, <1>8
  <2>. QED  BY <1>1, <1>6, <2>1, <2>2, NewPredictorIsFresh DEF PersonInv
<1>9. CASE /\ m.kind = "snapshot" /\ predictor # NoPredictor
           /\ predictor' = Reconciled(predictor, m.ack) /\ made' = made
  <2>1. /\ predictor'.id = predictor.id /\ predictor'.seq = predictor.seq
        /\ predictor'.actionId = predictor.actionId
        /\ predictor'.history = {s \in predictor.history : s > m.ack}
    BY <1>4, <1>9 DEF Reconciled, Predictor
  <2>2. m.ack <= player.lastSeq /\ m.ack \in Nat
    BY <1>3, <1>5, <1>9 DEF Answers, Message
  <2>3. ASSUME NEW s \in Nat, player.lastSeq < s, Covered(s) PROVE Covered(s)'
    <3>1. m.ack < s
      BY <1>4, <2>2, <2>3
    <3>. QED  BY <2>1, <2>3, <3>1 DEF Covered
  <2>4. Voices' /\ UpInOrder' /\ Unheard'
    BY <1>1, <1>3, <1>9, <2>1 DEF Voices, UpInOrder, Unheard, LastQueued
  <2>5. OneVoice' = OneVoice
    BY <1>1, <2>1 DEF OneVoice
  <2>6. MadeAhead' /\ SentAhead' /\ Books'
    BY <1>1, <1>3, <1>9, <2>1, <2>5
       DEF MadeAhead, SentAhead, Books, LastQueued, Account, Places, Numbers
  <2>7. SentCovered'
    <3>. SUFFICES ASSUME OneVoice, NEW k \in 1..Len(up), up[k].from = predictor.id
                  PROVE  Covered(up[k].seq)'
      BY <1>1, <2>1, <2>5 DEF SentCovered, Covered
    <3>1. LastQueued(player) < up[k].seq /\ Covered(up[k].seq)
      BY <1>3 DEF SentAhead, SentCovered
    <3>2. up[k].seq \in Nat /\ player.lastSeq < up[k].seq
      BY <1>4, <3>1
    <3>. QED  BY <1>1, <2>3, <3>1, <3>2 DEF Covered
  <2>8. QueueCovered'
    <3>. SUFFICES ASSUME OneVoice, NEW k \in 1..Len(player.queue),
                         player.queue[k].from = predictor.id
                  PROVE  Covered(player.queue[k].seq)'
      BY <1>1, <2>1, <2>5 DEF QueueCovered, Covered
    <3>1. /\ Covered(player.queue[k].seq) /\ player.queue[k].seq \in Nat
          /\ player.lastSeq < player.queue[k].seq
      BY <1>3, <1>4, QueueIsPositive DEF QueueCovered
    <3>. QED  BY <1>1, <2>3, <3>1 DEF Covered
  <2>. QED  BY <1>6, <2>4, <2>6, <2>7, <2>8 DEF PersonInv
<1>. QED  BY <1>2, <1>7, <1>8, <1>9

(* The room takes the oldest input on its way, or refuses it.              *)
LEMMA DeliverKeeps ==
  ASSUME SessionInv, PersonInv, Deliver
  PROVE  PersonInv'
<1>. DEFINE i == up[1]
<1>1. /\ net = "up" /\ net' = net /\ up # <<>> /\ up' = Tail(up) /\ down' = down
      /\ predictor' = predictor /\ made' = made
  BY DEF Deliver, clientVars
<1>2. /\ Voices /\ UpInOrder /\ Answers /\ Unheard /\ MadeAhead /\ SentAhead
      /\ SentCovered /\ QueueCovered /\ Books
  BY DEF PersonInv
<1>3. /\ up \in Seq(Input) /\ Len(up) \in Nat /\ Sound(player) /\ player \in SimPlayer
      /\ predictor.id \in Nat /\ NoPredictor.id = 0 /\ LastQueued(player) \in Nat
      /\ player.accepted \subseteq Nat /\ predictor.seq \in Nat
      /\ predictor.actionId \in Nat /\ made \in Nat
      /\ \A k \in 1..Len(up) : up[k] \in Input /\ up[k].seq \in Nat /\ up[k].acts \subseteq Nat
  BY PersonTypes DEF NoPredictor
<1>4. /\ Head(up) = i /\ Len(up) \in Nat \ {0}
      /\ Len(up') = Len(up) - 1
      /\ \A k \in 1..Len(up') : up'[k] = up[k + 1]
  BY <1>1, <1>3, HeadTailProperties, EmptySeq
<1>5. 1 \in 1..Len(up) /\ i \in Input /\ \A k \in 1..Len(up') : k + 1 \in 1..Len(up) /\ 1 < k + 1
  BY <1>3, <1>4
<1>6. \/ player' = player /\ heard' = heard
      \/ player' = Enqueued(player, i) /\ player' # player /\ heard' = heard \cup {i.from}
  BY <1>4 DEF Deliver, Enqueue, streamVars
<1>7. /\ player'.lastSeq = player.lastSeq /\ player'.bot = player.bot
      /\ \/ player' = player
         \/ /\ LastQueued(player) < i.seq /\ LastQueued(player)' = i.seq
            /\ player'.accepted = player.accepted \cup i.acts
            /\ \A k \in 1..Len(player'.queue) :
                 \/ player'.queue[k] = i
                 \/ \E j \in 1..Len(player.queue) : player'.queue[k] = player.queue[j]
      /\ LET new == \A b \in i.acts : 0 < b /\ \A a \in player.accepted : a < b
         IN  Account(player, {}) /\ new => Account(player', {})
  <2>1. CASE player' = player
    BY <2>1
  <2>2. CASE player' = Enqueued(player, i) /\ player' # player
    <3>. HIDE DEF i
    <3>1. LastQueued(player)' = LastQueued(player')
      BY DEF LastQueued
    <3>. QED  BY <1>3, <1>5, <2>2, <3>1, EnqueuedKeepsAccount
  <2>. QED  BY <1>6, <2>1, <2>2
<1>8. /\ i.from \in 1..made /\ 0 < i.seq /\ \A a \in i.acts : 0 < a
  BY <1>2, <1>5 DEF Voices
<1>9. /\ i.from = predictor.id => i.seq <= predictor.seq /\ \A a \in i.acts : a <= predictor.actionId
      /\ i.from = predictor.id => predictor # NoPredictor
  BY <1>2, <1>3, <1>5, <1>8 DEF UpInOrder
<1>10. /\ OneVoice' => OneVoice
       /\ OneVoice' /\ player' # player => i.from = predictor.id
       /\ player' = player => heard' = heard
  BY <1>1, <1>6 DEF OneVoice
<1>. HIDE DEF i
<1>11. Voices'
  <2>1. \A k \in 1..Len(player'.queue) : player'.queue[k].from \in heard'
    BY <1>2, <1>6, <1>7 DEF Voices
  <2>2. heard' \subseteq 1..made'
    BY <1>1, <1>2, <1>6, <1>8 DEF Voices
  <2>. QED  BY <1>1, <1>2, <1>4, <1>5, <2>1, <2>2 DEF Voices
<1>12. UpInOrder'
  <2>1. ASSUME NEW j \in 1..Len(up'), NEW k \in 1..Len(up'), j < k,
               up'[j].from = up'[k].from
        PROVE  up'[j].seq < up'[k].seq /\ \A a \in up'[j].acts, b \in up'[k].acts : a < b
    <3>1. j + 1 \in 1..Len(up) /\ k + 1 \in 1..Len(up) /\ j + 1 < k + 1
      BY <1>5, <2>1
    <3>. QED  BY <1>2, <1>4, <2>1, <3>1 DEF UpInOrder
  <2>2. ASSUME NEW k \in 1..Len(up'), up'[k].from = predictor'.id
        PROVE  up'[k].seq <= predictor'.seq /\ \A a \in up'[k].acts : a <= predictor'.actionId
    BY <1>1, <1>2, <1>4, <1>5, <2>2 DEF UpInOrder
  <2>. QED  BY <2>1, <2>2 DEF UpInOrder
<1>13. Answers'
  BY <1>1, <1>2, <1>7 DEF Answers
<1>14. Unheard'
  <2>1. CASE player' = player
    BY <1>2, <1>10, <2>1 DEF Unheard, LastQueued
  <2>2. CASE player' # player
    BY <1>6, <2>2 DEF Unheard
  <2>. QED  BY <2>1, <2>2
<1>15. MadeAhead'
  <2>. SUFFICES ASSUME OneVoice', predictor # NoPredictor
                PROVE  /\ LastQueued(player)' <= predictor.seq
                       /\ \A a \in player'.accepted : a <= predictor.actionId
    BY <1>1 DEF MadeAhead
  <2>1. LastQueued(player) <= predictor.seq /\ \A a \in player.accepted : a <= predictor.actionId
    BY <1>2, <1>10 DEF MadeAhead
  <2>2. CASE player' = player
    BY <2>1, <2>2 DEF LastQueued
  <2>3. CASE player' # player
    BY <1>7, <1>9, <1>10, <2>1, <2>3
  <2>. QED  BY <2>2, <2>3
<1>16. SentAhead'
  <2>. SUFFICES ASSUME OneVoice', NEW k \in 1..Len(up'), up'[k].from = predictor.id
                PROVE  /\ LastQueued(player)' < up'[k].seq
                       /\ \A a \in player'.accepted, b \in up'[k].acts : a < b
    BY <1>1 DEF SentAhead
  <2>1. k + 1 \in 1..Len(up) /\ up'[k] = up[k + 1] /\ 1 < k + 1
    BY <1>4, <1>5
  <2>2. /\ LastQueued(player) < up[k + 1].seq
        /\ \A a \in player.accepted, b \in up[k + 1].acts : a < b
    BY <1>2, <1>10, <2>1 DEF SentAhead
  <2>3. CASE player' = player
    BY <2>1, <2>2, <2>3 DEF LastQueued
  <2>4. CASE player' # player
    <3>1. i.seq < up[k + 1].seq /\ \A a \in i.acts, b \in up[k + 1].acts : a < b
      BY <1>2, <1>5, <1>10, <2>1, <2>4 DEF UpInOrder, i
    <3>. QED  BY <1>7, <2>1, <2>2, <2>4, <3>1
  <2>. QED  BY <2>3, <2>4
<1>17. SentCovered'
  <2>. SUFFICES ASSUME OneVoice', NEW k \in 1..Len(up'), up'[k].from = predictor.id
                PROVE  Covered(up'[k].seq)
    BY <1>1 DEF SentCovered, Covered
  <2>. QED  BY <1>2, <1>4, <1>5, <1>10 DEF SentCovered
<1>18. QueueCovered'
  <2>. SUFFICES ASSUME OneVoice', NEW k \in 1..Len(player'.queue),
                       player'.queue[k].from = predictor.id
                PROVE  Covered(player'.queue[k].seq)
    BY <1>1 DEF QueueCovered, Covered
  <2>1. CASE player' # player /\ player'.queue[k] = i
    BY <1>2, <1>5, <1>10, <2>1 DEF SentCovered, i
  <2>2. CASE \E j \in 1..Len(player.queue) : player'.queue[k] = player.queue[j]
    BY <1>2, <1>10, <2>2 DEF QueueCovered
  <2>. QED  BY <1>7, <2>1, <2>2
<1>19. Books'
  <2>. SUFFICES ASSUME OneVoice', ~player.bot PROVE Account(player', {})
    BY <1>7 DEF Books, Account, Places, Numbers
  <2>1. Account(player, {})
    BY <1>2, <1>10 DEF Books
  <2>2. CASE player' = player
    BY <2>1, <2>2
  <2>3. CASE player' # player
    <3>1. \A b \in i.acts : 0 < b /\ \A a \in player.accepted : a < b
      BY <1>2, <1>5, <1>8, <1>10, <2>3 DEF SentAhead, i
    <3>. QED  BY <1>7, <2>1, <3>1
  <2>. QED  BY <2>2, <2>3
<1>. QED  BY <1>11, <1>12, <1>13, <1>14, <1>15, <1>16, <1>17, <1>18, <1>19 DEF PersonInv

(* A tick takes from the stream what was accepted, and tells the client.   *)
LEMMA RoomStepKeeps ==
  ASSUME SessionInv, PersonInv, RoomStep
  PROVE  PersonInv'
<1>1. /\ Tick /\ net' = net /\ up' = up /\ predictor' = predictor /\ made' = made
      /\ heard' = heard
      /\ \/ net = "up" /\ down' = Append(down, Snapshot(player'.lastSeq))
         \/ down' = down
  BY DEF RoomStep, clientVars
<1>2. /\ Voices /\ UpInOrder /\ Answers /\ Unheard /\ MadeAhead /\ SentAhead
      /\ SentCovered /\ QueueCovered /\ Books
  BY DEF PersonInv
<1>3. /\ Sound(player) /\ down \in Seq(Message) /\ Len(down) \in Nat
      /\ player.lastSeq \in Nat
  BY PersonTypes
<1>4. /\ player.lastSeq <= player'.lastSeq /\ LastQueued(player)' = LastQueued(player)
      /\ player'.bot = player.bot /\ player'.accepted = player.accepted
      /\ \A k \in 1..Len(player'.queue) : \E j \in 1..Len(player.queue) :
           /\ player'.queue[k].seq = player.queue[j].seq
           /\ player'.queue[k].from = player.queue[j].from
      /\ ~player.bot /\ Account(player, {}) => Account(player', {})
  <2>1. LastQueued(player)' = LastQueued(player')
    BY DEF LastQueued
  <2>. QED  BY <1>1, <1>3, <2>1, TickKeepsAccount DEF Onward
<1>5. OneVoice' = OneVoice
  BY <1>1 DEF OneVoice
<1>6. Voices' /\ UpInOrder'
  BY <1>1, <1>2, <1>4 DEF Voices, UpInOrder
<1>7. player'.lastSeq \in Nat
  <2>1. Sound(player)'
    BY SessionMaps, StreamSteps DEF SessionInv, Next, StreamInv, StreamTypeOK, QueueInOrder, Sound
  <2>. QED  BY <2>1 DEF Sound, SimPlayer
<1>8. Answers'
  <2>1. ASSUME NEW k \in 1..Len(down), down[k].kind = "snapshot"
        PROVE  down[k].ack <= player'.lastSeq
    <3>1. down[k].ack \in Nat
      <4>1. down[k] \in Message
        BY <1>3, ElementOfSeq
      <4>. QED  BY <4>1 DEF Message
    <3>2. down[k].ack <= player.lastSeq
      BY <1>2, <2>1 DEF Answers
    <3>. QED  BY <1>3, <1>4, <1>7, <3>1, <3>2
  <2>2. CASE down' = down
    BY <1>1, <1>2, <2>1, <2>2 DEF Answers
  <2>3. CASE net = "up" /\ down' = Append(down, Snapshot(player'.lastSeq))
    <3>. DEFINE s == Snapshot(player'.lastSeq)
    <3>1. s.ack = player'.lastSeq
      BY DEF Snapshot
    <3>. HIDE DEF s
    <3>2. \A k \in 1..Len(down') : \/ k \in 1..Len(down) /\ down'[k] = down[k]
                                  \/ down'[k] = s
      BY <1>3, <2>3 DEF s
    <3>. QED  BY <1>1, <1>7, <2>1, <2>3, <3>1, <3>2 DEF Answers
  <2>. QED  BY <1>1, <2>2, <2>3
<1>9. Unheard' /\ MadeAhead' /\ SentAhead' /\ SentCovered'
  BY <1>1, <1>2, <1>4, <1>5 DEF Unheard, MadeAhead, SentAhead, SentCovered, Covered
<1>10. QueueCovered' /\ Books'
  <2>1. QueueCovered'
    BY <1>1, <1>2, <1>4, <1>5 DEF QueueCovered, Covered
  <2>2. Account(player', {}) => Account(player, {})'
    BY DEF Account, Places, Numbers
  <2>. QED  BY <1>2, <1>4, <1>5, <2>1, <2>2 DEF Books
<1>. QED  BY <1>6, <1>8, <1>9, <1>10 DEF PersonInv

(* A drop loses what was on its way, and nothing of the stream.            *)
LEMMA DropKeeps ==
  ASSUME SessionInv, PersonInv, Drop
  PROVE  PersonInv'
<1>1. /\ up' = <<>> /\ down' = <<>> /\ player' = player /\ heard' = heard
      /\ predictor' = predictor /\ made' = made /\ Len(up') = 0 /\ Len(down') = 0
  BY EmptySeq DEF Drop, streamVars, clientVars
<1>. QED  BY <1>1
          DEF PersonInv, Voices, UpInOrder, Answers, Unheard, MadeAhead, SentAhead,
              SentCovered, QueueCovered, Covered, Books, OneVoice, LastQueued,
              Account, Places, Numbers

(* A new controller finds the stream empty; what the client has sent while *)
(* the connection was down is covered by its history.                      *)
LEMMA ResetKeeps ==
  ASSUME SessionInv, PersonInv, Return \/ WindowExpires \/ Rejoin \/ Reopen
  PROVE  PersonInv'
<1>1. /\ \E bot \in BOOLEAN : player' = Reset(player, bot)
      /\ heard' = {} /\ made' = made
      /\ predictor' \in {predictor, NoPredictor}
      /\ \/ up' = <<>>
         \/ up' = up /\ net # "up" /\ predictor' = predictor
      /\ \/ net' = "up" /\ down' = <<Loading>>
         \/ net # "up" /\ down' = down
  BY DEF Return, WindowExpires, Rejoin, Reopen, NewController, ChangeHands, clientVars
<1>2. /\ Voices /\ UpInOrder /\ Answers /\ SentCovered
  BY DEF PersonInv
<1>3. /\ Sound(player) /\ predictor.seq \in Nat
      /\ NoPredictor.history = {} /\ NoPredictor.seq = 0
      /\ \A k \in 1..Len(up) : up[k].seq \in Nat
  BY PersonTypes DEF NoPredictor
<1>4. /\ player'.queue = <<>> /\ Len(player'.queue) = 0 /\ player'.accepted = {}
      /\ player'.lastSeq = 0 /\ LastQueued(player)' = 0 /\ Account(player', {})
  <2>1. LastQueued(player)' = LastQueued(player')
    BY DEF LastQueued
  <2>. QED  BY <1>1, <1>3, <2>1, ResetIsEmpty, EmptySeq
<1>5. Voices'
  <2>1. CASE up' = <<>>
    BY <1>1, <1>2, <1>3, <1>4, <2>1, EmptySeq DEF Voices
  <2>2. CASE up' = up /\ predictor' = predictor
    BY <1>1, <1>2, <1>4, <2>2 DEF Voices
  <2>. QED  BY <1>1, <2>1, <2>2
<1>6. UpInOrder' /\ SentAhead' /\ SentCovered'
  <2>1. CASE up' = <<>>
    BY <2>1, EmptySeq DEF UpInOrder, SentAhead, SentCovered
  <2>2. CASE up' = up /\ net # "up" /\ predictor' = predictor
    BY <1>2, <1>4, <2>2 DEF Voices, UpInOrder, SentAhead, SentCovered, Covered
  <2>. QED  BY <1>1, <2>1, <2>2
<1>7. Answers'
  <2>1. CASE net' = "up" /\ down' = <<Loading>>
    <3>1. \A k \in 1..Len(down') : down'[k] = Loading
      BY <2>1
    <3>2. Loading.kind # "snapshot"
      BY DEF Loading
    <3>. QED  BY <2>1, <3>1, <3>2 DEF Answers
  <2>2. CASE net # "up" /\ down' = down
    <3>1. down' = <<>> /\ Len(down') = 0
      BY <1>2, <2>2, EmptySeq DEF Answers
    <3>. QED  BY <3>1 DEF Answers
  <2>. QED  BY <1>1, <2>1, <2>2
<1>8. Unheard' /\ MadeAhead' /\ QueueCovered'
  BY <1>1, <1>3, <1>4 DEF Unheard, MadeAhead, QueueCovered
<1>9. Books'
  BY <1>4 DEF Books, Account, Places, Numbers
<1>. QED  BY <1>5, <1>6, <1>7, <1>8, <1>9 DEF PersonInv

(* Every step of the session keeps what is known of the person.            *)
LEMMA PersonSteps == SessionInv /\ PersonInv /\ [Next]_vars => PersonInv'
<1>. SUFFICES ASSUME SessionInv, PersonInv, [Next]_vars PROVE PersonInv'
  OBVIOUS
<1>1. CASE Next
  BY <1>1, ClientStepKeeps, ReceiveKeeps, BeginRoundKeeps, DeliverKeeps,
     RoomStepKeeps, DropKeeps, ResetKeeps DEF Next
<1>2. CASE UNCHANGED vars
  BY <1>2
     DEF vars, PersonInv, Voices, UpInOrder, Answers, Unheard, MadeAhead, SentAhead,
         SentCovered, QueueCovered, Covered, Books, OneVoice, LastQueued,
         Account, Places, Numbers
<1>. QED  BY <1>1, <1>2

(* Both invariants hold in every state of a session.                       *)
THEOREM PersonCorrect == Spec => [](SessionInv /\ PersonInv)
<1>1. Init => PersonInv
  BY PersonStarts
<1>. QED  BY <1>1, PersonSteps, SessionCorrect, PTL DEF Spec

(* A new controller is obeyed: as long as the stream has heard nobody but  *)
(* the predictor the client has now, none of the inputs it has sent will   *)
(* be discarded as old, whatever was lost, kept or replayed before.        *)
THEOREM NewControllerIsObeyed == Spec => []TakenWhenOneVoice
<1>1. PersonInv => TakenWhenOneVoice
  BY DEF PersonInv, SentAhead, TakenWhenOneVoice, NewInputsAreTaken
<1>. QED  BY <1>1, PersonCorrect, PTL

(* What the client applies again after a snapshot covers all it has sent   *)
(* and the room has not simulated, as far as its history reaches.          *)
THEOREM HistoryCovers == Spec => []HistoryCoversFlight
<1>1. PersonInv => HistoryCoversFlight
  <2>. SUFFICES ASSUME PersonInv, OneVoice, NEW s \in OwnInFlight
                PROVE  s \in predictor.history \/ s <= predictor.seq - HistoryMax
    BY DEF HistoryCoversFlight
  <2>1. \/ \E k \in 1..Len(up) : up[k].from = predictor.id /\ s = up[k].seq
        \/ \E k \in 1..Len(player.queue) :
             player.queue[k].from = predictor.id /\ s = player.queue[k].seq
    BY DEF OwnInFlight
  <2>. QED  BY <2>1 DEF PersonInv, SentCovered, QueueCovered, Covered
<1>. QED  BY <1>1, PersonCorrect, PTL

(* A discrete action that reached the room is queued, applied or lost for  *)
(* a known reason: it is never applied twice, and never vanishes.          *)
THEOREM ActionsAreConserved == Spec => []ActionsConserved
<1>1. PersonInv => ActionsConserved
  BY DEF PersonInv, Books, Account, Places, ActsOf, ActionsConserved, Queued
<1>. QED  BY <1>1, PersonCorrect, PTL

=============================================================================
